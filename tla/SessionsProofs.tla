--------------------------- MODULE SessionsProofs ---------------------------
(***************************************************************************)
(* What every step of a program over the session store preserves, for any  *)
(* number of browsers, requests and tokens.                                *)
(*                                                                         *)
(* The invariant says who may hold a token.  A token being created is held *)
(* by its request alone (Fresh), no token by two browsers (HeldOnce): so   *)
(* what a request writes to a session is seen by its own browser only      *)
(* (LetIn).  A request's copy that is not stale is what the last change    *)
(* made of the session (Copied).                                           *)
(***************************************************************************)
EXTENDS Sessions, TLAPS

Carries(h, k) == InFlight(h) /\ k \in {visit[h].sent, visit[h].tok, visit[h].set}

Holds(b, k) == cookie[b] = k \/ \E h \in Handlers : visit[h].b = b /\ Carries(h, k)

IsFresh(h, k) ==
    /\ k \in Tokens \ DOMAIN store
    /\ \A b \in Browsers : cookie[b] # k
    /\ \A g \in Handlers : g # h => ~Carries(g, k)

Fresh ==
    \A h \in Handlers : visit[h].pc = "keep" => IsFresh(h, visit[h].tok)

Copied ==
    \A h \in Handlers : Open(h) =>
        /\ visit[h].tok \in DOMAIN store
        /\ visit[h].stale \/ meant[visit[h].tok] \in {visit[h].user, Spoilt}

HeldOnce ==
    \A k \in Tokens, b, c \in Browsers : Holds(b, k) /\ Holds(c, k) => b = c

LetIn ==
    /\ \A k \in DOMAIN store, b \in Browsers : Holds(b, k) => store[k] \in granted[b] \cup {Nobody}
    /\ \A h \in Handlers : Open(h) => visit[h].user \in granted[visit[h].b] \cup {Nobody}

(* A copy that has not been read yet, or that is new, is signed in to nothing. *)
Blank ==
    \A h \in Handlers : visit[h].pc \in {"look", "draw", "keep"} => visit[h].user = Nobody

SInv ==
    SessionsTypeOK /\ SessionStands /\ Fresh /\ Copied /\ HeldOnce /\ LetIn /\ Blank

(* The ways in which a program may use the store. *)
Visits(h) ==
    \/ \E b \in Browsers : Arrive(h, b) /\ UNCHANGED <<store, cookie, meant, granted>>
    \/ Lookup(h) \/ NewToken(h) \/ StoreNew(h)
    \/ Open(h) /\ Leave(h)
    \/ Open(h) /\ Update(h)
    \/ Open(h) /\ UpdateAndStart(h)
    \/ Open(h) /\ \E u \in Account : Change(h, u)

SessionsNext ==
    \/ \E h \in Handlers : Visits(h)
    \/ \E b \in Browsers : Expire(b)
    \/ SessionsRestart

-----------------------------------------------------------------------------
LEMMA PutFacts ==
    ASSUME SessionsTypeOK, NEW k \in Tokens, NEW u \in Account, store' = Put(k, u)
    PROVE  /\ DOMAIN store' = DOMAIN store \cup {k}
           /\ store'[k] = u
           /\ \A t \in DOMAIN store : t # k => store'[t] = store[t]
           /\ DOMAIN store' \subseteq Tokens
           /\ store' \in [DOMAIN store' -> Account]
  BY DEF Put, SessionsTypeOK

(* A visit that is open, or any other that is not none, has a visit's fields. *)
LEMMA VisitFields ==
    ASSUME SessionsTypeOK, NEW h \in Handlers, InFlight(h)
    PROVE  /\ visit[h] \in Visit
           /\ visit[h].b \in Browsers
           /\ visit[h].sent \in Tokens \cup {NoToken} /\ visit[h].set \in Tokens \cup {NoToken}
           /\ visit[h].tok \in Tokens \cup {NoToken} /\ visit[h].user \in Account
           /\ visit[h].stale \in BOOLEAN
  BY DEF SessionsTypeOK, InFlight, Visit

LEMMA PcInFlight ==
    ASSUME SessionsTypeOK, NEW h \in Handlers, visit[h].pc # "none"
    PROVE  InFlight(h)
  BY DEF InFlight, NoVisit

LEMMA NoTokenUnknown ==
    ASSUME SessionsTypeOK
    PROVE  NoToken \notin DOMAIN store
  BY SessionsAssumption DEF SessionsTypeOK

(* Steps after which nobody holds a token he did not hold before, and that *)
(* create none, keep HeldOnce; and Fresh, if no token is stored by another *)
(* than its creator.                                                       *)
HoldNoMore == \A b \in Browsers, k \in Tokens : Holds(b, k)' => Holds(b, k)

CarryNoMore == \A g \in Handlers, t \in Tokens : Carries(g, t)' => Carries(g, t)

SameKeepers ==
    \A g \in Handlers : visit'[g].pc = "keep" => visit[g].pc = "keep" /\ visit'[g].tok = visit[g].tok

KeptUnknown ==
    \A g \in Handlers : visit[g].pc = "keep" /\ visit'[g].pc = "keep" =>
        visit[g].tok \notin DOMAIN store' /\ \A b \in Browsers : cookie'[b] # visit[g].tok

LEMMA StillFresh ==
    ASSUME Fresh, CarryNoMore, SameKeepers, KeptUnknown
    PROVE  Fresh'
<1> SUFFICES ASSUME NEW g \in Handlers, visit'[g].pc = "keep"
             PROVE  IsFresh(g, visit[g].tok)'
  BY DEF Fresh
<1>1. visit[g].pc = "keep" /\ visit'[g].tok = visit[g].tok
  BY DEF SameKeepers
<1>2. IsFresh(g, visit[g].tok)
  BY <1>1 DEF Fresh
<1>3. visit[g].tok \in Tokens \ DOMAIN store' /\ \A b \in Browsers : cookie'[b] # visit[g].tok
  BY <1>1, <1>2 DEF KeptUnknown, IsFresh
<1>4. \A f \in Handlers : f # g => ~Carries(f, visit[g].tok)'
  <2> SUFFICES ASSUME NEW f \in Handlers, f # g, Carries(f, visit[g].tok)'
               PROVE  FALSE
    OBVIOUS
  <2>1. Carries(f, visit[g].tok)
    BY <1>1, <1>3 DEF CarryNoMore, Carries
  <2> QED
    BY <1>2, <2>1 DEF IsFresh
<1> QED
  BY <1>1, <1>3, <1>4 DEF IsFresh

(* The same where the store and the cookies are left alone. *)
LEMMA StillFreshUntouched ==
    ASSUME Fresh, CarryNoMore, SameKeepers, UNCHANGED <<store, cookie>>
    PROVE  Fresh'
<1>1. KeptUnknown
  BY DEF Fresh, IsFresh, KeptUnknown
<1> QED
  BY <1>1, StillFresh

LEMMA StillHeldOnce ==
    ASSUME HeldOnce, HoldNoMore
    PROVE  HeldOnce'
  BY DEF HeldOnce, HoldNoMore

-----------------------------------------------------------------------------
LEMMA SessionsStart ==
    ASSUME SessionsInit
    PROVE  SInv
<1>1. SessionsTypeOK
  BY DEF SessionsInit, SessionsTypeOK, Account
<1>2. DOMAIN store = {}
  BY DEF SessionsInit
<1>3. \A h \in Handlers : visit[h] = NoVisit
  BY DEF SessionsInit
<1>4. \A b \in Browsers : cookie[b] = NoToken
  BY DEF SessionsInit
<1>5. SessionStands /\ Fresh /\ Copied /\ Blank
  BY <1>2, <1>3 DEF SessionStands, Fresh, Copied, Blank, Open, NoVisit
<1>6. HeldOnce /\ LetIn
  BY <1>2, <1>3, <1>4, SessionsAssumption DEF HeldOnce, LetIn, Holds, Carries, InFlight, Open, NoVisit
<1> QED
  BY <1>1, <1>5, <1>6 DEF SInv

LEMMA ArriveKeeps ==
    ASSUME SInv, NEW h \in Handlers, NEW b \in Browsers,
           Arrive(h, b), UNCHANGED <<store, cookie, meant, granted>>
    PROVE  SInv'
<1> USE DEF SInv
<1> DEFINE v == [pc |-> "look", b |-> b, sent |-> cookie[b], set |-> NoToken,
                 tok |-> NoToken, user |-> Nobody, stale |-> FALSE]
<1>1. visit' = [visit EXCEPT ![h] = v]
  BY DEF Arrive
<1>2. visit \in [Handlers -> {NoVisit} \cup Visit] /\ cookie[b] \in Tokens \cup {NoToken}
  BY DEF SessionsTypeOK
<1>3. v \in Visit
  BY <1>2 DEF Visit, Account
<1>4. visit'[h] = v /\ \A g \in Handlers : g # h => visit'[g] = visit[g]
  BY <1>1, <1>2
<1>5. SessionsTypeOK'
  BY <1>1, <1>3 DEF SessionsTypeOK
<1>6. \A g \in Handlers, k \in Tokens : Carries(g, k)' => IF g = h THEN cookie[b] = k ELSE Carries(g, k)
  BY <1>4, SessionsAssumption DEF Carries, InFlight
<1>7. \A g \in Handlers : visit'[g].pc \in {"keep", "open"} => g # h /\ visit'[g] = visit[g]
  BY <1>4
<1>8. Fresh'
  <2> SUFFICES ASSUME NEW g \in Handlers, visit'[g].pc = "keep"
               PROVE  IsFresh(g, visit[g].tok)'
    BY DEF Fresh
  <2>1. g # h /\ visit'[g] = visit[g] /\ IsFresh(g, visit[g].tok)
    BY <1>7 DEF Fresh
  <2>2. \A f \in Handlers : f # g => ~Carries(f, visit[g].tok)'
    BY <1>4, <2>1, SessionsAssumption DEF IsFresh, Carries, InFlight
  <2> QED
    BY <2>1, <2>2 DEF IsFresh
<1>9. Copied' /\ SessionStands'
  BY <1>7 DEF Copied, Open, SessionStands
<1>10. HoldNoMore
  BY <1>4, <1>6 DEF HoldNoMore, Holds
<1>11. HeldOnce'
  BY <1>10, StillHeldOnce
<1>12. LetIn'
  BY <1>7, <1>10 DEF LetIn, HoldNoMore, Open, SessionsTypeOK
<1>13. Blank'
  BY <1>4 DEF Blank
<1> QED
  BY <1>5, <1>8, <1>9, <1>11, <1>12, <1>13

LEMMA LookupKeeps ==
    ASSUME SInv, NEW h \in Handlers, Lookup(h)
    PROVE  SInv'
<1> USE DEF SInv
<1> DEFINE k == visit[h].sent
<1>1. InFlight(h) /\ visit[h].pc = "look"
  BY PcInFlight DEF Lookup
<1>2. visit[h] \in Visit /\ k \in Tokens \cup {NoToken}
  BY <1>1, VisitFields
<1>3. UNCHANGED <<store, cookie, meant, granted>>
  BY DEF Lookup
<1>4. CASE Exists(k)
  <2>1. visit' = [visit EXCEPT ![h] = [@ EXCEPT !.pc = "open", !.tok = k, !.user = store[k]]]
    BY <1>4 DEF Lookup, CopyOf
  <2>2. k \in Tokens /\ store[k] \in Account
    BY <1>4 DEF Exists, SessionsTypeOK
  <2>3. /\ visit'[h] = [visit[h] EXCEPT !.pc = "open", !.tok = k, !.user = store[k]]
        /\ \A g \in Handlers : g # h => visit'[g] = visit[g]
    BY <2>1 DEF SessionsTypeOK
  <2>4. /\ visit'[h] \in Visit /\ visit'[h].pc = "open" /\ visit'[h].tok = k
        /\ visit'[h].user = store[k] /\ visit'[h].b = visit[h].b
        /\ visit'[h].sent = visit[h].sent /\ visit'[h].set = visit[h].set
    BY <1>2, <2>2, <2>3 DEF Visit
  <2>5. SessionsTypeOK'
    BY <1>3, <2>1, <2>3, <2>4 DEF SessionsTypeOK
  <2>6. \A g \in Handlers, t \in Tokens :
            Carries(g, t)' => Carries(g, t) /\ visit'[g].b = visit[g].b
    BY <1>1, <2>3, <2>4 DEF Carries, InFlight
  <2>7. HoldNoMore
    BY <1>3, <2>6 DEF HoldNoMore, Holds
  <2>8. Fresh'
    <3>1. CarryNoMore /\ SameKeepers
      BY <2>3, <2>4, <2>6 DEF CarryNoMore, SameKeepers
    <3> QED
      BY <1>3, <3>1, StillFreshUntouched
  <2>9. Copied' /\ SessionStands'
    BY <1>3, <1>4, <2>3, <2>4 DEF Copied, SessionStands, Open, Exists
  <2>10. Holds(visit[h].b, k)
    BY <1>1 DEF Holds, Carries
  <2>11. LetIn'
    BY <1>1, <1>2, <1>3, <1>4, <2>2, <2>3, <2>4, <2>7, <2>10, VisitFields
       DEF LetIn, HoldNoMore, Open, Exists, SessionsTypeOK
  <2>12. Blank'
    BY <2>3, <2>4 DEF Blank
  <2> QED
    BY <2>5, <2>7, <2>8, <2>9, <2>11, <2>12, StillHeldOnce
<1>5. CASE ~Exists(k)
  <2>1. visit' = [visit EXCEPT ![h] = [@ EXCEPT !.pc = "draw"]]
    BY <1>5 DEF Lookup
  <2>2. /\ visit'[h] = [visit[h] EXCEPT !.pc = "draw"]
        /\ \A g \in Handlers : g # h => visit'[g] = visit[g]
    BY <2>1 DEF SessionsTypeOK
  <2>3. /\ visit'[h] \in Visit /\ visit'[h].pc = "draw" /\ visit'[h].tok = visit[h].tok
        /\ visit'[h].b = visit[h].b
        /\ visit'[h].sent = visit[h].sent /\ visit'[h].set = visit[h].set
    BY <1>2, <2>2 DEF Visit
  <2>4. SessionsTypeOK'
    BY <1>3, <2>1, <2>3 DEF SessionsTypeOK
  <2>5. \A g \in Handlers, t \in Tokens :
            Carries(g, t)' => Carries(g, t) /\ visit'[g].b = visit[g].b
    BY <1>1, <2>2, <2>3 DEF Carries, InFlight
  <2>6. HoldNoMore
    BY <1>3, <2>5 DEF HoldNoMore, Holds
  <2>7. Fresh'
    <3>1. CarryNoMore /\ SameKeepers
      BY <2>2, <2>3, <2>5 DEF CarryNoMore, SameKeepers
    <3> QED
      BY <1>3, <3>1, StillFreshUntouched
  <2>8. Copied' /\ SessionStands'
    BY <1>3, <2>2, <2>3 DEF Copied, SessionStands, Open
  <2>9. LetIn'
    BY <1>3, <2>2, <2>3, <2>6 DEF LetIn, HoldNoMore, Open, SessionsTypeOK
  <2>10. Blank'
    BY <1>1, <1>2, <2>2 DEF Blank, Visit
  <2> QED
    BY <2>4, <2>6, <2>7, <2>8, <2>9, <2>10, StillHeldOnce
<1> QED
  BY <1>4, <1>5

(* A new token is that of no session and held by nobody. *)
LEMMA NewTokenKeeps ==
    ASSUME SInv, NEW h \in Handlers, NewToken(h)
    PROVE  SInv'
<1> USE DEF SInv
<1>1. InFlight(h) /\ visit[h].pc = "draw"
  BY PcInFlight DEF NewToken
<1>2. visit[h] \in Visit /\ visit[h].b \in Browsers
  BY <1>1, VisitFields
<1>3. UNCHANGED <<store, cookie, meant, granted>>
  BY DEF NewToken
<1>4. PICK k \in Tokens : /\ Unheld(k) /\ k \notin DOMAIN store
                          /\ visit' = [visit EXCEPT ![h] = [@ EXCEPT !.pc = "keep", !.tok = k]]
  BY DEF NewToken, Random, Retry, Exists
<1>5. /\ visit'[h] = [visit[h] EXCEPT !.pc = "keep", !.tok = k]
      /\ \A g \in Handlers : g # h => visit'[g] = visit[g]
  BY <1>4 DEF SessionsTypeOK
<1>6. /\ visit'[h] \in Visit /\ visit'[h].pc = "keep" /\ visit'[h].tok = k
      /\ visit'[h].b = visit[h].b
      /\ visit'[h].sent = visit[h].sent /\ visit'[h].set = visit[h].set
  BY <1>2, <1>5 DEF Visit
<1>7. SessionsTypeOK'
  BY <1>3, <1>4, <1>5, <1>6 DEF SessionsTypeOK
<1>8. \A b \in Browsers : ~Holds(b, k)
  BY <1>4 DEF Unheld, Holds, Carries
<1>9. \A g \in Handlers, t \in Tokens :
          Carries(g, t)' => visit'[g].b = visit[g].b /\ (Carries(g, t) \/ (g = h /\ t = k))
  BY <1>1, <1>5, <1>6 DEF Carries, InFlight
<1>10. \A b \in Browsers, t \in Tokens : Holds(b, t)' => Holds(b, t) \/ (t = k /\ b = visit[h].b)
  <2> SUFFICES ASSUME NEW b \in Browsers, NEW t \in Tokens, Holds(b, t)'
               PROVE  Holds(b, t) \/ (t = k /\ b = visit[h].b)
    OBVIOUS
  <2>1. CASE cookie'[b] = t
    BY <1>3, <2>1 DEF Holds
  <2>2. CASE \E g \in Handlers : visit'[g].b = b /\ Carries(g, t)'
    BY <1>9, <2>2 DEF Holds
  <2> QED
    BY <2>1, <2>2 DEF Holds
<1>11. HeldOnce'
  BY <1>8, <1>10 DEF HeldOnce
<1>12. \A g \in Handlers : g # h => ~Carries(g, k)
  BY <1>4 DEF Unheld, Carries
<1>13. Fresh'
  <2> SUFFICES ASSUME NEW g \in Handlers, visit'[g].pc = "keep"
               PROVE  IsFresh(g, visit[g].tok)'
    BY DEF Fresh
  <2>1. CASE g = h
    <3>1. k \in Tokens \ DOMAIN store' /\ \A b \in Browsers : cookie'[b] # k
      BY <1>3, <1>4 DEF Unheld
    <3>2. \A f \in Handlers : f # h => ~Carries(f, visit[h].tok)'
      BY <1>5, <1>6, <1>12 DEF Carries, InFlight
    <3> QED
      BY <1>6, <2>1, <3>1, <3>2 DEF IsFresh
  <2>2. CASE g # h
    <3>1. visit[g].pc = "keep" /\ visit'[g].tok = visit[g].tok
      BY <1>5, <2>2
    <3>2. IsFresh(g, visit[g].tok) /\ Carries(g, visit[g].tok)
      BY <3>1, PcInFlight DEF Carries, Fresh
    <3>3. visit[g].tok # k
      BY <1>12, <2>2, <3>2
    <3>4. \A f \in Handlers : f # g => ~Carries(f, visit[g].tok)'
      <4> SUFFICES ASSUME NEW f \in Handlers, f # g, Carries(f, visit[g].tok)'
                   PROVE  Carries(f, visit[g].tok)
        BY <3>2 DEF IsFresh
      <4>1. CASE f = h
        BY <1>1, <1>6, <3>1, <3>3, <4>1 DEF Carries
      <4>2. CASE f # h
        BY <1>5, <3>1, <4>2 DEF Carries, InFlight
      <4> QED
        BY <4>1, <4>2
    <3> QED
      BY <1>3, <3>1, <3>2, <3>4 DEF IsFresh
  <2> QED
    BY <2>1, <2>2
<1>14. Copied' /\ SessionStands'
  BY <1>3, <1>5, <1>6 DEF Copied, SessionStands, Open
<1>15. LetIn'
  BY <1>3, <1>4, <1>5, <1>6, <1>10 DEF LetIn, Open, SessionsTypeOK
<1>16. Blank'
  BY <1>1, <1>2, <1>5 DEF Blank, Visit
<1> QED
  BY <1>7, <1>11, <1>13, <1>14, <1>15, <1>16

LEMMA StoreNewKeeps ==
    ASSUME SInv, NEW h \in Handlers, StoreNew(h)
    PROVE  SInv'
<1> USE DEF SInv
<1> DEFINE k == visit[h].tok
<1>1. InFlight(h) /\ visit[h].pc = "keep"
  BY PcInFlight DEF StoreNew
<1>2. visit[h] \in Visit /\ visit[h].b \in Browsers
  BY <1>1, VisitFields
<1>3. k \in Tokens /\ k \notin DOMAIN store /\ \A g \in Handlers : g # h => ~Carries(g, k)
  BY <1>1 DEF Fresh, IsFresh
<1>4. /\ store' = Put(k, Nobody) /\ UNCHANGED <<cookie, granted>>
      /\ meant' = [meant EXCEPT ![k] = Nobody]
      /\ visit' = [visit EXCEPT ![h] = [@ EXCEPT !.pc = "open", !.set = k]]
  BY DEF StoreNew
<1>5. /\ DOMAIN store' = DOMAIN store \cup {k} /\ store'[k] = Nobody
      /\ \A t \in DOMAIN store : t # k => store'[t] = store[t]
      /\ DOMAIN store' \subseteq Tokens /\ store' \in [DOMAIN store' -> Account]
  BY <1>3, <1>4, PutFacts DEF Account
<1>6. /\ visit'[h] = [visit[h] EXCEPT !.pc = "open", !.set = k]
      /\ \A g \in Handlers : g # h => visit'[g] = visit[g]
  BY <1>4 DEF SessionsTypeOK
<1>7. /\ visit'[h] \in Visit /\ visit'[h].pc = "open" /\ visit'[h].tok = k /\ visit'[h].set = k
      /\ visit'[h].b = visit[h].b /\ visit'[h].user = Nobody
      /\ visit'[h].sent = visit[h].sent /\ visit'[h].stale = visit[h].stale
  BY <1>1, <1>2, <1>3, <1>6 DEF Visit, Blank
<1>8. /\ meant'[k] = Nobody /\ meant' \in [Tokens -> Account \cup {Spoilt}]
      /\ \A t \in Tokens : t # k => meant'[t] = meant[t]
  BY <1>3, <1>4 DEF SessionsTypeOK, Account
<1>9. SessionsTypeOK'
  BY <1>4, <1>5, <1>6, <1>7, <1>8 DEF SessionsTypeOK
<1>10. \A g \in Handlers, t \in Tokens :
          Carries(g, t)' => Carries(g, t) /\ visit'[g].b = visit[g].b
  BY <1>1, <1>6, <1>7 DEF Carries, InFlight
<1>11. HoldNoMore
  BY <1>4, <1>10 DEF HoldNoMore, Holds
<1>12. Fresh'
  <2>1. CarryNoMore /\ SameKeepers
    BY <1>6, <1>7, <1>10 DEF CarryNoMore, SameKeepers
  <2>2. KeptUnknown
    <3> SUFFICES ASSUME NEW g \in Handlers, visit[g].pc = "keep", visit'[g].pc = "keep"
                 PROVE  visit[g].tok \notin DOMAIN store' /\ \A b \in Browsers : cookie'[b] # visit[g].tok
      BY DEF KeptUnknown
    <3>1. g # h /\ Carries(g, visit[g].tok) /\ IsFresh(g, visit[g].tok)
      BY <1>7, PcInFlight DEF Carries, Fresh
    <3>2. visit[g].tok # k
      BY <1>3, <3>1
    <3> QED
      BY <1>4, <1>5, <3>1, <3>2 DEF IsFresh
  <2> QED
    BY <2>1, <2>2, StillFresh
<1>13. Copied'
  <2> SUFFICES ASSUME NEW g \in Handlers, visit'[g].pc = "open"
               PROVE  /\ visit'[g].tok \in DOMAIN store'
                      /\ visit'[g].stale \/ meant'[visit'[g].tok] \in {visit'[g].user, Spoilt}
    BY DEF Copied, Open
  <2>1. CASE g = h
    BY <1>5, <1>7, <1>8, <2>1
  <2>2. CASE g # h
    <3>1. visit'[g] = visit[g] /\ Open(g)
      BY <1>6, <2>2 DEF Open
    <3>2. Carries(g, visit[g].tok)
      BY <3>1, PcInFlight DEF Carries, Open
    <3>3. visit[g].tok # k
      BY <1>3, <2>2, <3>2
    <3> QED
      BY <1>5, <1>8, <3>1, <3>3 DEF Copied, SessionsTypeOK
  <2> QED
    BY <2>1, <2>2
<1>14. SessionStands'
  BY <1>5, <1>8 DEF SessionStands, SessionsTypeOK
<1>15. LetIn'
  BY <1>3, <1>4, <1>5, <1>6, <1>7, <1>11 DEF LetIn, HoldNoMore, Open, SessionsTypeOK
<1>16. Blank'
  BY <1>6, <1>7 DEF Blank
<1> QED
  BY <1>9, <1>11, <1>12, <1>13, <1>14, <1>15, <1>16, StillHeldOnce

-----------------------------------------------------------------------------
(* The steps of an open visit.  Its end hands a browser no token but one   *)
(* that the visit held for it.                                             *)
OthersSame(h) ==
    \A g \in Handlers : g # h =>
        /\ visit'[g].pc = visit[g].pc
        /\ InFlight(g)' => /\ InFlight(g)
                           /\ visit'[g].b = visit[g].b /\ visit'[g].sent = visit[g].sent
                           /\ visit'[g].set = visit[g].set /\ visit'[g].tok = visit[g].tok

LEMMA EndKeeps ==
    ASSUME SInv, NEW h \in Handlers, Open(h), Answer(h), visit'[h] = NoVisit, OthersSame(h),
           DOMAIN store' = DOMAIN store
    PROVE  /\ cookie' \in [Browsers -> Tokens \cup {NoToken}]
           /\ HoldNoMore /\ HeldOnce' /\ Fresh'
<1> USE DEF SInv
<1>1. InFlight(h) /\ visit[h].pc = "open"
  BY PcInFlight DEF Open
<1>2. visit[h].b \in Browsers /\ visit[h].set \in Tokens \cup {NoToken}
  BY <1>1, VisitFields
<1>3. /\ cookie' \in [Browsers -> Tokens \cup {NoToken}]
      /\ \A b \in Browsers : cookie'[b] = cookie[b]
                              \/ (b = visit[h].b /\ cookie'[b] = visit[h].set /\ visit[h].set # NoToken)
  BY <1>2 DEF Answer, SessionsTypeOK
<1>4. \A g \in Handlers : InFlight(g)' => g # h
  BY DEF InFlight
<1>5. \A g \in Handlers, t \in Tokens : Carries(g, t)' => Carries(g, t) /\ visit'[g].b = visit[g].b
  BY <1>4 DEF Carries, OthersSame
<1>6. Carries(h, visit[h].set)
  BY <1>1 DEF Carries
<1>7. HoldNoMore
  <2> SUFFICES ASSUME NEW b \in Browsers, NEW t \in Tokens, Holds(b, t)'
               PROVE  Holds(b, t)
    BY DEF HoldNoMore
  <2>1. CASE cookie'[b] = t
    BY <1>3, <1>6, <2>1 DEF Holds
  <2>2. CASE \E g \in Handlers : visit'[g].b = b /\ Carries(g, t)'
    BY <1>5, <2>2 DEF Holds
  <2> QED
    BY <2>1, <2>2 DEF Holds
<1>8. Fresh'
  <2>1. \A g \in Handlers : visit'[g].pc = "keep" => g # h /\ InFlight(g)'
    BY DEF InFlight, NoVisit
  <2>2. CarryNoMore /\ SameKeepers
    BY <1>5, <2>1 DEF CarryNoMore, SameKeepers, OthersSame
  <2>3. KeptUnknown
    <3> SUFFICES ASSUME NEW g \in Handlers, visit[g].pc = "keep"
                 PROVE  visit[g].tok \notin DOMAIN store' /\ \A b \in Browsers : cookie'[b] # visit[g].tok
      BY DEF KeptUnknown
    <3>1. g # h /\ IsFresh(g, visit[g].tok)
      BY <1>1 DEF Fresh
    <3>2. visit[g].tok # visit[h].set
      BY <1>6, <3>1 DEF IsFresh
    <3> QED
      BY <1>3, <3>1, <3>2 DEF IsFresh
  <2> QED
    BY <2>2, <2>3, StillFresh
<1> QED
  BY <1>3, <1>7, <1>8, StillHeldOnce

LEMMA LeaveKeeps ==
    ASSUME SInv, NEW h \in Handlers, Open(h), Leave(h)
    PROVE  SInv'
<1> USE DEF SInv
<1>1. UNCHANGED <<store, meant, granted>> /\ Answer(h) /\ visit' = [visit EXCEPT ![h] = NoVisit]
  BY DEF Leave
<1>2. visit'[h] = NoVisit /\ \A g \in Handlers : g # h => visit'[g] = visit[g]
  BY <1>1 DEF SessionsTypeOK
<1>3. OthersSame(h)
  BY <1>2 DEF OthersSame, InFlight
<1>4. cookie' \in [Browsers -> Tokens \cup {NoToken}] /\ HoldNoMore /\ HeldOnce' /\ Fresh'
  BY <1>1, <1>2, <1>3, EndKeeps
<1>5. SessionsTypeOK'
  BY <1>1, <1>4 DEF SessionsTypeOK
<1>6. \A g \in Handlers : visit'[g].pc # "none" => g # h /\ visit'[g] = visit[g]
  BY <1>2 DEF NoVisit
<1>7. Copied' /\ SessionStands' /\ Blank'
  BY <1>1, <1>6 DEF Copied, SessionStands, Blank, Open
<1>8. LetIn'
  BY <1>1, <1>4, <1>6 DEF LetIn, HoldNoMore, Open, SessionsTypeOK
<1> QED
  BY <1>4, <1>5, <1>7, <1>8

(* Writing a copy back: what it overwrites is its own browser's, and it    *)
(* undoes a change only if it is stale.                                    *)
LEMMA WriteBackKeeps ==
    ASSUME SInv, NEW h \in Handlers, Open(h), WriteBack(h), UNCHANGED granted, HoldNoMore,
           \A g \in Handlers : visit'[g].pc = "open" => visit'[g] = visit[g]
    PROVE  /\ DOMAIN store' = DOMAIN store /\ store' \in [DOMAIN store' -> Account]
           /\ meant' \in [Tokens -> Account \cup {Spoilt}]
           /\ SessionStands' /\ Copied' /\ LetIn'
<1> USE DEF SInv
<1> DEFINE k == visit[h].tok
<1>1. InFlight(h) /\ visit[h].pc = "open"
  BY PcInFlight DEF Open
<1>2. visit[h].b \in Browsers /\ visit[h].user \in Account /\ visit[h].stale \in BOOLEAN
  BY <1>1, VisitFields
<1>3. k \in DOMAIN store /\ k \in Tokens /\ (visit[h].stale \/ meant[k] \in {visit[h].user, Spoilt})
  BY DEF Copied, SessionsTypeOK
<1>4. /\ DOMAIN store' = DOMAIN store /\ store'[k] = visit[h].user
      /\ \A t \in DOMAIN store : t # k => store'[t] = store[t]
      /\ store' \in [DOMAIN store' -> Account]
  BY <1>2, <1>3, PutFacts DEF WriteBack
<1>5. meant' = [meant EXCEPT ![k] = IF visit[h].stale /\ visit[h].user # meant[k]
                                    THEN Spoilt ELSE meant[k]]
  BY DEF WriteBack
<1>6. /\ meant' \in [Tokens -> Account \cup {Spoilt}]
      /\ meant'[k] \in {visit[h].user, Spoilt} /\ meant'[k] \in {meant[k], Spoilt}
      /\ \A t \in Tokens : t # k => meant'[t] = meant[t]
  BY <1>2, <1>3, <1>5 DEF SessionsTypeOK
<1>7. SessionStands'
  <2> SUFFICES ASSUME NEW t \in DOMAIN store
               PROVE  meant'[t] \in {store'[t], Spoilt}
    BY <1>4 DEF SessionStands
  <2>1. CASE t = k
    BY <1>4, <1>6, <2>1
  <2>2. CASE t # k
    BY <1>4, <1>6, <2>2 DEF SessionStands, SessionsTypeOK
  <2> QED
    BY <2>1, <2>2
<1>8. Copied'
  <2> SUFFICES ASSUME NEW g \in Handlers, visit'[g].pc = "open"
               PROVE  /\ visit'[g].tok \in DOMAIN store'
                      /\ visit'[g].stale \/ meant'[visit'[g].tok] \in {visit'[g].user, Spoilt}
    BY DEF Copied, Open
  <2>1. visit'[g] = visit[g] /\ visit[g].tok \in DOMAIN store /\ visit[g].tok \in Tokens
    BY DEF Copied, Open, SessionsTypeOK
  <2>2. visit[g].stale \/ meant[visit[g].tok] \in {visit[g].user, Spoilt}
    BY <2>1 DEF Copied, Open
  <2>3. meant'[visit[g].tok] \in {meant[visit[g].tok], Spoilt}
    BY <1>6, <2>1
  <2> QED
    BY <1>4, <2>1, <2>2, <2>3
<1>9. LetIn'
  <2>1. \A b \in Browsers : Holds(b, k) => b = visit[h].b
    <3>1. Holds(visit[h].b, k)
      BY <1>1 DEF Holds, Carries
    <3> QED
      BY <1>2, <1>3, <3>1 DEF HeldOnce
  <2>2. visit[h].user \in granted[visit[h].b] \cup {Nobody}
    BY DEF LetIn
  <2>3. ASSUME NEW t \in DOMAIN store, NEW b \in Browsers, Holds(b, t)'
        PROVE  store'[t] \in granted[b] \cup {Nobody}
    <3>1. t \in Tokens /\ Holds(b, t)
      BY <2>3 DEF HoldNoMore, SessionsTypeOK
    <3>2. CASE t = k
      BY <1>4, <2>1, <2>2, <3>1, <3>2
    <3>3. CASE t # k
      BY <1>4, <3>1, <3>3 DEF LetIn
    <3> QED
      BY <3>2, <3>3
  <2>4. \A g \in Handlers : Open(g)' => visit'[g].user \in granted[visit'[g].b] \cup {Nobody}
    BY DEF LetIn, Open
  <2> QED
    BY <1>4, <2>3, <2>4 DEF LetIn
<1> QED
  BY <1>4, <1>6, <1>7, <1>8, <1>9

LEMMA UpdateKeeps ==
    ASSUME SInv, NEW h \in Handlers, Open(h), Update(h)
    PROVE  SInv'
<1> USE DEF SInv
<1>1. WriteBack(h) /\ Answer(h) /\ UNCHANGED granted /\ visit' = [visit EXCEPT ![h] = NoVisit]
  BY DEF Update
<1>2. visit'[h] = NoVisit /\ \A g \in Handlers : g # h => visit'[g] = visit[g]
  BY <1>1 DEF SessionsTypeOK
<1>3. \A g \in Handlers : visit'[g].pc # "none" => g # h /\ visit'[g] = visit[g]
  BY <1>2 DEF NoVisit
<1>4. OthersSame(h)
  BY <1>2 DEF OthersSame, InFlight
<1>5. DOMAIN store' = DOMAIN store
  <2>1. visit[h].tok \in DOMAIN store /\ visit[h].tok \in Tokens /\ visit[h].user \in Account
    BY VisitFields, PcInFlight DEF Copied, Open, SessionsTypeOK
  <2> QED
    BY <1>1, <2>1, PutFacts DEF WriteBack
<1>6. cookie' \in [Browsers -> Tokens \cup {NoToken}] /\ HoldNoMore /\ HeldOnce' /\ Fresh'
  BY <1>1, <1>2, <1>4, <1>5, EndKeeps
<1>7. /\ store' \in [DOMAIN store' -> Account] /\ meant' \in [Tokens -> Account \cup {Spoilt}]
      /\ SessionStands' /\ Copied' /\ LetIn'
  BY <1>1, <1>3, <1>6, WriteBackKeeps
<1>8. SessionsTypeOK'
  BY <1>1, <1>5, <1>6, <1>7 DEF SessionsTypeOK
<1>9. Blank'
  BY <1>3 DEF Blank
<1> QED
  BY <1>6, <1>7, <1>8, <1>9

LEMMA UpdateAndStartKeeps ==
    ASSUME SInv, NEW h \in Handlers, Open(h), UpdateAndStart(h)
    PROVE  SInv'
<1> USE DEF SInv
<1> DEFINE v == [visit[h] EXCEPT !.pc = "look", !.tok = NoToken, !.user = Nobody, !.stale = FALSE]
<1>1. /\ WriteBack(h) /\ UNCHANGED <<cookie, granted>>
      /\ visit' = [visit EXCEPT ![h] = v]
  BY DEF UpdateAndStart
<1>2. InFlight(h) /\ visit[h].pc = "open"
  BY PcInFlight DEF Open
<1>3. visit[h] \in Visit
  BY <1>2, VisitFields
<1>4. v \in Visit /\ v.pc = "look" /\ v.tok = NoToken /\ v.user = Nobody
      /\ v.b = visit[h].b /\ v.sent = visit[h].sent /\ v.set = visit[h].set
  BY <1>3 DEF Visit, Account
<1>5. visit'[h] = v /\ \A g \in Handlers : g # h => visit'[g] = visit[g]
  BY <1>1 DEF SessionsTypeOK
<1>6. \A g \in Handlers, t \in Tokens : Carries(g, t)' => Carries(g, t) /\ visit'[g].b = visit[g].b
  <2> SUFFICES ASSUME NEW g \in Handlers, NEW t \in Tokens, Carries(g, t)'
               PROVE  Carries(g, t) /\ visit'[g].b = visit[g].b
    OBVIOUS
  <2>1. CASE g = h
    <3>1. /\ visit'[g].b = visit[g].b /\ visit'[g].sent = visit[g].sent
          /\ visit'[g].set = visit[g].set /\ visit'[g].tok = NoToken
      BY <1>4, <1>5, <2>1
    <3> HIDE DEF v
    <3> QED
      BY <1>2, <2>1, <3>1, SessionsAssumption DEF Carries
  <2>2. CASE g # h
    BY <1>5, <2>2 DEF Carries, InFlight
  <2> QED
    BY <2>1, <2>2
<1>7. HoldNoMore
  BY <1>1, <1>6 DEF HoldNoMore, Holds
<1>8. \A g \in Handlers : visit'[g].pc \in {"open", "keep", "draw"} => visit'[g] = visit[g]
  BY <1>4, <1>5
<1>9. /\ DOMAIN store' = DOMAIN store /\ store' \in [DOMAIN store' -> Account]
      /\ meant' \in [Tokens -> Account \cup {Spoilt}]
      /\ SessionStands' /\ Copied' /\ LetIn'
  BY <1>1, <1>7, <1>8, WriteBackKeeps
<1>10. SessionsTypeOK'
  BY <1>1, <1>4, <1>5, <1>9 DEF SessionsTypeOK
<1>11. Fresh'
  <2>1. CarryNoMore /\ SameKeepers
    BY <1>6, <1>8 DEF CarryNoMore, SameKeepers
  <2>2. KeptUnknown
    BY <1>1, <1>9 DEF KeptUnknown, Fresh, IsFresh
  <2> QED
    BY <2>1, <2>2, StillFresh
<1>12. Blank'
  BY <1>4, <1>5 DEF Blank
<1> QED
  BY <1>7, <1>9, <1>10, <1>11, <1>12, StillHeldOnce

LEMMA ChangeKeeps ==
    ASSUME SInv, NEW h \in Handlers, Open(h), NEW u \in Account, Change(h, u)
    PROVE  SInv'
<1> USE DEF SInv
<1> DEFINE k == visit[h].tok
<1>1. /\ Answer(h) /\ store' = Put(k, u) /\ meant' = [meant EXCEPT ![k] = u]
      /\ visit' = [g \in Handlers |->
                      IF g = h THEN NoVisit
                      ELSE IF visit[g].pc = "open" /\ visit[g].tok = k
                      THEN [visit[g] EXCEPT !.stale = TRUE] ELSE visit[g]]
      /\ granted' = IF u = Nobody THEN granted
                    ELSE [granted EXCEPT ![visit[h].b] = granted[visit[h].b] \cup {u}]
  BY DEF Change
<1>2. InFlight(h) /\ visit[h].b \in Browsers
  BY PcInFlight, VisitFields DEF Open
<1>3. k \in DOMAIN store /\ k \in Tokens
  BY DEF Copied, SessionsTypeOK
<1>4. /\ DOMAIN store' = DOMAIN store /\ store'[k] = u
      /\ \A t \in DOMAIN store : t # k => store'[t] = store[t]
      /\ store' \in [DOMAIN store' -> Account]
  BY <1>1, <1>3, PutFacts
<1>5. /\ meant' \in [Tokens -> Account \cup {Spoilt}] /\ meant'[k] = u
      /\ \A t \in Tokens : t # k => meant'[t] = meant[t]
  BY <1>1, <1>3 DEF SessionsTypeOK
<1>6. visit'[h] = NoVisit
  BY <1>1
<1>7. ASSUME NEW g \in Handlers, g # h
      PROVE  \/ visit'[g] = visit[g] /\ ~(visit[g].pc = "open" /\ visit[g].tok = k)
             \/ /\ visit[g].pc = "open" /\ visit[g].tok = k /\ InFlight(g)
                /\ visit'[g] \in Visit /\ visit'[g].stale
                /\ visit'[g].pc = visit[g].pc /\ visit'[g].b = visit[g].b
                /\ visit'[g].sent = visit[g].sent /\ visit'[g].set = visit[g].set
                /\ visit'[g].tok = visit[g].tok /\ visit'[g].user = visit[g].user
  <2>1. CASE visit[g].pc = "open" /\ visit[g].tok = k
    <3>1. visit[g] \in Visit /\ InFlight(g)
      BY <2>1, PcInFlight, VisitFields
    <3>2. visit'[g] = [visit[g] EXCEPT !.stale = TRUE]
      BY <1>1, <1>7, <2>1
    <3> QED
      BY <2>1, <3>1, <3>2 DEF Visit
  <2>2. CASE ~(visit[g].pc = "open" /\ visit[g].tok = k)
    BY <1>1, <1>7, <2>2
  <2> QED
    BY <2>1, <2>2
<1>8. visit' \in [Handlers -> {NoVisit} \cup Visit]
  BY <1>1, <1>6, <1>7 DEF SessionsTypeOK
<1>9. OthersSame(h)
  BY <1>7 DEF OthersSame, InFlight
<1>10. cookie' \in [Browsers -> Tokens \cup {NoToken}] /\ HoldNoMore /\ HeldOnce' /\ Fresh'
  BY <1>1, <1>4, <1>6, <1>9, EndKeeps
<1>11. /\ granted' \in [Browsers -> SUBSET Users]
       /\ \A b \in Browsers : granted[b] \subseteq granted'[b]
       /\ u \in granted'[visit[h].b] \cup {Nobody}
  BY <1>1, <1>2 DEF SessionsTypeOK, Account
<1>12. SessionsTypeOK'
  BY <1>4, <1>5, <1>8, <1>10, <1>11 DEF SessionsTypeOK
<1>13. SessionStands'
  <2> SUFFICES ASSUME NEW t \in DOMAIN store
               PROVE  meant'[t] \in {store'[t], Spoilt}
    BY <1>4 DEF SessionStands
  <2>1. CASE t = k
    BY <1>4, <1>5, <2>1
  <2>2. CASE t # k
    BY <1>4, <1>5, <2>2 DEF SessionStands, SessionsTypeOK
  <2> QED
    BY <2>1, <2>2
<1>14. \A g \in Handlers : visit'[g].pc # "none" => g # h
  BY <1>6 DEF NoVisit
<1>15. Copied'
  <2> SUFFICES ASSUME NEW g \in Handlers, visit'[g].pc = "open"
               PROVE  /\ visit'[g].tok \in DOMAIN store'
                      /\ visit'[g].stale \/ meant'[visit'[g].tok] \in {visit'[g].user, Spoilt}
    BY DEF Copied, Open
  <2>1. g # h /\ visit[g].pc = "open" /\ visit'[g].tok = visit[g].tok
    BY <1>7, <1>14
  <2>2. visit[g].tok \in DOMAIN store /\ visit[g].tok \in Tokens
        /\ (visit[g].stale \/ meant[visit[g].tok] \in {visit[g].user, Spoilt})
    BY <2>1 DEF Copied, Open, SessionsTypeOK
  <2>3. CASE visit[g].tok = k
    BY <1>4, <1>7, <2>1, <2>2, <2>3
  <2>4. CASE visit[g].tok # k
    BY <1>4, <1>5, <1>7, <2>1, <2>2, <2>4
  <2> QED
    BY <2>3, <2>4
<1>16. LetIn'
  <2>1. \A b \in Browsers : Holds(b, k) => b = visit[h].b
    <3>1. Holds(visit[h].b, k)
      BY <1>2 DEF Holds, Carries
    <3> QED
      BY <1>2, <1>3, <3>1 DEF HeldOnce
  <2>2. ASSUME NEW t \in DOMAIN store, NEW b \in Browsers, Holds(b, t)'
        PROVE  store'[t] \in granted'[b] \cup {Nobody}
    <3>1. t \in Tokens /\ Holds(b, t)
      BY <1>10, <2>2 DEF HoldNoMore, SessionsTypeOK
    <3>2. CASE t = k
      BY <1>4, <1>11, <2>1, <3>1, <3>2
    <3>3. CASE t # k
      BY <1>4, <1>11, <3>1, <3>3 DEF LetIn
    <3> QED
      BY <3>2, <3>3
  <2>3. ASSUME NEW g \in Handlers, Open(g)'
        PROVE  visit'[g].user \in granted'[visit'[g].b] \cup {Nobody}
    <3>1. g # h /\ visit[g].pc = "open" /\ visit'[g].user = visit[g].user /\ visit'[g].b = visit[g].b
      BY <1>7, <1>14, <2>3 DEF Open
    <3>2. visit[g].b \in Browsers /\ visit[g].user \in granted[visit[g].b] \cup {Nobody}
      BY <3>1, VisitFields, PcInFlight DEF LetIn, Open
    <3> QED
      BY <1>11, <3>1, <3>2
  <2> QED
    BY <1>4, <2>2, <2>3 DEF LetIn
<1>17. Blank'
  BY <1>7, <1>14 DEF Blank
<1> QED
  BY <1>10, <1>12, <1>13, <1>15, <1>16, <1>17

LEMMA ExpireKeeps ==
    ASSUME SInv, NEW b \in Browsers, Expire(b)
    PROVE  SInv'
<1> USE DEF SInv
<1>1. cookie' = [cookie EXCEPT ![b] = NoToken] /\ UNCHANGED <<store, visit, meant, granted>>
  BY DEF Expire
<1>2. \A c \in Browsers : cookie'[c] \in {cookie[c], NoToken}
  BY <1>1 DEF SessionsTypeOK
<1>3. SessionsTypeOK'
  BY <1>1 DEF SessionsTypeOK
<1>4. \A g \in Handlers, t \in Tokens : Carries(g, t)' => Carries(g, t)
  BY <1>1 DEF Carries, InFlight
<1>5. HoldNoMore
  BY <1>1, <1>2, <1>4, SessionsAssumption DEF HoldNoMore, Holds
<1>6. Fresh'
  <2>1. CarryNoMore /\ SameKeepers
    BY <1>1, <1>4 DEF CarryNoMore, SameKeepers
  <2>2. KeptUnknown
    BY <1>1, <1>2, SessionsAssumption DEF KeptUnknown, Fresh, IsFresh
  <2> QED
    BY <2>1, <2>2, StillFresh
<1>7. SessionStands' /\ Copied' /\ Blank'
  BY <1>1 DEF SessionStands, Copied, Blank, Open
<1>8. LetIn'
  BY <1>1, <1>5 DEF LetIn, HoldNoMore, Open, SessionsTypeOK
<1> QED
  BY <1>3, <1>5, <1>6, <1>7, <1>8, StillHeldOnce

LEMMA RestartKeeps ==
    ASSUME SInv, SessionsRestart
    PROVE  SInv'
<1> USE DEF SInv
<1>1. DOMAIN store' = {} /\ cookie' = cookie
  BY DEF SessionsRestart
<1>2. \A h \in Handlers : visit'[h] = NoVisit
  BY DEF SessionsRestart
<1>3. SessionsTypeOK'
  BY DEF SessionsRestart, SessionsTypeOK, Account
<1>4. HoldNoMore
  BY <1>1, <1>2 DEF HoldNoMore, Holds, Carries, InFlight
<1>5. SessionStands' /\ Fresh' /\ Copied' /\ Blank' /\ LetIn'
  BY <1>1, <1>2 DEF SessionStands, Fresh, Copied, Blank, LetIn, Open, NoVisit
<1> QED
  BY <1>3, <1>4, <1>5, StillHeldOnce

-----------------------------------------------------------------------------
LEMMA SessionsKept ==
    ASSUME SInv, SessionsNext \/ UNCHANGED sessionVars
    PROVE  SInv'
<1>1. ASSUME NEW h \in Handlers, Visits(h)
      PROVE  SInv'
  BY <1>1, ArriveKeeps, LookupKeeps, NewTokenKeeps, StoreNewKeeps, LeaveKeeps, UpdateKeeps,
     UpdateAndStartKeeps, ChangeKeeps DEF Visits
<1>2. CASE UNCHANGED sessionVars
  BY <1>2 DEF sessionVars, SInv, SessionsTypeOK, SessionStands, Fresh, IsFresh, Copied, HeldOnce,
     LetIn, Blank, Holds, Carries, InFlight, Open
<1> QED
  BY <1>1, <1>2, ExpireKeeps, RestartKeeps DEF SessionsNext

(* A browser's cookie is one it holds: LetIn is the stronger statement. *)
LEMMA LetInActs ==
    ASSUME SInv
    PROVE  ActsForGranted
  BY DEF SInv, LetIn, ActsForGranted, Exists, Holds
=============================================================================
