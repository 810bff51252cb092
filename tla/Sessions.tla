------------------------------ MODULE Sessions ------------------------------
(***************************************************************************)
(* The session store and what a request does to it.  A session is found by *)
(* the token in the browser's cookie; Store.Start gives the request a COPY *)
(* of it and Update puts the copy back, whole, at the end of the request.  *)
(* Every handler ends with an Update, even one that changed nothing.       *)
(*                                                                         *)
(* A session is reduced to the account it is signed in to: SignIn and      *)
(* Logout set UserID and SignedIn together.  A visit is the copy a request *)
(* works on, with the cookie it came with and the one its answer will set. *)
(*                                                                         *)
(* meant and granted are history: what the last deliberate change made of  *)
(* a session, and the accounts a browser was let into.                     *)
(***************************************************************************)
EXTENDS Naturals

CONSTANTS
    Users,     \* user accounts (their IDs)
    Browsers,  \* cookie jars
    Tokens,    \* session tokens
    Handlers,  \* requests the server works on at once
    Nobody,    \* UserID 0 of a session that is not signed in
    NoToken,   \* no cookie
    Spoilt     \* in meant: an older request has overwritten the change

ASSUME SessionsAssumption ==
    Nobody \notin Users /\ NoToken \notin Tokens /\ Spoilt \notin Users \cup {Nobody}

VARIABLES
    store,    \* Store.s: the tokens that have a session, each with its account
    cookie,   \* the SESSID cookie of a browser
    visit,    \* of a request in flight: its copy of the session
    meant,    \* history: the account the last sign-in or logout left, by token
    granted   \* history: the accounts signed in to from a browser

sessionVars == <<store, cookie, visit, meant, granted>>

Account == Users \cup {Nobody}
NoVisit == [pc |-> "none"]
Visit == [pc: {"look", "draw", "keep", "open"}, b: Browsers,
          sent: Tokens \cup {NoToken}, set: Tokens \cup {NoToken},
          tok: Tokens \cup {NoToken}, user: Account, stale: BOOLEAN]

SessionsTypeOK ==
    /\ DOMAIN store \subseteq Tokens /\ store \in [DOMAIN store -> Account]
    /\ cookie \in [Browsers -> Tokens \cup {NoToken}]
    /\ visit \in [Handlers -> {NoVisit} \cup Visit]
    /\ meant \in [Tokens -> Account \cup {Spoilt}]
    /\ granted \in [Browsers -> SUBSET Users]

(* Cookies of an earlier run are those that Restart leaves. *)
SessionsInit ==
    /\ store = << >>
    /\ cookie = [b \in Browsers |-> NoToken]
    /\ visit = [h \in Handlers |-> NoVisit]
    /\ meant = [k \in Tokens |-> Nobody]
    /\ granted = [b \in Browsers |-> {}]

Exists(k) == k \in DOMAIN store

InFlight(h) == visit[h] # NoVisit
Open(h) == visit[h].pc = "open"
SignedIn(h) == Open(h) /\ visit[h].user # Nobody

Put(k, u) == [t \in DOMAIN store \cup {k} |-> IF t = k THEN u ELSE store[t]]

-----------------------------------------------------------------------------
(* Store.Start *)

Arrive(h, b) ==
    visit' = [visit EXCEPT ![h] =
        [pc |-> "look", b |-> b, sent |-> cookie[b], set |-> NoToken,
         tok |-> NoToken, user |-> Nobody, stale |-> FALSE]]

(* A mutant: a session that is blank again. *)
CopyBlank(k) == Nobody

CopyOf(k) == store[k]

Lookup(h) ==
    /\ visit[h].pc = "look"
    /\ LET k == visit[h].sent IN
        visit' = IF Exists(k)
            THEN [visit EXCEPT ![h].pc = "open", ![h].tok = k, ![h].user = CopyOf(k)]
            ELSE [visit EXCEPT ![h].pc = "draw"]
    /\ UNCHANGED <<store, cookie, meant, granted>>

(* 32 random bytes: a token no browser and no other request holds, or one  *)
(* of a session (which the loop of New rejects).                           *)
Unheld(k) ==
    /\ \A b \in Browsers : cookie[b] # k
    /\ \A h \in Handlers : InFlight(h) => k \notin {visit[h].sent, visit[h].tok, visit[h].set}
Random(k) == Exists(k) \/ Unheld(k)

NeverRetry(k) == FALSE   \* a mutant

Retry(k) == Exists(k)

NewToken(h) ==
    /\ visit[h].pc = "draw"
    /\ \E k \in Tokens :
        /\ Random(k) /\ ~Retry(k)
        /\ visit' = [visit EXCEPT ![h].pc = "keep", ![h].tok = k]
    /\ UNCHANGED <<store, cookie, meant, granted>>

(* The blank session is stored under a lock of its own; its cookie goes    *)
(* with the answer.                                                        *)
StoreNew(h) ==
    /\ visit[h].pc = "keep"
    /\ LET k == visit[h].tok IN
        /\ store' = Put(k, Nobody)
        /\ meant' = [meant EXCEPT ![k] = Nobody]
        /\ visit' = [visit EXCEPT ![h].pc = "open", ![h].set = k]
    /\ UNCHANGED <<cookie, granted>>

-----------------------------------------------------------------------------
(* The end of a request *)

Answer(h) ==
    /\ cookie' = IF visit[h].set = NoToken THEN cookie
                 ELSE [cookie EXCEPT ![visit[h].b] = visit[h].set]

(* The handler returns without an Update. *)
Leave(h) ==
    /\ Answer(h)
    /\ visit' = [visit EXCEPT ![h] = NoVisit]
    /\ UNCHANGED <<store, meant, granted>>

(* The copy of a handler that did not touch it. *)
WriteBack(h) ==
    /\ store' = Put(visit[h].tok, visit[h].user)
    /\ meant' = [meant EXCEPT ![visit[h].tok] =
                   IF visit[h].stale /\ visit[h].user # @ THEN Spoilt ELSE @]

(* The deferred Update, at the end of a request. *)
Update(h) ==
    /\ WriteBack(h) /\ Answer(h)
    /\ visit' = [visit EXCEPT ![h] = NoVisit]
    /\ UNCHANGED granted

(* The Update of a middleware that visits the session once more: the answer *)
(* keeps the cookie, the request still has the one it came with.            *)
UpdateAndStart(h) ==
    /\ WriteBack(h)
    /\ visit' = [visit EXCEPT ![h] = [@ EXCEPT !.pc = "look", !.tok = NoToken,
                                               !.user = Nobody, !.stale = FALSE]]
    /\ UNCHANGED <<cookie, granted>>

(* SignIn(u), or Logout where u is Nobody, and Update: whoever still works *)
(* on an older copy of the session now has a stale one.                    *)
Change(h, u) ==
    LET k == visit[h].tok IN
    /\ Answer(h)
    /\ store' = Put(k, u)
    /\ meant' = [meant EXCEPT ![k] = u]
    /\ visit' = [g \in Handlers |->
                    IF g = h THEN NoVisit
                    ELSE IF visit[g].pc = "open" /\ visit[g].tok = k
                    THEN [visit[g] EXCEPT !.stale = TRUE] ELSE visit[g]]
    /\ granted' = IF u = Nobody THEN granted
                  ELSE [granted EXCEPT ![visit[h].b] = @ \cup {u}]

(* The cookie's MaxAge passes, or the jar is emptied: the store never      *)
(* hears of it.                                                            *)
Expire(b) ==
    /\ cookie[b] # NoToken
    /\ cookie' = [cookie EXCEPT ![b] = NoToken]
    /\ UNCHANGED <<store, visit, meant, granted>>

(* The store lives in memory. *)
SessionsRestart ==
    /\ store' = << >>
    /\ visit' = [h \in Handlers |-> NoVisit]
    /\ meant' = [k \in Tokens |-> Nobody]
    /\ granted' = [b \in Browsers |-> {}]
    /\ UNCHANGED cookie

-----------------------------------------------------------------------------
(* Properties *)

(* A session is signed in to, and a request acts for, an account that was  *)
(* let in from that very browser since the server started: tokens are      *)
(* never shared, whatever sessions are created side by side.               *)
ActsForGranted ==
    /\ \A b \in Browsers : Exists(cookie[b]) => store[cookie[b]] \in granted[b] \cup {Nobody}
    /\ \A h \in Handlers : Open(h) => visit[h].user \in granted[visit[h].b] \cup {Nobody}

(* What the last sign-in, switch, logout or revocation made of a session   *)
(* stands, until a request that had read the session before ends after it. *)
SessionStands ==
    \A k \in DOMAIN store : meant[k] \in {store[k], Spoilt}
=============================================================================
