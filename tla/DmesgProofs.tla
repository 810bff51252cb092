---------------------------- MODULE DmesgProofs ----------------------------
(***************************************************************************)
(* Proofs about Dmesg, for rings, writes and pieces of any size.           *)
(***************************************************************************)
EXTENDS Dmesg, TLAPS

LEMMA MinOfTwo ==
    ASSUME NEW a \in Int, NEW b \in Int
    PROVE  Min({a, b}) = IF a <= b THEN a ELSE b
  BY DEF Min

(* Where each of the last bytes lies, unless the head is outside: before head   *)
(* the newest, from head on, once the buffer has wrapped, the oldest.          *)
Ring == head <= Cap =>
    /\ \A i \in Index : i < head => buf[i] = total - head + i + 1
    /\ wrapped => \A i \in Index : head <= i => buf[i] = total - Cap - head + i + 1

Types == /\ buf \in [Index -> Nat] /\ head \in Nat /\ (overlong \/ head \in Index)
         /\ wrapped \in BOOLEAN /\ total \in Nat
         /\ overlong \in BOOLEAN /\ failed \in BOOLEAN

LEMMA StepRing ==
    ASSUME Types, Ring, NEW n \in 1 .. MaxWrite, Write(n)
    PROVE  Types' /\ Ring'
  <1> USE DmesgAssumption
  <1>1. /\ Cap \in Nat /\ 0 < Cap /\ head \in Nat /\ head <= Cap
        /\ n \in Nat /\ 0 < n /\ total \in Nat
    BY DEF Types, Write
  <1>2. /\ head' = IF head + n >= Cap THEN head + n - Cap ELSE head + n
        /\ total' = total + n /\ wrapped' = (wrapped \/ n > Cap - head)
        /\ buf' = Copied(n)
        /\ overlong' = (overlong \/ n > Cap) /\ failed' = failed
    BY DEF Write, Advance
  <1>3. head' \in Nat /\ (overlong' \/ head' \in Index)
    <2>1. CASE overlong' BY <1>1, <1>2, <2>1
    <2>2. CASE ~overlong'
      <3>1. ~overlong /\ ~(n > Cap) BY <1>2, <2>2, Zenon
      <3>2. head \in Index /\ n <= Cap BY <1>1, <3>1 DEF Types
      <3> QED BY <1>1, <1>2, <3>2 DEF Index
    <2> QED BY <2>1, <2>2
  <1>4. \A i \in Index : buf'[i] = IF i < n - (Cap - head) THEN total + (Cap - head) + i + 1
                                   ELSE IF head <= i /\ i < head + n THEN total + (i - head) + 1
                                   ELSE buf[i]
    BY <1>2 DEF Copied
  <1>5. \A i \in Index : i \in Nat /\ i < Cap BY <1>1 DEF Index
  <1>6. buf' \in [Index -> Nat]
    <2>1. ASSUME NEW i \in Index PROVE buf'[i] \in Nat
      <3>1. buf[i] \in Nat /\ i \in Nat BY <1>5 DEF Types
      <3> QED BY <1>1, <1>4, <3>1
    <2>2. buf' = [i \in Index |-> buf'[i]] BY <1>2 DEF Copied
    <2> QED BY <2>1, <2>2
  <1>7. Types' BY <1>1, <1>2, <1>3, <1>6 DEF Types
  <1>8. ASSUME NEW i \in Index, head' <= Cap
        PROVE  /\ i < head' => buf'[i] = total' - head' + i + 1
               /\ wrapped' /\ head' <= i => buf'[i] = total' - Cap - head' + i + 1
    <2>1. i \in Nat /\ i < Cap /\ buf[i] \in Nat BY <1>5 DEF Types
    <2>2. i < head => buf[i] = total - head + i + 1 BY <1>1 DEF Ring
    <2>3. wrapped /\ head <= i => buf[i] = total - Cap - head + i + 1 BY <1>1 DEF Ring
    <2>4. buf'[i] = IF i < n - (Cap - head) THEN total + (Cap - head) + i + 1
                    ELSE IF head <= i /\ i < head + n THEN total + (i - head) + 1
                    ELSE buf[i]
      BY <1>4
    <2>5. CASE n > Cap - head
      <3>1. head' = head + n - Cap /\ total' = total + n BY <1>1, <1>2, <2>5
      <3>2. CASE i < n - (Cap - head)
        <4>1. i < head' /\ buf'[i] = total + (Cap - head) + i + 1
          BY <1>1, <2>1, <2>4, <3>1, <3>2
        <4> QED BY <1>1, <2>1, <3>1, <4>1
      <3>3. CASE ~(i < n - (Cap - head)) /\ i < head
        <4>1. buf'[i] = buf[i] /\ ~(i < head') BY <1>1, <2>1, <2>4, <3>1, <3>3
        <4> QED BY <1>1, <2>1, <2>2, <3>1, <3>3, <4>1
      <3>4. CASE ~(i < n - (Cap - head)) /\ ~(i < head)
        <4>1. buf'[i] = total + (i - head) + 1 /\ ~(i < head')
          BY <1>1, <2>1, <2>4, <2>5, <3>1, <3>4
        <4> QED BY <1>1, <2>1, <3>1, <4>1
      <3> QED BY <3>2, <3>3, <3>4
    <2>6. CASE n = Cap - head
      <3>1. head' = 0 /\ total' = total + n /\ wrapped' = wrapped BY <1>1, <1>2, <2>6 DEF Types
      <3>2. CASE i < head
        <4>1. buf'[i] = buf[i] BY <1>1, <2>1, <2>4, <2>6, <3>2
        <4> QED BY <1>1, <2>1, <2>2, <2>6, <3>1, <3>2, <4>1
      <3>3. CASE ~(i < head)
        <4>1. buf'[i] = total + (i - head) + 1 BY <1>1, <2>1, <2>4, <2>6, <3>3
        <4> QED BY <1>1, <2>1, <2>6, <3>1, <4>1
      <3> QED BY <3>2, <3>3
    <2>7. CASE n < Cap - head
      <3>1. head' = head + n /\ total' = total + n /\ wrapped' = wrapped
        BY <1>1, <1>2, <2>7 DEF Types
      <3>2. CASE i < head
        <4>1. buf'[i] = buf[i] BY <1>1, <2>1, <2>4, <2>7, <3>2
        <4> QED BY <1>1, <2>1, <2>2, <3>1, <3>2, <4>1
      <3>3. CASE ~(i < head) /\ i < head + n
        <4>1. buf'[i] = total + (i - head) + 1 BY <1>1, <2>1, <2>4, <2>7, <3>3
        <4> QED BY <1>1, <2>1, <3>1, <3>3, <4>1
      <3>4. CASE ~(i < head + n)
        <4>1. buf'[i] = buf[i] /\ head <= i BY <1>1, <2>1, <2>4, <2>7, <3>4
        <4> QED BY <1>1, <2>1, <2>3, <3>1, <3>4, <4>1
      <3> QED BY <1>1, <2>1, <3>2, <3>3, <3>4
    <2> QED BY <1>1, <2>5, <2>6, <2>7
  <1> QED BY <1>7, <1>8 DEF Ring

-----------------------------------------------------------------------------
(* A read in progress: it holds the lock, its halves are still the halves of   *)
(* the buffer, and what it has read so far is the beginning of what they hold. *)
Size(s) == s.hi - s.lo

Soaked(d) ==
    IF d.pc = "release" THEN Size(Upper) + Size(Lower)
    ELSE IF d.inLower THEN Size(Upper) + d.head ELSE d.head

ReadSoFar(d) ==
    /\ d \in Reading
    /\ d.upper = Upper /\ d.lower = Lower
    /\ d.head <= IF d.inLower THEN Size(Lower) ELSE Size(Upper)
    /\ Len(d.out) = Soaked(d)
    /\ \A i \in 1 .. Soaked(d) : d.out[i] = total - (Size(Upper) + Size(Lower)) + i

Reads == \A r \in Readers : rd[r] # Idle => mut = r /\ head <= Cap /\ ReadSoFar(rd[r])

IInv == TypeOK /\ Ring /\ Reads /\ FailsOnlyOverlong

LEMMA HalvesType ==
    ASSUME TypeOK, head <= Cap
    PROVE  /\ Upper \in Slice /\ Lower \in Slice
           /\ Size(Upper) \in Nat /\ Size(Lower) \in Nat
           /\ Size(Upper) + Size(Lower) = IF wrapped THEN Cap ELSE head
  BY DmesgAssumption DEF TypeOK, Upper, Lower, Slice, Size, Index

(* The bytes of the two halves, one after the other, are the last ones.        *)
LEMMA HalvesHold ==
    ASSUME TypeOK, Ring, head <= Cap
    PROVE  /\ \A j \in 0 .. Size(Upper) - 1 :
                 buf[Upper.lo + j] = total - (Size(Upper) + Size(Lower)) + (j + 1)
           /\ \A j \in 0 .. Size(Lower) - 1 :
                 buf[Lower.lo + j] = total - (Size(Upper) + Size(Lower)) + (Size(Upper) + j + 1)
  BY DmesgAssumption DEF TypeOK, Upper, Lower, Size, Index, Ring

LEMMA InitIInv == Init => IInv
  <1> SUFFICES ASSUME Init PROVE IInv OBVIOUS
  <1> USE DmesgAssumption
  <1>1. 0 \in Index /\ \A i \in Index : ~(i < 0) BY DEF Index
  <1>2. TypeOK BY <1>1 DEF Init, TypeOK
  <1>3. Ring BY <1>1 DEF Init, Ring
  <1>4. Reads BY DEF Init, Reads
  <1> QED BY <1>2, <1>3, <1>4 DEF IInv, Init, FailsOnlyOverlong

(* Nothing but Write moves the halves. *)
LEMMA StillSoFar ==
    ASSUME NEW d, ReadSoFar(d), UNCHANGED <<buf, head, wrapped, total>>
    PROVE  ReadSoFar(d)'
  BY DEF ReadSoFar, Soaked, Upper, Lower

LEMMA Concat ==
    ASSUME NEW a \in Seq(Nat), NEW b \in Seq(Nat)
    PROVE  /\ a \o b \in Seq(Nat) /\ Len(a \o b) = Len(a) + Len(b)
           /\ \A i \in 1 .. Len(a) : (a \o b)[i] = a[i]
           /\ \A j \in 1 .. Len(b) : (a \o b)[Len(a) + j] = b[j]
  OBVIOUS

(* One Read takes the next bytes of a half, and goes to the next half at its   *)
(* end.                                                                        *)
LEMMA ReadKeeps ==
    ASSUME TypeOK, Ring, head <= Cap, NEW r \in Readers, NEW n \in Chunks, Read(r, n),
           NEW d, d = rd[r], d \in Reading, d.pc = "read", ReadSoFar(d)
    PROVE  \E e : /\ rd' = [rd EXCEPT ![r] = e]
                  /\ UNCHANGED <<buf, head, wrapped, total, mut, overlong, failed>>
                  /\ e \in Reading /\ ReadSoFar(e)
  <1> USE DmesgAssumption
  <1>1. PICK half : half = IF d.inLower THEN d.lower ELSE d.upper OBVIOUS
  <1>2. PICK size : size = half.hi - half.lo OBVIOUS
  <1>3. PICK k : k = Min({n, size - d.head}) OBVIOUS
  <1>4. PICK p : p = [i \in 1 .. k |-> buf[half.lo + d.head + i - 1]] OBVIOUS
  <1>5. PICK end : end = AtEnd(d.head + k, size) OBVIOUS
  <1>6. PICK e : e = [d EXCEPT !.out = d.out \o p,
                               !.head = IF end THEN 0 ELSE d.head + k,
                               !.inLower = (d.inLower # end),
                               !.pc = IF d.inLower /\ end THEN "release" ELSE d.pc]
    OBVIOUS
  <1>7. rd' = [rd EXCEPT ![r] = e] /\ UNCHANGED <<buf, head, wrapped, total, mut, overlong, failed>>
    <2>1. rd' = [rd EXCEPT ![r] = e] BY <1>1, <1>2, <1>3, <1>4, <1>5, <1>6, ZenonT(60) DEF Read
    <2>2. UNCHANGED <<buf, head, wrapped, total, mut, overlong, failed>> BY DEF Read
    <2> QED BY <2>1, <2>2
  <1>8. PICK U \in Nat, L \in Nat : U = Size(Upper) /\ L = Size(Lower) BY HalvesType
  <1>9. /\ half \in Slice /\ d.upper = Upper /\ d.lower = Lower /\ d.inLower \in BOOLEAN
        /\ d.head \in Nat /\ size = IF d.inLower THEN L ELSE U
        /\ half = IF d.inLower THEN Lower ELSE Upper
        /\ d.head <= size
    BY <1>1, <1>2, <1>8 DEF ReadSoFar, Reading, Slice, Size
  <1>10. n \in Nat /\ n > 0 /\ size \in Nat BY <1>8, <1>9
  <1>11. k \in Nat /\ d.head + k <= size
    <2>1. k = IF n <= size - d.head THEN n ELSE size - d.head
      BY <1>3, <1>9, <1>10, MinOfTwo
    <2> QED BY <1>9, <1>10, <2>1
  <1>12. end \in BOOLEAN /\ (end <=> d.head + k = size)
    <2>1. (d.head + k >= size) <=> (d.head + k = size) BY <1>9, <1>10, <1>11
    <2>2. end = (d.head + k >= size) BY <1>5 DEF AtEnd
    <2>3. (d.head + k >= size) \in BOOLEAN OBVIOUS
    <2> QED BY <2>1, <2>2, <2>3, Zenon
  <1>13. PICK base \in Nat : base = IF d.inLower THEN U ELSE 0 BY <1>8
  <1>14. \A i \in 1 .. k : p[i] = total - (U + L) + (base + d.head + i)
    <2> SUFFICES ASSUME NEW i \in 1 .. k PROVE p[i] = total - (U + L) + (base + d.head + i)
      OBVIOUS
    <2>1. PICK j \in 0 .. size - 1 : j = d.head + i - 1 BY <1>9, <1>10, <1>11
    <2>2. half.lo \in Nat BY <1>9 DEF Slice
    <2>3. p[i] = buf[half.lo + j]
      <3>1. half.lo + j = half.lo + d.head + i - 1 BY <1>9, <2>1, <2>2
      <3>2. p[i] = buf[half.lo + d.head + i - 1] BY <1>4, Zenon
      <3> QED BY <3>1, <3>2, Zenon
    <2>4. CASE d.inLower
      <3>1. buf[half.lo + j] = total - (U + L) + (U + j + 1)
        BY <1>8, <1>9, <2>1, <2>4, HalvesHold
      <3> QED BY <1>8, <1>9, <1>13, <2>1, <2>3, <2>4, <3>1
    <2>5. CASE ~d.inLower
      <3>1. buf[half.lo + j] = total - (U + L) + (j + 1)
        BY <1>8, <1>9, <2>1, <2>5, HalvesHold
      <3> QED BY <1>8, <1>9, <1>13, <2>1, <2>3, <2>5, <3>1
    <2> QED BY <2>4, <2>5
  <1>15. p \in Seq(Nat) /\ Len(p) = k
    <2>1. ASSUME NEW i \in 1 .. k PROVE buf[half.lo + d.head + i - 1] \in Nat
      <3>1. half.lo + d.head + i - 1 \in Index
        BY <1>2, <1>9, <1>10, <1>11 DEF Slice, Index
      <3> QED BY <3>1 DEF TypeOK
    <2> QED BY <1>4, <1>11, <2>1
  <1>16. d.out \in Seq(Nat) /\ Len(d.out) = base + d.head
    BY <1>8, <1>9, <1>13 DEF ReadSoFar, Soaked, Reading
  <1>17. \A i \in 1 .. (base + d.head) : d.out[i] = total - (U + L) + i
    BY <1>8, <1>9, <1>13 DEF ReadSoFar, Soaked
  <1>18. PICK out \in Seq(Nat) :
            /\ out = d.out \o p /\ Len(out) = base + d.head + k
            /\ \A i \in 1 .. (base + d.head) : out[i] = d.out[i]
            /\ \A j \in 1 .. k : out[base + d.head + j] = p[j]
    <2>1. PICK a \in Seq(Nat) : a = d.out BY <1>16
    <2>2. PICK z \in Seq(Nat) : z = p BY <1>15
    <2>3. Len(a) = base + d.head /\ Len(z) = k BY <1>15, <1>16, <2>1, <2>2
    <2>4. PICK out : out = a \o z OBVIOUS
    <2>5. /\ out \in Seq(Nat) /\ Len(out) = Len(a) + Len(z)
          /\ \A i \in 1 .. Len(a) : out[i] = a[i]
          /\ \A j \in 1 .. Len(z) : out[Len(a) + j] = z[j]
      BY <2>4, Concat, Zenon
    <2>6. /\ Len(out) = base + d.head + k
          /\ \A i \in 1 .. (base + d.head) : out[i] = a[i]
          /\ \A j \in 1 .. k : out[base + d.head + j] = z[j]
      BY <2>3, <2>5, Zenon
    <2> QED BY <2>1, <2>2, <2>4, <2>5, <2>6, Zenon
  <1>19. \A i \in 1 .. (base + d.head + k) : out[i] = total - (U + L) + i
    <2> SUFFICES ASSUME NEW i \in 1 .. (base + d.head + k) PROVE out[i] = total - (U + L) + i
      OBVIOUS
    <2>1. CASE i <= base + d.head
      <3>1. i \in 1 .. (base + d.head) BY <1>9, <1>13, <2>1
      <3> QED BY <1>17, <1>18, <3>1
    <2>2. CASE ~(i <= base + d.head)
      <3>1. PICK j \in 1 .. k : i = base + d.head + j
        <4>1. i - (base + d.head) \in 1 .. k BY <1>9, <1>11, <1>13, <2>2
        <4> QED BY <4>1, <1>9, <1>13
      <3>2. out[i] = p[j] BY <1>18, <3>1
      <3> QED BY <1>14, <3>1, <3>2
    <2> QED BY <2>1, <2>2
  <1>20. /\ e.out = out /\ e.upper = Upper /\ e.lower = Lower
         /\ e.head = IF end THEN 0 ELSE d.head + k
         /\ e.inLower = (d.inLower # end)
         /\ e.pc = IF d.inLower /\ end THEN "release" ELSE "read"
    BY <1>6, <1>9, <1>18 DEF Reading
  <1>21. size <= Cap BY <1>2, <1>9 DEF Slice
  <1>22. e \in Reading
    <2>1. (IF end THEN 0 ELSE d.head + k) \in 0 .. Cap BY <1>9, <1>10, <1>11, <1>21
    <2>2. (d.inLower # end) \in BOOLEAN OBVIOUS
    <2>3. (IF d.inLower /\ end THEN "release" ELSE d.pc) \in {"read", "release"} OBVIOUS
    <2>4. PICK h \in 0 .. Cap, l \in BOOLEAN, c \in {"read", "release"} :
             /\ h = IF end THEN 0 ELSE d.head + k
             /\ l = (d.inLower # end)
             /\ c = IF d.inLower /\ end THEN "release" ELSE d.pc
      BY <2>1, <2>2, <2>3
    <2>5. e = [d EXCEPT !.out = out, !.head = h, !.inLower = l, !.pc = c]
      BY <1>6, <1>18, <2>4
    <2> QED BY <2>5 DEF Reading
  <1>23. base + d.head + k = base + (d.head + k) BY <1>9, <1>11, <1>13
  <1>24. ReadSoFar(e)
    <2>1. CASE end /\ d.inLower
      <3>1. e.pc = "release" /\ e.inLower = FALSE /\ e.head = 0 BY <1>9, <1>20, <2>1
      <3>2. base + d.head + k = U + L
        <4>1. d.head + k = size BY <1>12, <2>1
        <4>2. size = L /\ base = U BY <1>9, <1>13, <2>1
        <4> QED BY <1>23, <4>1, <4>2
      <3>3. Soaked(e) = U + L BY <1>8, <3>1 DEF Soaked
      <3>4. Len(e.out) = Soaked(e) BY <1>18, <1>20, <3>2, <3>3, Zenon
      <3>5. \A i \in 1 .. Soaked(e) : e.out[i] = total - (Size(Upper) + Size(Lower)) + i
        BY <1>8, <1>19, <1>20, <3>2, <3>3, Zenon
      <3>6. e.head <= IF e.inLower THEN Size(Lower) ELSE Size(Upper) BY <1>8, <3>1
      <3> QED BY <1>20, <1>22, <3>4, <3>5, <3>6, Zenon DEF ReadSoFar
    <2>2. CASE end /\ ~d.inLower
      <3>1. e.pc = "read" /\ e.inLower = TRUE /\ e.head = 0 BY <1>9, <1>12, <1>20, <2>2
      <3>2. base + d.head + k = U
        <4>1. d.head + k = size BY <1>12, <2>2
        <4>2. size = U /\ base = 0 BY <1>9, <1>13, <2>2
        <4> QED BY <1>23, <4>1, <4>2
      <3>3. Soaked(e) = U BY <1>8, <3>1 DEF Soaked
      <3>4. Len(e.out) = Soaked(e) BY <1>18, <1>20, <3>2, <3>3, Zenon
      <3>5. \A i \in 1 .. Soaked(e) : e.out[i] = total - (Size(Upper) + Size(Lower)) + i
        BY <1>8, <1>19, <1>20, <3>2, <3>3, Zenon
      <3>6. e.head <= IF e.inLower THEN Size(Lower) ELSE Size(Upper) BY <1>8, <3>1
      <3> QED BY <1>20, <1>22, <3>4, <3>5, <3>6, Zenon DEF ReadSoFar
    <2>3. CASE ~end
      <3>1. e.pc = "read" /\ e.inLower = d.inLower /\ e.head = d.head + k
        BY <1>9, <1>12, <1>20, <2>3
      <3>2. Soaked(e) = base + d.head + k
        BY <1>8, <1>9, <1>11, <1>13, <3>1 DEF Soaked
      <3>3. Len(e.out) = Soaked(e) BY <1>18, <1>20, <3>2, Zenon
      <3>4. \A i \in 1 .. Soaked(e) : e.out[i] = total - (Size(Upper) + Size(Lower)) + i
        BY <1>8, <1>19, <1>20, <3>2, Zenon
      <3>5. e.head <= IF e.inLower THEN Size(Lower) ELSE Size(Upper) BY <1>8, <1>9, <1>11, <3>1
      <3> QED BY <1>20, <1>22, <3>3, <3>4, <3>5, Zenon DEF ReadSoFar
    <2> QED BY <1>12, <2>1, <2>2, <2>3
  <1> QED BY <1>7, <1>22, <1>24

LEMMA StepIInv == IInv /\ [Next]_vars => IInv'
  <1> SUFFICES ASSUME IInv, [Next]_vars PROVE IInv' OBVIOUS
  <1> USE DEF IInv, FailsOnlyOverlong
  <1>1. CASE UNCHANGED vars
    BY <1>1 DEF vars, TypeOK, Ring, Reads, ReadSoFar, Soaked, Upper, Lower
  <1>2. ASSUME NEW n \in 1 .. MaxWrite, Write(n) PROVE IInv'
    <2>1. Types' /\ Ring' BY <1>2, StepRing DEF TypeOK, Types
    <2>4. failed' = failed /\ (overlong => overlong') BY <1>2 DEF Write
    <2>2. mut = "free" /\ mut' = mut /\ rd' = rd BY <1>2 DEF Write, Locked
    <2>3. \A r \in Readers : rd[r] = Idle BY <2>2, DmesgAssumption DEF Reads
    <2> QED BY <2>1, <2>2, <2>3, <2>4 DEF TypeOK, Types, Reads
  <1>3. ASSUME NEW r \in Readers, Grab(r) PROVE IInv'
    <2>1. PICK d : d = [pc |-> "read", upper |-> Upper, lower |-> Lower,
                        inLower |-> FALSE, head |-> 0, out |-> <<>>]
      OBVIOUS
    <2>2. /\ mut = "free" /\ mut' = r /\ rd' = [rd EXCEPT ![r] = d]
          /\ head <= Cap /\ UNCHANGED <<buf, head, wrapped, total, overlong, failed>>
      BY <1>3, <2>1 DEF Grab
    <2>3. d \in Reading BY <2>1, <2>2, HalvesType, DmesgAssumption DEF Reading
    <2>4. \A k \in Readers : rd[k] = Idle BY <2>2, DmesgAssumption DEF Reads
    <2>5. ReadSoFar(d)
      <3>1. Soaked(d) = 0 BY <2>1 DEF Soaked
      <3>2. Len(d.out) = 0 BY <2>1
      <3>3. d.head = 0 /\ d.upper = Upper /\ d.lower = Lower /\ d.inLower = FALSE BY <2>1
      <3> QED BY <2>2, <2>3, <3>1, <3>2, <3>3, HalvesType DEF ReadSoFar
    <2>6. ReadSoFar(d)' BY <2>2, <2>5, StillSoFar
    <2>7. TypeOK' BY <2>2, <2>3 DEF TypeOK
    <2>8. \A k \in Readers : rd'[k] # Idle => k = r /\ rd'[k] = d BY <2>2, <2>4 DEF TypeOK
    <2>9. Reads'
      <3> SUFFICES ASSUME NEW k \in Readers, rd'[k] # Idle PROVE mut' = k /\ head' <= Cap /\ ReadSoFar(rd[k])'
        BY DEF Reads
      <3>1. k = r /\ rd'[k] = d BY <2>8
      <3>2. ReadSoFar(rd[k])' BY <2>6, <3>1 DEF ReadSoFar, Soaked
      <3> QED BY <2>2, <3>1, <3>2
    <2> QED BY <2>2, <2>7, <2>9 DEF Ring
  <1>4. ASSUME NEW r \in Readers, NEW n \in Chunks, Read(r, n) PROVE IInv'
    <2>1. PICK d : d = rd[r] OBVIOUS
    <2>2. d \in Reading /\ d.pc = "read" /\ mut = r /\ head <= Cap /\ ReadSoFar(d)
      BY <1>4, <2>1 DEF Read, Reads, ReadSoFar
    <2>3. PICK e : /\ rd' = [rd EXCEPT ![r] = e] /\ UNCHANGED <<buf, head, wrapped, total, mut, overlong, failed>>
                   /\ e \in Reading /\ ReadSoFar(e)
      BY <1>4, <2>1, <2>2, ReadKeeps
    <2>4. TypeOK' BY <2>3 DEF TypeOK
    <2>5. ReadSoFar(e)' BY <2>3, StillSoFar
    <2>6. Reads'
      <3> SUFFICES ASSUME NEW k \in Readers, rd'[k] # Idle PROVE mut' = k /\ head' <= Cap /\ ReadSoFar(rd[k])'
        BY DEF Reads
      <3>1. CASE k = r
        <4>1. rd'[k] = e BY <2>3, <3>1 DEF TypeOK
        <4> QED BY <2>2, <2>3, <2>5, <3>1, <4>1 DEF ReadSoFar, Soaked
      <3>2. CASE k # r
        <4>1. rd'[k] = rd[k] BY <2>3, <3>2 DEF TypeOK
        <4>2. mut = k BY <4>1 DEF Reads
        <4> QED BY <2>2, <3>2, <4>2
      <3> QED BY <3>1, <3>2
    <2> QED BY <2>3, <2>4, <2>6 DEF Ring
  <1>5. ASSUME NEW r \in Readers, Release(r) PROVE IInv'
    <2>1. /\ mut' = "free" /\ rd' = [rd EXCEPT ![r] = Idle] /\ mut = r
          /\ UNCHANGED <<buf, head, wrapped, total, overlong, failed>>
      BY <1>5 DEF Release, Reads
    <2>2. \A k \in Readers : rd'[k] = Idle BY <2>1 DEF Reads, TypeOK
    <2> QED BY <2>1, <2>2 DEF TypeOK, Ring, Reads
  <1>6. ASSUME head > Cap, failed' = TRUE,
               UNCHANGED <<buf, head, wrapped, total, mut, rd, overlong>>
        PROVE  IInv'
    <2>1. overlong BY <1>6, DmesgAssumption DEF TypeOK, Index
    <2>2. TypeOK' /\ Ring' BY <1>6 DEF TypeOK, Ring
    <2>3. Reads' BY <1>6 DEF Reads, ReadSoFar, Soaked, Upper, Lower
    <2> QED BY <1>6, <2>1, <2>2, <2>3
  <1>7. CASE WritePanics \/ \E r \in Readers : ReaderPanics(r)
    BY <1>6, <1>7 DEF WritePanics, ReaderPanics
  <1> QED BY <1>1, <1>2, <1>3, <1>4, <1>5, <1>7 DEF Next, GoOn

-----------------------------------------------------------------------------
THEOREM Invariance == Spec => []IInv
  BY InitIInv, StepIInv, PTL DEF Spec

(* The ring and the reads of it have their types; head stays inside as long as *)
(* no write was longer than the ring.                                          *)
THEOREM TypeCorrect == Spec => []TypeOK
  <1>1. IInv => TypeOK BY DEF IInv
  <1> QED BY <1>1, Invariance, PTL

LEMMA SoakedAll ==
    ASSUME IInv, NEW r \in Readers, Done(r)
    PROVE  /\ Len(rd[r].out) = IF wrapped THEN Cap ELSE head
           /\ rd[r].out \in Seq(Nat)
           /\ \A i \in 1 .. Len(rd[r].out) : rd[r].out[i] = total - Len(rd[r].out) + i
  <1>1. ReadSoFar(rd[r]) /\ rd[r].pc = "release" /\ head <= Cap BY DEF IInv, Reads, Done
  <1>2. Soaked(rd[r]) = Size(Upper) + Size(Lower) BY <1>1 DEF Soaked
  <1>3. Size(Upper) + Size(Lower) = IF wrapped THEN Cap ELSE head
    BY <1>1, HalvesType DEF IInv
  <1> QED BY <1>1, <1>2, <1>3 DEF ReadSoFar, Reading

(* The page reads the last bytes written, in order, for any pieces and writes  *)
(* of any length, and all of a buffer that has wrapped.                        *)
THEOREM InOrder == Spec => []ReadsInOrder
  <1>1. IInv => ReadsInOrder
    <2> SUFFICES ASSUME IInv, NEW r \in Readers, Done(r)
                 PROVE  /\ \A i \in DOMAIN rd[r].out : rd[r].out[i] = total - Len(rd[r].out) + i
                        /\ wrapped => Len(rd[r].out) = Cap
      BY DEF ReadsInOrder
    <2>1. \A i \in DOMAIN rd[r].out : i \in 1 .. Len(rd[r].out) BY SoakedAll
    <2> QED BY <2>1, SoakedAll
  <1> QED BY <1>1, Invariance, PTL

(* No write and no reader fails unless a write was longer than the ring.       *)
THEOREM OnlyOverlongFails == Spec => []FailsOnlyOverlong
  <1>1. IInv => FailsOnlyOverlong BY DEF IInv
  <1> QED BY <1>1, Invariance, PTL
============================================================================
