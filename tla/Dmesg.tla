------------------------------- MODULE Dmesg -------------------------------
(***************************************************************************)
(* The ring buffer that keeps the end of the log for /admin/logs: Write,   *)
(* which every request and every log line calls, and the page, which holds *)
(* the buffer's lock while io.ReadAll reads it piece by piece.             *)
(*                                                                         *)
(* A byte is its number in the stream of all bytes ever written; 0 stands  *)
(* for the bytes of a new buffer.                                          *)
(***************************************************************************)
EXTENDS Integers, Sequences, FiniteSetsExt

CONSTANTS
    Cap,      \* DmesgCapacity
    MaxWrite, \* bound: the longest write, which may well exceed the ring
    Readers,  \* requests of /admin/logs at a time
    Chunks,   \* how much ReadAll may have room for in one Read
    MaxTotal  \* bound: bytes written

ASSUME DmesgAssumption ==
    /\ Cap \in Nat \ {0} /\ MaxTotal \in Nat
    /\ MaxWrite \in Nat
    /\ Chunks \subseteq Nat \ {0}
    /\ "free" \notin Readers

VARIABLES
    buf, head, wrapped,  \* struct Dmesg
    total,               \* bytes written so far
    mut,                 \* who holds the lock over more than one call
    rd,                  \* the reads of the page
    overlong,            \* history: a single write was longer than the ring
    failed               \* history: a Write or a Reader has panicked

vars == <<buf, head, wrapped, total, mut, rd, overlong, failed>>

Index == 0 .. Cap - 1

Idle == [pc |-> "idle"]

(* buf[lo:hi] *)
Slice == [lo: 0 .. Cap, hi: 0 .. Cap]

Reading == [pc: {"read", "release"}, upper: Slice, lower: Slice, inLower: BOOLEAN,
            head: 0 .. Cap, out: Seq(Nat)]

TypeOK ==
    /\ buf \in [Index -> Nat]
    /\ head \in Nat /\ (overlong \/ head \in Index)
    /\ wrapped \in BOOLEAN
    /\ total \in Nat
    /\ mut \in Readers \cup {"free"}
    /\ rd \in [Readers -> Reading \cup {Idle}]
    /\ overlong \in BOOLEAN /\ failed \in BOOLEAN

Init ==
    /\ buf = [i \in Index |-> 0]
    /\ head = 0 /\ wrapped = FALSE /\ total = 0
    /\ mut = "free"
    /\ rd = [r \in Readers |-> Idle]
    /\ overlong = FALSE /\ failed = FALSE

-----------------------------------------------------------------------------
(* Write *)

(* Mutants: off by one at the end of the buffer; the head is not set to zero. *)
AdvanceLate(n) == IF head + n > Cap THEN head + n - Cap ELSE head + n
AdvanceFromHead(n) == IF head + n >= Cap THEN head + head + n - Cap ELSE head + n

(* advance, of which only n >= 0 is ever asked.  It wraps once: a write that   *)
(* goes twice past the end leaves the head outside the buffer.                 *)
Advance(n) == IF head + n >= Cap THEN head + n - Cap ELSE head + n

(* A mutant: Write does not take the lock. *)
Unlocked == TRUE

Locked == mut = "free"

(* What fits before the end is copied there, what does not from the start on,  *)
(* where copy stops at the end of the buffer again.                            *)
Copied(n) ==
    LET remain == Cap - head IN
    [i \in Index |-> IF i < n - remain THEN total + remain + i + 1
                     ELSE IF head <= i /\ i < head + n THEN total + (i - head) + 1
                     ELSE buf[i]]

Write(n) ==
    /\ Locked /\ head <= Cap /\ total + n <= MaxTotal
    /\ buf' = Copied(n)
    /\ wrapped' = (wrapped \/ n > Cap - head)
    /\ head' = Advance(n)
    /\ total' = total + n
    /\ overlong' = (overlong \/ n > Cap)
    /\ UNCHANGED <<mut, rd, failed>>

(* With the head outside, p[:remain] panics before anything is written; the    *)
(* lock is given back by defer.                                                *)
WritePanics ==
    /\ Locked /\ head > Cap
    /\ failed' = TRUE
    /\ UNCHANGED <<buf, head, wrapped, total, mut, rd, overlong>>

-----------------------------------------------------------------------------
(* handleAdminLogs: Grab, Reader, ReadAll, Release. *)

(* The two halves of Reader; bytes.Reader, before the first wrap, has one. *)
Upper == IF wrapped THEN [lo |-> head, hi |-> Cap] ELSE [lo |-> 0, hi |-> head]
Lower == [lo |-> 0, hi |-> IF wrapped THEN head ELSE 0]

Grab(r) ==
    /\ rd[r] = Idle /\ mut = "free" /\ head <= Cap
    /\ mut' = r
    /\ rd' = [rd EXCEPT ![r] = [pc |-> "read", upper |-> Upper, lower |-> Lower,
                                inLower |-> FALSE, head |-> 0, out |-> <<>>]]
    /\ UNCHANGED <<buf, head, wrapped, total, overlong, failed>>

(* Reader slices buf[head:]; the deferred Release frees the lock again. *)
ReaderPanics(r) ==
    /\ rd[r] = Idle /\ mut = "free" /\ head > Cap
    /\ failed' = TRUE
    /\ UNCHANGED <<buf, head, wrapped, total, mut, rd, overlong>>

(* A mutant: the end of a half is one further on. *)
NeverAtEnd(at, size) == at > size

AtEnd(at, size) == at >= size

(* DmesgReader.Read into a buffer of n bytes; io.EOF ends ReadAll. *)
Read(r, n) ==
    /\ rd[r] # Idle /\ rd[r].pc = "read"
    /\ LET d == rd[r]
           half == IF d.inLower THEN d.lower ELSE d.upper
           size == half.hi - half.lo
           k == Min({n, size - d.head})
           p == [i \in 1 .. k |-> buf[half.lo + d.head + i - 1]]
           end == AtEnd(d.head + k, size)
       IN rd' = [rd EXCEPT ![r] = [d EXCEPT
                    !.out = @ \o p,
                    !.head = IF end THEN 0 ELSE @ + k,
                    !.inLower = @ # end,
                    !.pc = IF d.inLower /\ end THEN "release" ELSE @]]
    /\ UNCHANGED <<buf, head, wrapped, total, mut, overlong, failed>>

Release(r) ==
    /\ rd[r] # Idle /\ rd[r].pc = "release"
    /\ mut' = "free"
    /\ rd' = [rd EXCEPT ![r] = Idle]
    /\ UNCHANGED <<buf, head, wrapped, total, overlong, failed>>

-----------------------------------------------------------------------------
GoOn(r) == Release(r) \/ \E n \in Chunks : Read(r, n)

Next ==
    \/ \E n \in 1 .. MaxWrite : Write(n)
    \/ WritePanics
    \/ \E r \in Readers : Grab(r) \/ ReaderPanics(r) \/ GoOn(r)

Spec == Init /\ [][Next]_vars

(* The page's handler goes on once it has begun. *)
FairSpec == Spec /\ \A r \in Readers : WF_vars(GoOn(r))

-----------------------------------------------------------------------------
Done(r) == rd[r] # Idle /\ rd[r].pc = "release"

(* "Reads are guaranteed to occur in FIFO order": what the page reads are the   *)
(* last bytes written, in their order, none skipped, and as many as there is    *)
(* room for once the buffer has wrapped, however the writes came to lie in the  *)
(* ring and whatever pieces ReadAll asks for; also after a write that was longer*)
(* than the ring, as long as a reader can be made at all.                       *)
ReadsInOrder ==
    \A r \in Readers : Done(r) =>
        LET out == rd[r].out IN
        /\ \A i \in DOMAIN out : out[i] = total - Len(out) + i
        /\ wrapped => Len(out) = Cap

(* "Writes are guaranteed to write all data supplied and never fail", reads     *)
(* "always succeed": both do as long as no single write was longer than the     *)
(* ring, wherever the head was.  (After one that was, they may not: the promise *)
(* of dmesg.go:17-20 is kept for such writes only from a head that is low       *)
(* enough, as in the test.)                                                     *)
FailsOnlyOverlong == failed => overlong

(* Liveness: a read ends and gives the lock back, so that logging goes on.      *)
ReadEnds == \A r \in Readers : rd[r] # Idle ~> rd[r] = Idle

(* dmesg.go:14-15: once the buffer is exhausted "the oldest entries are         *)
(* discarded".  After the write that exactly fills it for the first time, all   *)
(* are: wrapped is not set, and head is zero.                                   *)
OnlyOldestDiscarded ==
    \A r \in Readers : Done(r) => Len(rd[r].out) = Min({total, Cap})
=============================================================================
