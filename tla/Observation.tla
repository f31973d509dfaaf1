---------------------------- MODULE Observation ----------------------------
(***************************************************************************)
(* An observation line: one cache line of diagnostics that CPU3 rewrites   *)
(* (LZAMP/firmware/zephyr/app/src/main.c) while status_show() of the Linux *)
(* driver may be reading it.  The firmware keeps two of them, for full     *)
(* reverse rings and for its worker; they are written and read in the same *)
(* way and hold a counter that grows with every publication (full_count,   *)
(* wake_count) and the particulars of the event it counts.                 *)
(*                                                                         *)
(* There is no lock between the two CPUs.  The writer clears the commit    *)
(* word, stores the fields and the inverse of the new commit word, and,    *)
(* after a barrier, stores that word.  The reader compares the commit word *)
(* before and after.  Neither side has a barrier between the commit word   *)
(* and the fields that follow it: "ordered" says whether the hardware      *)
(* keeps the program order of these accesses all the same.                 *)
(***************************************************************************)
EXTENDS Integers

CONSTANTS
    Details,     \* the particulars of an event: priority, type, result
    NoDetail,    \* what main() publishes when it resets the line; also all zero
    CommitWrap,  \* commit words count modulo CommitWrap (2^32 in the code)
    MaxCount     \* bound: events CPU3 records in one session

ASSUME DetailsAssumption == NoDetail \in Details
ASSUME WrapAssumption == CommitWrap \in Nat /\ CommitWrap > 2
ASSUME BoundAssumption == MaxCount \in Nat

VARIABLES
    ordered,   \* plain accesses of both CPUs take effect in program order
    line,      \* the line as the other CPU sees it
    wpc,       \* where CPU3 is
    counter,   \* mailmsg_tx_full_commit
    count,     \* mailmsg_tx_full_count
    image,     \* the stores of the publication under way
    stored,    \* the fields of image that are visible
    current,   \* history: the content published last
    rpc,       \* where status_show() is
    got,       \* what it has read
    loaded,    \* the names in got that it has read
    overlap,   \* history: publications that overlap this call
    held,      \* history: contents that were current during this call
    quiet      \* history: CPU3 published nothing during this call

wvars == <<wpc, counter, count, image, stored, current>>
rvars == <<rpc, got, loaded>>
hvars == <<overlap, held, quiet>>
vars == <<ordered, line, wvars, rvars, hvars>>

Commits == 0 .. CommitWrap - 1

\* The complement of a commit word, ~commit.
Inverse(c) == CommitWrap - 1 - c

ZeroLine == [commit |-> 0, magic |-> "zero", count |-> 0, detail |-> NoDetail, inv |-> 0]
Fields == DOMAIN ZeroLine
Content(l) == <<l.count, l.detail>>
Nothing == <<>>

\* The order of the stores before the barrier.
StoreRank == [commit |-> 1, magic |-> 2, count |-> 3, detail |-> 4, inv |-> 5]

\* What the reader loads before its second look at the commit word, and then.
LoadRank == [first |-> 1, magic |-> 2, count |-> 3, detail |-> 4, second |-> 5, inv |-> 6]
Loads == DOMAIN LoadRank
FirstLook == {"first", "magic", "count", "detail"}
FieldOf(n) == IF n \in {"first", "second"} THEN "commit" ELSE n
NoLoads == [first |-> 0, magic |-> "zero", count |-> 0, detail |-> NoDetail,
            second |-> 0, inv |-> 0]

Init ==
    /\ ordered \in BOOLEAN
    /\ line = ZeroLine
    /\ wpc = "off" /\ counter = 0 /\ count = 0
    /\ image = ZeroLine /\ stored = {} /\ current = Nothing
    /\ rpc = "idle" /\ got = NoLoads /\ loaded = {}
    /\ overlap = 0 /\ held = {} /\ quiet = FALSE

-----------------------------------------------------------------------------
(* CPU3                                                                      *)

\* Mutant: the commit word does not wrap.
NextCommit_NoWrap(c) == c + 1

\* Mutant: the commit word may be 0, which means "no commit".
NextCommit_Zero(c) == (c + 1) % CommitWrap

NextCommit(c) == IF c + 1 = CommitWrap THEN 1 ELSE c + 1

\* The stores of a publication with commit word c, up to the barrier.
NewImage(c, n, d) ==
    [commit |-> 0, magic |-> "magic", count |-> n, detail |-> d, inv |-> Inverse(c)]

\* A publication begins with counter at c.  The bound is about time: one call
\* of status_show() does not last for a whole round of commit words.
PublishBegin(c, n, d) ==
    /\ overlap < CommitWrap - 2
    /\ counter' = NextCommit(c)
    /\ count' = n
    /\ image' = NewImage(NextCommit(c), n, d)
    /\ stored' = {}
    /\ wpc' = "store"
    /\ overlap' = IF rpc = "idle" THEN overlap ELSE overlap + 1
    /\ quiet' = FALSE
    /\ UNCHANGED <<ordered, line, current, rvars, held>>

\* mailmsg_reset_tx_full_observation(), called by main().
Reset == wpc = "boot" /\ PublishBegin(0, 0, NoDetail)

\* mailmsg_record_tx_full()
Record(d) == wpc = "idle" /\ count < MaxCount /\ PublishBegin(counter, count + 1, d)

\* A store becomes visible.
Store(f) ==
    /\ wpc = "store" /\ f \notin stored
    /\ ordered => \A g \in Fields : StoreRank[g] < StoreRank[f] => g \in stored
    /\ line' = [line EXCEPT ![f] = image[f]]
    /\ stored' = stored \cup {f}
    /\ UNCHANGED <<ordered, wpc, counter, count, image, current, rvars, hvars>>

\* After the barrier, the new commit word.
Commit ==
    /\ wpc = "store" /\ stored = Fields
    /\ line' = [line EXCEPT !.commit = counter]
    /\ current' = Content(image)
    /\ held' = IF rpc = "idle" THEN held ELSE held \cup {Content(image)}
    /\ wpc' = "idle"
    /\ UNCHANGED <<ordered, counter, count, image, stored, rvars, overlap, quiet>>

\* CPU3 powers itself off; it does so outside a publication.
Off ==
    /\ wpc = "idle"
    /\ wpc' = "off"
    /\ UNCHANGED <<ordered, line, counter, count, image, stored, current, rvars, hvars>>

-----------------------------------------------------------------------------
(* Linux.  Both handlers hold data->lock.                                    *)

\* start_store() clears the line before CPU3 is powered on.
Start ==
    /\ rpc = "idle" /\ wpc = "off"
    /\ line' = ZeroLine
    /\ current' = Nothing
    /\ wpc' = "boot"
    /\ UNCHANGED <<ordered, counter, count, image, stored, rvars, hvars>>

\* status_show() enters.
ReadBegin ==
    /\ rpc = "idle"
    /\ rpc' = "first"
    /\ overlap' = IF wpc = "store" THEN 1 ELSE 0
    /\ held' = IF current = Nothing THEN {} ELSE {current}
    /\ quiet' = (wpc \in {"idle", "off"} /\ current # Nothing)
    /\ UNCHANGED <<ordered, line, wvars, got, loaded>>

InOrder(n) == ordered => \A m \in Loads : LoadRank[m] < LoadRank[n] => m \in loaded

LoadFirst(n) ==
    /\ rpc = "first" /\ n \in FirstLook \ loaded
    /\ InOrder(n)
    /\ got' = [got EXCEPT ![n] = line[FieldOf(n)]]
    /\ loaded' = loaded \cup {n}
    /\ UNCHANGED <<ordered, line, wvars, rpc, hvars>>

\* The line is invalidated again, with a barrier.
LookAgain ==
    /\ rpc = "first" /\ loaded = FirstLook
    /\ rpc' = "second"
    /\ UNCHANGED <<ordered, line, wvars, got, loaded, hvars>>

\* Mutant: without the invalidation the commit word comes from the cache.
LoadSecond_Cached(n) ==
    /\ rpc = "second" /\ n \in Loads \ loaded
    /\ InOrder(n)
    /\ got' = [got EXCEPT ![n] = IF n = "second" THEN got.first ELSE Inverse(got.first)]
    /\ loaded' = loaded \cup {n}
    /\ UNCHANGED <<ordered, line, wvars, rpc, hvars>>

LoadSecond(n) ==
    /\ rpc = "second" /\ n \in Loads \ loaded
    /\ InOrder(n)
    /\ got' = [got EXCEPT ![n] = line[FieldOf(n)]]
    /\ loaded' = loaded \cup {n}
    /\ UNCHANGED <<ordered, line, wvars, rpc, hvars>>

\* The validity flag of the report.
Valid ==
    /\ got.magic = "magic"
    /\ got.first # 0 /\ got.first = got.second
    /\ got.inv = Inverse(got.second)

\* status_show() prints its snapshot and leaves.
ReadEnd ==
    /\ rpc = "second" /\ loaded = Loads
    /\ rpc' = "idle" /\ got' = NoLoads /\ loaded' = {}
    /\ overlap' = 0 /\ held' = {} /\ quiet' = FALSE
    /\ UNCHANGED <<ordered, line, wvars>>

-----------------------------------------------------------------------------
Cpu3 ==
    \/ Reset \/ Commit \/ Off
    \/ \E d \in Details : Record(d)
    \/ \E f \in Fields : Store(f)

Linux ==
    \/ Start \/ ReadBegin \/ LookAgain \/ ReadEnd
    \/ \E n \in Loads : LoadFirst(n) \/ LoadSecond(n)

Next == Cpu3 \/ Linux

Spec == Init /\ [][Next]_vars

-----------------------------------------------------------------------------
Magic == {"zero", "magic"}
Line == [commit : Commits, magic : Magic, count : 0 .. MaxCount, detail : Details,
         inv : Commits]
Got == [first : Commits, magic : Magic, count : 0 .. MaxCount, detail : Details,
        second : Commits, inv : Commits]
Contents == (0 .. MaxCount) \X Details

\* The type invariant.
TypeOK ==
    /\ ordered \in BOOLEAN
    /\ line \in Line /\ image \in Line
    /\ wpc \in {"off", "boot", "store", "idle"}
    /\ counter \in Commits
    /\ count \in 0 .. MaxCount
    /\ stored \subseteq Fields
    /\ current \in Contents \cup {Nothing}
    /\ rpc \in {"idle", "first", "second"}
    /\ got \in Got
    /\ loaded \subseteq Loads
    /\ overlap \in 0 .. CommitWrap - 2
    /\ held \subseteq Contents
    /\ quiet \in BOOLEAN

\* "Linux reads a stable snapshot through commit/inverse" (main.c:253): what
\* status_show() reports as valid is the content of one publication, and of one
\* that was in place at some time during the call, although CPU3 may publish
\* several times meanwhile and commit words repeat -- provided the accesses
\* that no barrier separates keep their order.
StableSnapshot == ordered /\ loaded = Loads /\ Valid => <<got.count, got.detail>> \in held

\* A line CPU3 leaves alone is reported as valid with its last content, in
\* whatever order its stores and the loads took effect: readers do not retry.
QuietLineIsValid == quiet /\ loaded = Loads => Valid /\ <<got.count, got.detail>> = current

-----------------------------------------------------------------------------
(* The inductive invariant behind the safety properties.                     *)

\* The line as the last publication left it.
Committed ==
    /\ line.magic = "magic" /\ line.commit = counter /\ line.inv = Inverse(counter)
    /\ current # Nothing /\ Content(line) = current

\* What the line holds while CPU3 is anywhere.  In the middle of a publication
\* the commit word is gone or is still the one before.
WriterInv ==
    /\ wpc = "off" => line = ZeroLine \/ Committed
    /\ wpc = "off" /\ current # Nothing => Committed
    /\ wpc = "boot" => line = ZeroLine
    /\ wpc = "idle" => Committed
    /\ wpc \in {"store", "idle"} \/ Committed => counter # 0
    /\ wpc = "store" =>
         /\ image = NewImage(counter, count, image.detail)
         /\ \A f \in stored : line[f] = image[f]
         /\ line.commit = 0 \/ ("commit" \notin stored /\ NextCommit(line.commit) = counter)
    /\ ordered /\ wpc = "store" /\ "commit" \notin stored => stored = {}
    /\ ordered /\ line.commit # 0 => current # Nothing /\ Content(line) = current

\* Where the reader is, and what its histories say.
ReaderInv ==
    /\ rpc = "idle" => loaded = {}
    /\ rpc = "first" => loaded \subseteq FirstLook
    /\ rpc = "second" => FirstLook \subseteq loaded
    /\ ordered /\ loaded # {} => "first" \in loaded
    /\ rpc # "idle" /\ current # Nothing => current \in held
    /\ rpc # "idle" /\ wpc = "store" => overlap > 0

\* Publications from commit word c to commit word e.
Distance(c, e) == IF c <= e THEN e - c ELSE e - c + CommitWrap - 1

\* As long as the commit word is still the one seen first, so are the fields;
\* once it has changed it does not come back within the call.
SnapshotInv ==
    ordered /\ "first" \in loaded /\ got.first # 0 =>
        /\ Distance(got.first, counter) <= overlap
        /\ wpc # "boot"
        /\ wpc = "store" => got.first # counter
        /\ line.commit = got.first =>
             /\ "count" \in loaded => got.count = line.count
             /\ "detail" \in loaded => got.detail = line.detail
        /\ "second" \in loaded /\ got.second = got.first => <<got.count, got.detail>> \in held

\* Nothing has moved since a quiet call began.
QuietInv ==
    quiet =>
        /\ rpc # "idle" /\ wpc \in {"idle", "off"} /\ Committed
        /\ \A n \in loaded : got[n] = line[FieldOf(n)]

IInv == TypeOK /\ WriterInv /\ ReaderInv /\ SnapshotInv /\ QuietInv

=============================================================================
