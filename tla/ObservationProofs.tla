------------------------- MODULE ObservationProofs -------------------------
(***************************************************************************)
(* For any contents, any number of events and any width of the commit      *)
(* word: a snapshot status_show() calls valid is one publication, and a    *)
(* line CPU3 leaves alone is valid.                                        *)
(***************************************************************************)
EXTENDS Observation, TLAPS

\* Commit words count from 1, and one publication is a distance of one more.
LEMMA CommitWords ==
    /\ \A c \in Commits : NextCommit(c) \in Commits /\ NextCommit(c) # 0 /\ NextCommit(c) # c
    /\ \A c \in Commits : Inverse(c) \in Commits
  BY WrapAssumption DEF NextCommit, Inverse, Commits

\* A publication makes the distance from any commit word greater by one, as long
\* as it stays below a whole round.
LEMMA DistanceGrows ==
    ASSUME NEW c \in Commits, NEW e \in Commits, c # 0, e # 0,
           Distance(c, e) < CommitWrap - 2
    PROVE  /\ Distance(c, NextCommit(e)) = Distance(c, e) + 1
           /\ c # NextCommit(e)
  BY WrapAssumption DEF NextCommit, Distance, Commits

\* A commit word is at distance 0 of itself and at distance 1 of the next.
LEMMA DistanceStarts ==
    ASSUME NEW c \in Commits, c # 0
    PROVE  Distance(c, c) = 0 /\ Distance(c, NextCommit(c)) = 1
  BY WrapAssumption DEF NextCommit, Distance, Commits

\* A line, and a record of loads, are what their fields are.
LEMMA LineRecord ==
    /\ Fields = {"commit", "magic", "count", "detail", "inv"}
    /\ Loads = {"first", "magic", "count", "detail", "second", "inv"}
    /\ ZeroLine \in Line
  BY WrapAssumption, DetailsAssumption, BoundAssumption
     DEF Fields, ZeroLine, Loads, LoadRank, Line, Commits, Magic

\* The initial states satisfy the invariant.
LEMMA InitIInv == Init => IInv
<1> SUFFICES ASSUME Init PROVE IInv
  OBVIOUS
<1> USE WrapAssumption, DetailsAssumption, BoundAssumption, LineRecord DEF Init
<1>1. TypeOK
  <2>1. ordered \in BOOLEAN /\ quiet \in BOOLEAN BY Zenon
  <2>2. got \in Got BY DEF NoLoads, Commits, Got, Magic
  <2> QED BY <2>1, <2>2 DEF TypeOK, Commits
<1>2. WriterInv BY DEF WriterInv, Committed, ZeroLine
<1>3. ReaderInv /\ SnapshotInv /\ QuietInv BY DEF ReaderInv, SnapshotInv, QuietInv
<1> QED BY <1>1, <1>2, <1>3 DEF IInv

\* What a publication begins with is a line.
LEMMA ImageIsLine ==
    ASSUME NEW c \in Commits, NEW n \in 0 .. MaxCount, NEW d \in Details
    PROVE  NewImage(c, n, d) \in Line
<1>1. 0 \in Commits /\ Inverse(c) \in Commits
  BY WrapAssumption, CommitWords DEF Commits
<1> QED BY <1>1 DEF NewImage, Line, Magic

\* A load puts a field of the line into the reader's copy.
LEMMA LoadTyped ==
    ASSUME NEW l \in Line, NEW g \in Got, NEW n \in Loads
    PROVE  /\ [g EXCEPT ![n] = l[FieldOf(n)]] \in Got
           /\ \A m \in Loads : [g EXCEPT ![n] = l[FieldOf(n)]][m] =
                               IF m = n THEN l[FieldOf(n)] ELSE g[m]
<1>1. CASE n = "first" BY <1>1, LineRecord DEF Line, Got, FieldOf
<1>2. CASE n = "second" BY <1>2, LineRecord DEF Line, Got, FieldOf
<1>3. CASE n = "magic" BY <1>3, LineRecord DEF Line, Got, FieldOf
<1>4. CASE n = "count" BY <1>4, LineRecord DEF Line, Got, FieldOf
<1>5. CASE n = "detail" BY <1>5, LineRecord DEF Line, Got, FieldOf
<1>6. CASE n = "inv" BY <1>6, LineRecord DEF Line, Got, FieldOf
<1> QED BY <1>1, <1>2, <1>3, <1>4, <1>5, <1>6, LineRecord

\* A store changes one field of the line.
LEMMA StoreTyped ==
    ASSUME NEW l \in Line, NEW i \in Line, NEW f \in Fields
    PROVE  /\ [l EXCEPT ![f] = i[f]] \in Line
           /\ \A g \in Fields : [l EXCEPT ![f] = i[f]][g] = IF g = f THEN i[f] ELSE l[g]
<1>1. CASE f = "commit" BY <1>1, LineRecord DEF Line
<1>2. CASE f = "magic" BY <1>2, LineRecord DEF Line
<1>3. CASE f = "count" BY <1>3, LineRecord DEF Line
<1>4. CASE f = "detail" BY <1>4, LineRecord DEF Line
<1>5. CASE f = "inv" BY <1>5, LineRecord DEF Line
<1> QED BY <1>1, <1>2, <1>3, <1>4, <1>5, LineRecord

\* The two kinds of publication.
Publishes ==
    \/ wpc = "boot" /\ PublishBegin(0, 0, NoDetail)
    \/ \E d \in Details : wpc = "idle" /\ count < MaxCount /\ PublishBegin(counter, count + 1, d)

\* A publication begins with a new image and a new commit word.
LEMMA PublicationBegins ==
    ASSUME TypeOK, Publishes
    PROVE  /\ counter' \in Commits /\ counter' # 0 /\ count' \in 0 .. MaxCount
           /\ counter' = IF wpc = "boot" THEN NextCommit(0) ELSE NextCommit(counter)
           /\ \E d \in Details : image' = NewImage(counter', count', d)
           /\ image' \in Line /\ stored' = {} /\ wpc' = "store"
           /\ overlap < CommitWrap - 2
           /\ overlap' = IF rpc = "idle" THEN overlap ELSE overlap + 1
           /\ quiet' = FALSE
           /\ UNCHANGED <<ordered, line, current, rpc, got, loaded, held>>
<1> USE TypeOK, CommitWords, DetailsAssumption, BoundAssumption DEF TypeOK, rvars
<1>1. CASE wpc = "boot" /\ PublishBegin(0, 0, NoDetail)
  <2>1. 0 \in Commits BY WrapAssumption DEF Commits
  <2>2. counter' = NextCommit(0) /\ count' = 0 /\ image' = NewImage(counter', count', NoDetail)
    BY <1>1 DEF PublishBegin
  <2> QED BY <1>1, <2>1, <2>2, ImageIsLine DEF PublishBegin
<1>2. ASSUME NEW d \in Details,
             wpc = "idle" /\ count < MaxCount /\ PublishBegin(counter, count + 1, d)
      PROVE  /\ counter' \in Commits /\ counter' # 0 /\ count' \in 0 .. MaxCount
             /\ counter' = NextCommit(counter)
             /\ image' = NewImage(counter', count', d) /\ image' \in Line
  <2>1. counter' = NextCommit(counter) /\ count' = count + 1 /\ image' = NewImage(counter', count', d)
    BY <1>2 DEF PublishBegin
  <2> QED BY <1>2, <2>1, ImageIsLine
<1> QED BY <1>1, <1>2 DEF Publishes, PublishBegin

\* Either look at the line loads one field of it.
LoadStep(n) ==
    /\ n \in Loads /\ n \notin loaded /\ InOrder(n)
    /\ rpc = "first" => n \in FirstLook
    /\ rpc \in {"first", "second"}
    /\ got' = [got EXCEPT ![n] = line[FieldOf(n)]]
    /\ loaded' = loaded \cup {n}
    /\ UNCHANGED <<ordered, line, wvars, rpc, hvars>>

\* The cases of a step.
LEMMA Cases ==
    ASSUME [Next]_vars
    PROVE  \/ Publishes \/ Commit \/ Off \/ Start \/ ReadBegin \/ LookAgain \/ ReadEnd
           \/ \E f \in Fields : Store(f)
           \/ \E n \in Loads : LoadStep(n)
           \/ UNCHANGED vars
<1>1. ASSUME NEW n \in Loads, LoadFirst(n) PROVE LoadStep(n)
  BY <1>1 DEF LoadFirst, LoadStep
<1>2. ASSUME NEW n \in Loads, LoadSecond(n) PROVE LoadStep(n)
  BY <1>2 DEF LoadSecond, LoadStep
<1> QED BY <1>1, <1>2 DEF Next, Cpu3, Linux, Reset, Record, Publishes

\* Type correctness is preserved.
LEMMA NextTypeOK == TypeOK /\ WriterInv /\ ReaderInv /\ [Next]_vars => TypeOK'
<1> SUFFICES ASSUME TypeOK, WriterInv, ReaderInv, [Next]_vars PROVE TypeOK'
  OBVIOUS
<1> USE DEF TypeOK
<1>1. CASE Publishes
  <2>1. quiet' \in BOOLEAN BY <1>1, PublicationBegins, Zenon
  <2>2. overlap' \in 0 .. CommitWrap - 2
    <3>1. overlap \in 0 .. CommitWrap - 2 /\ overlap < CommitWrap - 2
          /\ (overlap' = overlap \/ overlap' = overlap + 1)
      BY <1>1, PublicationBegins
    <3> QED BY <3>1, WrapAssumption
  <2>3. /\ counter' \in Commits /\ count' \in 0 .. MaxCount /\ image' \in Line
        /\ stored' = {} /\ wpc' = "store"
        /\ UNCHANGED <<ordered, line, current, rpc, got, loaded, held>>
    BY <1>1, PublicationBegins
  <2> QED BY <2>1, <2>2, <2>3
<1>2. CASE Commit
  <2>1. Content(image) \in Contents BY DEF Content, Contents, Line
  <2>2. [line EXCEPT !.commit = counter] \in Line BY DEF Line
  <2> QED BY <1>2, <2>1, <2>2 DEF Commit, rvars
<1>3. CASE Off BY <1>3 DEF Off, rvars, hvars
<1>4. CASE Start BY <1>4, LineRecord DEF Start, rvars, hvars
<1>5. CASE ReadBegin
  <2>1. held' \subseteq Contents BY <1>5 DEF ReadBegin
  <2>2. quiet' \in BOOLEAN BY <1>5, Zenon DEF ReadBegin
  <2>3. overlap' \in 0 .. CommitWrap - 2 BY <1>5, WrapAssumption DEF ReadBegin
  <2> QED BY <1>5, <2>1, <2>2, <2>3 DEF ReadBegin, wvars
<1>6. CASE LookAgain BY <1>6 DEF LookAgain, wvars, hvars
<1>7. CASE ReadEnd
  <2>1. NoLoads \in Got
    BY WrapAssumption, DetailsAssumption, BoundAssumption DEF NoLoads, Got, Commits, Magic
  <2>2. quiet' \in BOOLEAN BY <1>7, Zenon DEF ReadEnd
  <2> QED BY <1>7, <2>1, <2>2, WrapAssumption DEF ReadEnd, wvars
<1>8. ASSUME NEW f \in Fields, Store(f) PROVE TypeOK'
  BY <1>8, StoreTyped DEF Store, rvars, hvars
<1>9. ASSUME NEW n \in Loads, LoadStep(n) PROVE TypeOK'
  BY <1>9, LoadTyped DEF LoadStep, wvars, hvars
<1>10. CASE UNCHANGED vars BY <1>10 DEF vars, wvars, rvars, hvars
<1> QED BY <1>1, <1>2, <1>3, <1>4, <1>5, <1>6, <1>7, <1>8, <1>9, <1>10, Cases

\* What the line holds is preserved: a publication begins on a committed or an
\* empty line, clears the commit word, and commits what it stored.
LEMMA NextWriterInv == TypeOK /\ WriterInv /\ ReaderInv /\ [Next]_vars => WriterInv'
<1> SUFFICES ASSUME TypeOK, WriterInv, ReaderInv, [Next]_vars PROVE WriterInv'
  OBVIOUS
<1>1. CASE Publishes
  <2>1. wpc \in {"boot", "idle"} BY <1>1 DEF Publishes
  <2>2. line.commit = 0 \/ NextCommit(line.commit) = counter'
    BY <1>1, <2>1, PublicationBegins DEF WriterInv, Committed, ZeroLine
  <2>3. image' = NewImage(counter', count', image'.detail)
    BY <1>1, PublicationBegins DEF NewImage
  <2> QED BY <1>1, <2>2, <2>3, PublicationBegins DEF WriterInv, Committed, Content
<1>2. CASE Commit
  <2>1. line' = [line EXCEPT !.commit = counter] /\ current' = <<image.count, image.detail>>
        /\ wpc' = "idle" /\ UNCHANGED <<ordered, counter>>
    BY <1>2 DEF Commit, Content
  <2>2. \A f \in Fields : line[f] = image[f] BY <1>2 DEF Commit, WriterInv
  <2>3. image.magic = "magic" /\ image.inv = Inverse(counter) /\ counter # 0
    BY <1>2 DEF Commit, WriterInv, NewImage
  <2>4. /\ line'.commit = counter /\ line'.magic = "magic" /\ line'.inv = Inverse(counter)
        /\ line'.count = image.count /\ line'.detail = image.detail
    BY <2>1, <2>2, <2>3, LineRecord DEF TypeOK, Line
  <2> QED BY <2>1, <2>3, <2>4 DEF WriterInv, Committed, Content, Nothing
<1>3. CASE Off BY <1>3 DEF Off, WriterInv, Committed, Content
<1>4. CASE Start BY <1>4 DEF Start, WriterInv, Committed, Content, ZeroLine
<1>5. CASE ReadBegin BY <1>5 DEF ReadBegin, WriterInv, Committed, wvars
<1>6. CASE LookAgain BY <1>6 DEF LookAgain, WriterInv, Committed, wvars
<1>7. CASE ReadEnd BY <1>7 DEF ReadEnd, WriterInv, Committed, wvars
<1>8. ASSUME NEW f \in Fields, Store(f) PROVE WriterInv'
  <2>1. /\ wpc = "store" /\ wpc' = "store" /\ stored' = stored \cup {f}
        /\ \A g \in Fields : line'[g] = IF g = f THEN image[f] ELSE line[g]
        /\ UNCHANGED <<ordered, counter, count, image, current>>
    BY <1>8, StoreTyped DEF Store, TypeOK
  <2>2. image.commit = 0 BY <2>1 DEF WriterInv, NewImage
  <2>3. ordered => f = "commit" \/ "commit" \in stored
    BY <1>8, LineRecord DEF Store, StoreRank
  <2>4. \A g \in stored' : line'[g] = image'[g]
    BY <2>1 DEF WriterInv, TypeOK
  <2>5. line'.commit = 0 \/ (f # "commit" /\ line'.commit = line.commit)
    BY <2>1, <2>2, LineRecord
  <2>6. ordered => line'.commit = 0
    BY <2>1, <2>2, <2>3, <2>5 DEF WriterInv
  <2> QED BY <2>1, <2>3, <2>4, <2>5, <2>6 DEF WriterInv
<1>9. ASSUME NEW n \in Loads, LoadStep(n) PROVE WriterInv'
  BY <1>9 DEF LoadStep, WriterInv, Committed, wvars
<1>10. CASE UNCHANGED vars BY <1>10 DEF vars, wvars, WriterInv, Committed
<1> QED BY <1>1, <1>2, <1>3, <1>4, <1>5, <1>6, <1>7, <1>8, <1>9, <1>10, Cases

\* Where the reader is, and its histories.
LEMMA NextReaderInv == TypeOK /\ WriterInv /\ ReaderInv /\ [Next]_vars => ReaderInv'
<1> SUFFICES ASSUME TypeOK, WriterInv, ReaderInv, [Next]_vars PROVE ReaderInv'
  OBVIOUS
<1>1. CASE Publishes
  <2>1. rpc # "idle" => overlap' = overlap + 1 /\ overlap \in 0 .. CommitWrap - 2
    BY <1>1, PublicationBegins DEF TypeOK
  <2>2. rpc # "idle" => overlap' > 0 BY <2>1, WrapAssumption
  <2> QED BY <1>1, <2>2, PublicationBegins DEF ReaderInv
<1>2. CASE Commit BY <1>2 DEF Commit, ReaderInv, rvars
<1>3. CASE Off BY <1>3 DEF Off, ReaderInv, rvars, hvars
<1>4. CASE Start BY <1>4 DEF Start, ReaderInv, rvars, hvars
<1>5. CASE ReadBegin BY <1>5 DEF ReadBegin, ReaderInv, wvars
<1>6. CASE LookAgain BY <1>6 DEF LookAgain, ReaderInv, wvars, hvars
<1>7. CASE ReadEnd BY <1>7 DEF ReadEnd, ReaderInv, wvars
<1>8. ASSUME NEW f \in Fields, Store(f) PROVE ReaderInv'
  BY <1>8 DEF Store, ReaderInv, rvars, hvars
<1>9. ASSUME NEW n \in Loads, LoadStep(n) PROVE ReaderInv'
  <2>1. ordered => n = "first" \/ "first" \in loaded
    BY <1>9, LineRecord DEF LoadStep, InOrder, LoadRank
  <2> QED BY <1>9, <2>1 DEF LoadStep, ReaderInv, wvars, hvars
<1>10. CASE UNCHANGED vars BY <1>10 DEF vars, wvars, rvars, hvars, ReaderInv
<1> QED BY <1>1, <1>2, <1>3, <1>4, <1>5, <1>6, <1>7, <1>8, <1>9, <1>10, Cases

\* The fields loaded so far are those of the first commit word, as long as the
\* line still has it; and a line that lost it does not get it back.
LEMMA NextSnapshotInv ==
    TypeOK /\ WriterInv /\ ReaderInv /\ SnapshotInv /\ [Next]_vars => SnapshotInv'
<1> SUFFICES ASSUME TypeOK, WriterInv, ReaderInv, SnapshotInv, [Next]_vars,
                    ordered', "first" \in loaded', got'.first # 0
             PROVE  /\ Distance(got'.first, counter') <= overlap'
                    /\ wpc' # "boot"
                    /\ wpc' = "store" => got'.first # counter'
                    /\ line'.commit = got'.first =>
                         /\ "count" \in loaded' => got'.count = line'.count
                         /\ "detail" \in loaded' => got'.detail = line'.detail
                    /\ "second" \in loaded' /\ got'.second = got'.first
                         => <<got'.count, got'.detail>> \in held'
  BY DEF SnapshotInv
<1> DEFINE Goal == /\ Distance(got'.first, counter') <= overlap'
                   /\ wpc' # "boot"
                   /\ wpc' = "store" => got'.first # counter'
                   /\ line'.commit = got'.first =>
                        /\ "count" \in loaded' => got'.count = line'.count
                        /\ "detail" \in loaded' => got'.detail = line'.detail
                   /\ "second" \in loaded' /\ got'.second = got'.first
                        => <<got'.count, got'.detail>> \in held'
<1>0. got.first \in Commits /\ counter \in Commits BY DEF TypeOK, Got
<1>1. CASE Publishes
  <2>1. UNCHANGED <<ordered, line, got, loaded, held, rpc>> BY <1>1, PublicationBegins
  <2>2. wpc = "idle" BY <1>1, <2>1 DEF Publishes, SnapshotInv
  <2>3. counter # 0 /\ counter' = NextCommit(counter) /\ overlap < CommitWrap - 2
    BY <1>1, <2>2, PublicationBegins DEF WriterInv
  <2>4. Distance(got.first, counter) <= overlap BY <2>1 DEF SnapshotInv
  <2>5. Distance(got.first, counter) < CommitWrap - 2
    BY <2>3, <2>4, <1>0, WrapAssumption DEF Distance, TypeOK, Commits
  <2>6. /\ Distance(got.first, counter') = Distance(got.first, counter) + 1
        /\ got.first # counter'
    BY <1>0, <2>1, <2>3, <2>5, DistanceGrows
  <2>7. overlap' = overlap + 1
    BY <1>1, <2>1, PublicationBegins DEF ReaderInv
  <2>8. Distance(got'.first, counter') <= overlap'
    BY <2>1, <2>4, <2>6, <2>7, <1>0, WrapAssumption DEF Distance, TypeOK, Commits
  <2>9. wpc' = "store" BY <1>1, PublicationBegins
  <2> QED BY <2>1, <2>6, <2>8, <2>9 DEF SnapshotInv
<1>2. CASE Commit
  <2>1. /\ wpc = "store" /\ wpc' = "idle" /\ line'.commit = counter
        /\ UNCHANGED <<ordered, counter, got, loaded, overlap>> /\ held \subseteq held'
    BY <1>2 DEF Commit, rvars, TypeOK, Line
  <2> QED BY <2>1 DEF SnapshotInv
<1>3. CASE Off BY <1>3 DEF Off, SnapshotInv, rvars, hvars
<1>4. CASE Start BY <1>4 DEF Start, ReaderInv, rvars
<1>5. CASE ReadBegin BY <1>5 DEF ReadBegin, ReaderInv
<1>6. CASE LookAgain BY <1>6 DEF LookAgain, SnapshotInv, wvars, hvars
<1>7. CASE ReadEnd BY <1>7 DEF ReadEnd
<1>8. ASSUME NEW f \in Fields, Store(f) PROVE Goal
  <2>1. /\ wpc = "store" /\ wpc' = "store"
        /\ \A g \in Fields : line'[g] = IF g = f THEN image[f] ELSE line[g]
        /\ UNCHANGED <<ordered, counter, got, loaded, overlap, held>>
    <3>1. \A g \in Fields : line'[g] = IF g = f THEN image[f] ELSE line[g]
      BY <1>8, StoreTyped DEF Store, TypeOK
    <3>2. wpc = "store" /\ UNCHANGED <<ordered, wpc, counter, got, loaded, overlap, held>>
      BY <1>8, Zenon DEF Store, rvars, hvars
    <3> QED BY <3>1, <3>2, Zenon
  <2>2. image.commit = 0 BY <2>1 DEF WriterInv, NewImage
  <2>3. f = "commit" \/ "commit" \in stored
    BY <1>8, <2>1, LineRecord DEF Store, StoreRank
  <2>4. line'.commit = 0
    BY <2>1, <2>2, <2>3, LineRecord DEF WriterInv
  <2> QED BY <2>1, <2>4 DEF SnapshotInv
<1>9. ASSUME NEW n \in Loads, LoadStep(n) PROVE Goal
  <2>1. /\ n \notin loaded /\ loaded' = loaded \cup {n} /\ rpc \in {"first", "second"}
        /\ \A m \in Loads : got'[m] = IF m = n THEN line[FieldOf(n)] ELSE got[m]
        /\ UNCHANGED <<ordered, line, wpc, counter, current, rpc, overlap, held>>
    <3>1. \A m \in Loads : got'[m] = IF m = n THEN line[FieldOf(n)] ELSE got[m]
      BY <1>9, LoadTyped DEF LoadStep, TypeOK
    <3>2. /\ n \notin loaded /\ loaded' = loaded \cup {n} /\ rpc \in {"first", "second"}
          /\ UNCHANGED <<ordered, line, wpc, counter, current, rpc, overlap, held>>
      BY <1>9, Zenon DEF LoadStep, wvars, hvars
    <3> QED BY <3>1, <3>2, Zenon
  <2>2. CASE n = "first"
    <3>1. loaded = {} BY <2>1, <2>2 DEF ReaderInv
    <3>2. got'.first = line.commit /\ line.commit # 0
      BY <2>1, <2>2, LineRecord DEF FieldOf
    <3>3. \/ wpc # "store" /\ wpc # "boot" /\ counter = line.commit
          \/ wpc = "store" /\ counter = NextCommit(line.commit)
      BY <3>2 DEF WriterInv, Committed, ZeroLine, TypeOK
    <3>4. line.commit \in Commits BY DEF TypeOK, Line
    <3>5. wpc = "store" => overlap >= 1
      BY <2>1, WrapAssumption DEF ReaderInv, TypeOK
    <3>6. Distance(got'.first, counter') <= overlap' /\ (wpc = "store" => line.commit # counter)
      BY <2>1, <3>2, <3>3, <3>4, <3>5, DistanceStarts, CommitWords, WrapAssumption DEF TypeOK
    <3> QED BY <2>1, <2>2, <3>1, <3>2, <3>3, <3>6
  <2>3. CASE n # "first"
    <3>1. "first" \in loaded /\ got'.first = got.first BY <2>1, <2>3, LineRecord
    <3>2. /\ Distance(got'.first, counter') <= overlap' /\ wpc' # "boot"
          /\ wpc' = "store" => got'.first # counter'
      BY <2>1, <3>1 DEF SnapshotInv
    <3>3. line'.commit = got'.first =>
             /\ "count" \in loaded' => got'.count = line'.count
             /\ "detail" \in loaded' => got'.detail = line'.detail
      BY <2>1, <3>1, LineRecord DEF SnapshotInv, FieldOf
    <3>4. CASE n = "second"
      <4>1. "count" \in loaded /\ "detail" \in loaded
        BY <1>9, <2>1, <3>4 DEF ReaderInv, LoadStep, FirstLook
      <4>2. got'.second = line.commit /\ got'.count = got.count /\ got'.detail = got.detail
        BY <2>1, <3>4, LineRecord DEF FieldOf
      <4>3. line.commit = got.first => <<got.count, got.detail>> = current /\ current # Nothing
        BY <2>1, <3>1, <4>1 DEF SnapshotInv, WriterInv, Content
      <4>4. line.commit = got.first => <<got.count, got.detail>> \in held
        BY <2>1, <4>3 DEF ReaderInv
      <4> QED BY <2>1, <3>1, <3>2, <3>3, <4>2, <4>4
    <3>5. CASE n # "second"
      <4>1. "second" \in loaded' => rpc = "second" /\ "count" \in loaded /\ "detail" \in loaded
        BY <2>1, <3>5 DEF ReaderInv, FirstLook
      <4>2. "second" \in loaded' =>
              got'.second = got.second /\ got'.count = got.count /\ got'.detail = got.detail
        BY <2>1, <3>5, <4>1, LineRecord
      <4> QED BY <2>1, <3>1, <3>2, <3>3, <3>5, <4>2 DEF SnapshotInv
    <3> QED BY <3>4, <3>5
  <2> QED BY <2>2, <2>3
<1>10. CASE UNCHANGED vars BY <1>10 DEF vars, wvars, rvars, hvars, SnapshotInv
<1> QED BY <1>1, <1>2, <1>3, <1>4, <1>5, <1>6, <1>7, <1>8, <1>9, <1>10, Cases

\* A quiet call finds and keeps a committed line.
LEMMA NextQuietInv == TypeOK /\ WriterInv /\ ReaderInv /\ QuietInv /\ [Next]_vars => QuietInv'
<1> SUFFICES ASSUME TypeOK, WriterInv, ReaderInv, QuietInv, [Next]_vars, quiet'
             PROVE  /\ rpc' # "idle" /\ wpc' \in {"idle", "off"} /\ Committed'
                    /\ \A n \in loaded' : got'[n] = line'[FieldOf(n)]
  BY DEF QuietInv
<1>1. CASE Publishes BY <1>1, PublicationBegins
<1>2. CASE Commit BY <1>2 DEF Commit, QuietInv
<1>3. CASE Off BY <1>3 DEF Off, QuietInv, Committed, rvars, hvars
<1>4. CASE Start BY <1>4 DEF Start, QuietInv, rvars, hvars
<1>5. CASE ReadBegin
  <2>1. wpc \in {"idle", "off"} /\ current # Nothing BY <1>5 DEF ReadBegin
  <2> QED BY <1>5, <2>1 DEF ReadBegin, WriterInv, Committed, ReaderInv, wvars
<1>6. CASE LookAgain BY <1>6 DEF LookAgain, QuietInv, Committed, wvars, hvars
<1>7. CASE ReadEnd BY <1>7 DEF ReadEnd
<1>8. ASSUME NEW f \in Fields, Store(f) PROVE FALSE
  BY <1>8 DEF Store, QuietInv, hvars
<1>9. ASSUME NEW n \in Loads, LoadStep(n)
      PROVE  /\ rpc' # "idle" /\ wpc' \in {"idle", "off"} /\ Committed'
             /\ \A m \in loaded' : got'[m] = line'[FieldOf(m)]
  <2>1. /\ loaded' = loaded \cup {n}
        /\ \A m \in Loads : got'[m] = IF m = n THEN line[FieldOf(n)] ELSE got[m]
    BY <1>9, LoadTyped DEF LoadStep, TypeOK
  <2>2. UNCHANGED <<line, wpc, counter, current, rpc, quiet>> BY <1>9 DEF LoadStep, wvars, hvars
  <2>3. \A m \in loaded' : got'[m] = line'[FieldOf(m)]
    BY <2>1, <2>2 DEF QuietInv, TypeOK
  <2> QED BY <2>2, <2>3 DEF QuietInv, Committed
<1>10. CASE UNCHANGED vars BY <1>10 DEF vars, wvars, rvars, hvars, QuietInv, Committed
<1> QED BY <1>1, <1>2, <1>3, <1>4, <1>5, <1>6, <1>7, <1>8, <1>9, <1>10, Cases

\* The inductive invariant of an observation line holds throughout.
THEOREM ObservationInvariant == Spec => []IInv
<1>1. IInv /\ [Next]_vars => IInv'
  BY NextTypeOK, NextWriterInv, NextReaderInv, NextSnapshotInv, NextQuietInv DEF IInv
<1> QED BY <1>1, InitIInv, PTL DEF Spec

\* Type correctness.
THEOREM TypeCorrect == Spec => []TypeOK
<1>1. IInv => TypeOK BY DEF IInv
<1> QED BY <1>1, ObservationInvariant, PTL

\* What status_show() reports as valid is one publication, in place at some time
\* during the call, if the accesses keep their order.
THEOREM SnapshotsAreStable == Spec => []StableSnapshot
<1>1. IInv => StableSnapshot
  BY LineRecord DEF IInv, SnapshotInv, StableSnapshot, Valid
<1> QED BY <1>1, ObservationInvariant, PTL

\* A line that CPU3 leaves alone is reported as valid, with its last content.
THEOREM QuietLinesAreValid == Spec => []QuietLineIsValid
<1>1. IInv => QuietLineIsValid
  <2> SUFFICES ASSUME IInv, quiet, loaded = Loads
               PROVE  Valid /\ <<got.count, got.detail>> = current
    BY DEF QuietLineIsValid
  <2>1. /\ got.first = line.commit /\ got.second = line.commit /\ got.magic = line.magic
        /\ got.count = line.count /\ got.detail = line.detail /\ got.inv = line.inv
    BY LineRecord DEF IInv, QuietInv, FieldOf
  <2>2. Committed /\ counter # 0 BY DEF IInv, QuietInv, WriterInv
  <2> QED BY <2>1, <2>2 DEF Valid, Committed, Content
<1> QED BY <1>1, ObservationInvariant, PTL

=============================================================================
