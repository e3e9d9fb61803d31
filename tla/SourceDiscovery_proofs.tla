----------------------- MODULE SourceDiscovery_proofs -----------------------
(***************************************************************************)
(* The discovery of sources, for every number of sources, batches, admins  *)
(* and every threshold.                                                    *)
(*                                                                         *)
(* Each version of a row, committed, flushed or read, has earned its       *)
(* status, and a later version stands for no fewer references than an      *)
(* earlier one: a count written from a stale row is too low, never too     *)
(* high.  A row has one writer at a time, and what a batch has read of its *)
(* own version is that version.  Together these say what a status and a    *)
(* contract that were read may still miss.                                 *)
(***************************************************************************)
EXTENDS SourceDiscovery, TLAPS

\* What a batch has read, and what a request or job has.
Reads == [step : {"tracking"}, source : Sources, row : SourceRow]
Visits == [step : {"activate", "auto", "dismiss"}, source : Sources, row : SourceRow]

\* The status of a row is paid for by the references its writes stand for.
Earned(row) ==
    /\ row.mentions <= row.refs
    /\ row.status = "recommended" => row.refs >= RecommendAt
    /\ row.status = "none" => row.refs = 0

\* What stays true of a row from one version to a later one.
Later(old, new) ==
    old.refs <= new.refs /\ (new.status = "none" => old.status = "none")

SourceInv(s) ==
    /\ Earned(sources[s])
    /\ s \notin reopened => sources[s].contracts = 0 \/ sources[s].status = "activated"
    /\ s \notin reopened \cup outpaced => sources[s].contracts <= 1

FlushInv(b, s) ==
    flushed[b][s] # Unwritten =>
       /\ FreeFor(b, s)
       /\ Earned(flushed[b][s])
       /\ Later(sources[s], flushed[b][s])
       /\ s \notin reopened => \/ flushed[b][s].contracts = 0
                               \/ flushed[b][s].status = "activated"
                               \/ sources[s].status = "activated"
       /\ s \notin reopened \cup outpaced => flushed[b][s].contracts <= 1

ReadInv(b) ==
    batch[b].step = "tracking" =>
       /\ Earned(batch[b].row)
       /\ batch[b].row.contracts = 0
       /\ Later(batch[b].row, Seen(b, batch[b].source))
       /\ flushed[b][batch[b].source] # Unwritten => batch[b].row = flushed[b][batch[b].source]

VisitInv(a) ==
    admin[a].step \in {"activate", "auto"} /\ admin[a].source \notin reopened
       => admin[a].row.contracts = 0

DiscoveryInv ==
    /\ DiscoveryTypeOK
    /\ \A s \in Sources : SourceInv(s)
    /\ \A b \in Batches, s \in Sources : FlushInv(b, s)
    /\ \A b \in Batches : ReadInv(b)
    /\ \A a \in Admins : VisitInv(a)

-----------------------------------------------------------------------------
(* What a row, a read and a visit are                                      *)

LEMMA RowTypes ==
  /\ NoRow \in SourceRow
  /\ \A row \in SourceRow : /\ row # Unwritten
                            /\ row.status \in Statuses /\ row.mentions \in Nat
                            /\ row.contracts \in Nat /\ row.refs \in Nat
  BY DEF NoRow, SourceRow, Unwritten, Statuses

LEMMA HeldRead ==
  ASSUME DiscoveryTypeOK, NEW b \in Batches, batch[b].step = "tracking"
  PROVE  /\ batch[b] \in Reads /\ batch[b].source \in Sources /\ batch[b].row \in SourceRow
<1>1. batch[b] \in {Ready, Broken} \cup Reads
  BY DEF DiscoveryTypeOK, Reads
<1>2. Ready.step = "ready" /\ Broken.step = "broken"
  BY DEF Ready, Broken
<1>3. \A r \in Reads : r.source \in Sources /\ r.row \in SourceRow
  BY DEF Reads
<1> QED
  BY <1>1, <1>2, <1>3

LEMMA HeldVisit ==
  ASSUME DiscoveryTypeOK, NEW a \in Admins, admin[a].step \in {"activate", "auto", "dismiss"}
  PROVE  admin[a] \in Visits /\ admin[a].source \in Sources /\ admin[a].row \in SourceRow
<1>1. admin[a] \in {NoVisit} \cup Visits
  BY DEF DiscoveryTypeOK, Visits
<1>2. NoVisit.step = "away"
  BY DEF NoVisit
<1>3. \A v \in Visits : v.source \in Sources /\ v.row \in SourceRow
  BY DEF Visits
<1> QED
  BY <1>1, <1>2, <1>3

LEMMA SeenType ==
  ASSUME DiscoveryTypeOK, NEW b \in Batches, NEW s \in Sources
  PROVE  /\ sources[s] \in SourceRow /\ Seen(b, s) \in SourceRow
         /\ flushed[b][s] # Unwritten => flushed[b][s] \in SourceRow
  BY DEF DiscoveryTypeOK, Seen

\* What a batch writes from a row it read, over the row as it is.
LEMMA TrackedRow ==
  ASSUME DiscoveryAssumption, NEW row \in SourceRow, NEW old \in SourceRow, NEW activates \in BOOLEAN,
         Earned(row), Earned(old), Later(old, row), old.status # "none",
         activates => Promoted(old.status, old.mentions + 1) = "recommended"
  PROVE  LET new == Tracked(row, old, activates) IN
         /\ new \in SourceRow /\ Earned(new) /\ Later(row, new)
         /\ new.contracts = IF activates THEN row.contracts + 1 ELSE row.contracts
         /\ activates => new.status = "activated"
<1> DEFINE new == Tracked(row, old, activates)
           n == old.mentions + 1
           status == IF activates THEN "activated" ELSE Promoted(old.status, n)
<1>1. /\ old.status \in Statuses /\ row.status \in Statuses
      /\ old.mentions \in Nat /\ row.contracts \in Nat /\ row.refs \in Nat /\ old.refs \in Nat
  BY RowTypes
<1>2. /\ new.status = IF status = old.status THEN row.status ELSE status
      /\ new.mentions = n /\ new.refs = row.refs + 1
      /\ new.contracts = row.contracts + (IF activates THEN 1 ELSE 0)
      /\ new = [status |-> new.status, mentions |-> new.mentions,
                contracts |-> new.contracts, refs |-> new.refs]
  BY DEF Tracked
<1>3. status \in Statuses \ {"none"} /\ row.status # "none"
  BY <1>1 DEF Promoted, Statuses, Later
<1>4. n \in Nat /\ n <= row.refs + 1 /\ row.refs + 1 \in Nat
  BY <1>1 DEF Earned, Later
<1>5. new.status \in Statuses \ {"none"}
  BY <1>1, <1>2, <1>3
<1>6. new \in SourceRow
  <2>1. new.mentions \in Nat /\ new.refs \in Nat /\ new.contracts \in Nat
    BY <1>1, <1>2, <1>4
  <2> QED
    BY <1>2, <1>5, <2>1 DEF SourceRow
<1>7. new.status = "recommended" => new.refs >= RecommendAt
  <2>1. CASE new.status = "recommended" /\ status = old.status
    BY <2>1, <1>1, <1>2 DEF Earned, DiscoveryAssumption
  <2>2. CASE new.status = "recommended" /\ status # old.status
    <3>1. Promoted(old.status, n) = "recommended" /\ old.status # "recommended"
      BY <2>2, <1>2
    <3>2. n >= RecommendAt
      BY <3>1 DEF Promoted
    <3> QED
      BY <3>2, <1>2, <1>4 DEF DiscoveryAssumption
  <2> QED
    BY <2>1, <2>2
<1>8. Earned(new)
  BY <1>2, <1>4, <1>5, <1>7 DEF Earned
<1>9. Later(row, new)
  BY <1>1, <1>2, <1>5 DEF Later
<1>10. activates => new.status = "activated"
  <2>1. activates => old.status # "activated"
    BY DEF Promoted
  <2> QED
    BY <1>2, <2>1
<1>11. new.contracts = IF activates THEN row.contracts + 1 ELSE row.contracts
  BY <1>1, <1>2
<1> QED
  BY <1>6, <1>8, <1>9, <1>10, <1>11

-----------------------------------------------------------------------------
(* Types                                                                   *)

LEMMA DiscoveryTypeNext ==
  ASSUME DiscoveryAssumption, DiscoveryInv, [DiscoveryNext]_discoveryVars
  PROVE  DiscoveryTypeOK'
<1> DEFINE Writes == [Sources -> SourceRow \cup {Unwritten}]
           Steps == {Ready, Broken} \cup Reads
<1>a. /\ DiscoveryTypeOK
      /\ sources \in [Sources -> SourceRow] /\ flushed \in [Batches -> Writes]
      /\ batch \in [Batches -> Steps] /\ admin \in [Admins -> {NoVisit} \cup Visits]
      /\ reopened \subseteq Sources /\ outpaced \subseteq Sources
  BY DEF DiscoveryInv, DiscoveryTypeOK, Reads, Visits
<1>b. ASSUME sources' \in [Sources -> SourceRow], flushed' \in [Batches -> Writes],
             batch' \in [Batches -> Steps], admin' \in [Admins -> {NoVisit} \cup Visits],
             reopened' \subseteq Sources, outpaced' \subseteq Sources
      PROVE  DiscoveryTypeOK'
  BY <1>b DEF DiscoveryTypeOK, Reads, Visits
<1>c. NothingFlushed \in Writes
  BY DEF NothingFlushed
<1>d. ASSUME Reopen PROVE reopened' \subseteq Sources
  BY <1>a, <1>d DEF Reopen
<1>1. CASE UNCHANGED discoveryVars
  BY <1>1, <1>a, <1>b DEF discoveryVars
<1>2. ASSUME NEW b \in Batches, NEW s \in Sources, TrackRead(b, s) PROVE DiscoveryTypeOK'
  <2>1. [step |-> "tracking", source |-> s, row |-> Seen(b, s)] \in Reads
    BY <1>a, SeenType DEF Reads
  <2>2. batch' \in [Batches -> Steps]
    BY <1>2, <1>a, <2>1 DEF TrackRead
  <2> QED
    BY <1>2, <1>a, <1>b, <2>2 DEF TrackRead
<1>3. ASSUME NEW b \in Batches, TrackWrite(b) PROVE DiscoveryTypeOK'
  <2> DEFINE s == batch[b].source
             old == batch[b].row
  <2>1. /\ batch[b].step = "tracking" /\ s \in Sources /\ old \in SourceRow
        /\ TrackInsert(b, s) \/ TrackUpdate(b, s)
        /\ UNCHANGED <<sources, admin, reopened>>
    BY <1>3, <1>a, HeldRead DEF TrackWrite
  <2>2. CASE TrackInsert(b, s)
    <3>1. [status |-> "discovered", mentions |-> 1, contracts |-> 0, refs |-> 1] \in SourceRow
      BY DEF SourceRow, Statuses
    <3>2. flushed' \in [Batches -> Writes]
      <4>1. CASE sources[s].status = "none"
        BY <4>1, <2>1, <2>2, <3>1, <1>a DEF TrackInsert
      <4>2. CASE sources[s].status # "none"
        BY <4>2, <2>2, <1>a, <1>c DEF TrackInsert
      <4> QED
        BY <4>1, <4>2
    <3>3. batch' \in [Batches -> Steps]
      BY <2>2, <1>a DEF TrackInsert
    <3> QED
      BY <2>1, <2>2, <3>2, <3>3, <1>a, <1>b DEF TrackInsert
  <2>3. CASE TrackUpdate(b, s)
    <3>1. PICK activates \in BOOLEAN :
             /\ activates => Promoted(old.status, old.mentions + 1) = "recommended"
             /\ flushed' = [flushed EXCEPT ![b][s] = Tracked(Seen(b, s), old, activates)]
             /\ outpaced' = IF activates /\ Seen(b, s).contracts > old.contracts
                            THEN outpaced \cup {s} ELSE outpaced
      BY <2>3 DEF TrackUpdate
    <3>2. Earned(old) /\ Later(old, Seen(b, s)) /\ old.status # "none"
      BY <2>1, <2>3 DEF DiscoveryInv, ReadInv, TrackUpdate
    <3>3. Earned(Seen(b, s))
      BY <2>1 DEF DiscoveryInv, SourceInv, FlushInv, Seen
    <3>4. Tracked(Seen(b, s), old, activates) \in SourceRow
      BY <1>a, <2>1, <3>1, <3>2, <3>3, SeenType, TrackedRow
    <3>5. flushed' \in [Batches -> Writes]
      BY <3>1, <3>4, <2>1, <1>a
    <3>6. batch' \in [Batches -> Steps] /\ outpaced' \subseteq Sources
      BY <2>1, <2>3, <3>1, <1>a DEF TrackUpdate
    <3> QED
      BY <2>1, <3>5, <3>6, <1>a, <1>b
  <2> QED
    BY <2>1, <2>2, <2>3
<1>4. ASSUME NEW b \in Batches, BatchCommit(b) PROVE DiscoveryTypeOK'
  <2>1. sources' \in [Sources -> SourceRow]
    BY <1>4, <1>a, SeenType DEF BatchCommit
  <2>2. flushed' \in [Batches -> Writes]
    BY <1>4, <1>a, <1>c DEF BatchCommit
  <2> QED
    BY <1>4, <1>a, <1>b, <1>d, <2>1, <2>2 DEF BatchCommit
<1>5. ASSUME NEW b \in Batches, BatchFail(b) PROVE DiscoveryTypeOK'
  <2>1. flushed' \in [Batches -> Writes] /\ batch' \in [Batches -> Steps]
    BY <1>5, <1>a, <1>c DEF BatchFail
  <2> QED
    BY <1>5, <1>a, <1>b, <2>1 DEF BatchFail
<1>6. ASSUME NEW a \in Admins, NEW s \in Sources, AdminRead(a, s) PROVE DiscoveryTypeOK'
  <2>1. PICK step \in {"activate", "auto", "dismiss"} :
           admin' = [admin EXCEPT ![a] = [step |-> step, source |-> s, row |-> sources[s]]]
    BY <1>6 DEF AdminRead
  <2>2. [step |-> step, source |-> s, row |-> sources[s]] \in Visits
    BY <1>a DEF Visits
  <2>3. admin' \in [Admins -> {NoVisit} \cup Visits]
    BY <1>a, <2>1, <2>2
  <2> QED
    BY <1>6, <1>a, <1>b, <2>3 DEF AdminRead
<1>7. ASSUME NEW a \in Admins, AdminActivate(a) PROVE DiscoveryTypeOK'
  <2> DEFINE s == admin[a].source
  <2>1. s \in Sources
    BY <1>7, <1>a, HeldVisit DEF AdminActivate
  <2>2. [sources[s] EXCEPT !.status = "activated", !.contracts = @ + 1] \in SourceRow
    <3>1. sources[s] \in SourceRow /\ sources[s].contracts + 1 \in Nat
      BY <1>a, <2>1, RowTypes
    <3>2. \A row \in SourceRow, n \in Nat :
             [row EXCEPT !.status = "activated", !.contracts = n] \in SourceRow
      BY DEF SourceRow, Statuses
    <3>3. [sources[s] EXCEPT !.status = "activated", !.contracts = sources[s].contracts + 1] \in SourceRow
      BY <3>1, <3>2
    <3> QED
      BY <3>1, <3>3
  <2>3. sources' = [sources EXCEPT ![s] = [sources[s] EXCEPT !.status = "activated", !.contracts = @ + 1]]
    BY <1>7, <1>a, <2>1 DEF AdminActivate
  <2>4. sources' \in [Sources -> SourceRow]
    BY <1>a, <2>2, <2>3
  <2>5. admin' \in [Admins -> {NoVisit} \cup Visits] /\ outpaced' \subseteq Sources
    BY <1>7, <1>a, <2>1 DEF AdminActivate
  <2> QED
    BY <1>7, <1>a, <1>b, <2>4, <2>5 DEF AdminActivate
<1>8. ASSUME NEW a \in Admins, AdminDismiss(a) PROVE DiscoveryTypeOK'
  <2> DEFINE s == admin[a].source
  <2>1. s \in Sources
    BY <1>8, <1>a, HeldVisit DEF AdminDismiss
  <2>2. [sources[s] EXCEPT !.status = "dismissed"] \in SourceRow
    BY <1>a, <2>1 DEF SourceRow, Statuses
  <2>3. sources' \in [Sources -> SourceRow]
    BY <1>8, <1>a, <2>1, <2>2 DEF AdminDismiss
  <2>4. admin' \in [Admins -> {NoVisit} \cup Visits]
    BY <1>8, <1>a DEF AdminDismiss
  <2> QED
    BY <1>8, <1>a, <1>b, <1>d, <2>3, <2>4 DEF AdminDismiss
<1>9. ASSUME NEW a \in Admins, AdminAbandon(a) PROVE DiscoveryTypeOK'
  BY <1>9, <1>a, <1>b DEF AdminAbandon
<1> QED
  BY <1>1, <1>2, <1>3, <1>4, <1>5, <1>6, <1>7, <1>8, <1>9 DEF DiscoveryNext

-----------------------------------------------------------------------------
(* The invariant, action by action                                         *)

\* A later version of a later version is a later version.
LEMMA LaterOrder ==
  ASSUME NEW x \in SourceRow, NEW y \in SourceRow, NEW z \in SourceRow
  PROVE  /\ Later(x, x)
         /\ Later(x, y) /\ Later(y, z) => Later(x, z)
  BY RowTypes DEF Later

LEMMA EarnedSeen ==
  ASSUME DiscoveryInv, NEW b \in Batches, NEW s \in Sources
  PROVE  Earned(Seen(b, s)) /\ Later(sources[s], Seen(b, s))
<1>1. sources[s] \in SourceRow
  BY SeenType DEF DiscoveryInv
<1> QED
  BY <1>1, LaterOrder DEF DiscoveryInv, SourceInv, FlushInv, Seen

\* Nothing of a source has changed.
LEMMA SourceStays ==
  ASSUME DiscoveryInv, NEW s \in Sources, sources'[s] = sources[s],
         reopened \subseteq reopened', outpaced \subseteq outpaced'
  PROVE  SourceInv(s)'
  BY DEF DiscoveryInv, SourceInv, Earned

\* A batch that reads: what it read is what it sees.
LEMMA TrackReadStep ==
  ASSUME DiscoveryInv, DiscoveryTypeOK', NEW b \in Batches, NEW s \in Sources, TrackRead(b, s)
  PROVE  DiscoveryInv'
<1>1. UNCHANGED <<sources, flushed, admin, reopened, outpaced>>
  BY DEF TrackRead
<1>2. batch' = [batch EXCEPT ![b] = [step |-> "tracking", source |-> s, row |-> Seen(b, s)]]
      /\ Seen(b, s).contracts = 0
  BY DEF TrackRead
<1>3. batch'[b] = [step |-> "tracking", source |-> s, row |-> Seen(b, s)]
      /\ \A c \in Batches \ {b} : batch'[c] = batch[c]
  BY <1>2 DEF DiscoveryInv, DiscoveryTypeOK
<1>4. \A t \in Sources : SourceInv(t)'
  BY <1>1, SourceStays
<1>5. \A c \in Batches, t \in Sources : FlushInv(c, t)'
  BY <1>1 DEF DiscoveryInv, FlushInv, FreeFor, Earned, Later
<1>6. ReadInv(b)'
  <2>1. Earned(Seen(b, s)) /\ Later(Seen(b, s), Seen(b, s))
    BY EarnedSeen, SeenType, LaterOrder DEF DiscoveryInv
  <2>2. (flushed[b][s] # Unwritten => Seen(b, s) = flushed[b][s]) /\ Seen(b, s)' = Seen(b, s)
    BY <1>1 DEF Seen
  <2> QED
    BY <1>1, <1>2, <1>3, <2>1, <2>2 DEF ReadInv, Earned, Later, Seen
<1>7. ASSUME NEW c \in Batches \ {b} PROVE ReadInv(c)'
  BY <1>1, <1>3, <1>7 DEF DiscoveryInv, ReadInv, Earned, Later, Seen
<1>8. \A a \in Admins : VisitInv(a)'
  BY <1>1 DEF DiscoveryInv, VisitInv
<1> QED
  BY <1>4, <1>5, <1>6, <1>7, <1>8 DEF DiscoveryInv

\* A batch that writes: nobody else has the row, and what it writes goes beyond it.
LEMMA TrackWriteStep ==
  ASSUME DiscoveryAssumption, DiscoveryInv, DiscoveryTypeOK', NEW b \in Batches, TrackWrite(b)
  PROVE  DiscoveryInv'
<1>0. PICK s \in Sources : s = batch[b].source
  BY HeldRead DEF TrackWrite, DiscoveryInv
<1> DEFINE old == batch[b].row
           seen == Seen(b, s)
<1>1. /\ batch[b].step = "tracking" /\ FreeFor(b, s)
      /\ UNCHANGED <<sources, admin, reopened>>
      /\ TrackInsert(b, s) \/ TrackUpdate(b, s)
  BY <1>0 DEF TrackWrite
<1>2. s \in Sources /\ old \in SourceRow /\ seen \in SourceRow /\ sources[s] \in SourceRow
  BY <1>1, HeldRead, SeenType DEF DiscoveryInv
<1>3. /\ outpaced \subseteq outpaced' /\ batch'[b].step # "tracking"
      /\ \A c \in Batches \ {b} : batch'[c] = batch[c] /\ flushed'[c] = flushed[c]
  BY <1>1 DEF TrackInsert, TrackUpdate, Ready, Broken, DiscoveryInv, DiscoveryTypeOK
<1>4. \A t \in Sources \ {s} : flushed'[b][t] = flushed[b][t] \/ flushed'[b][t] = Unwritten
  BY <1>1, <1>2 DEF TrackInsert, TrackUpdate, NothingFlushed, DiscoveryInv, DiscoveryTypeOK
<1>5. \A t \in Sources : SourceInv(t)'
  BY <1>1, <1>3, SourceStays
<1>6. ASSUME NEW c \in Batches \ {b} PROVE ReadInv(c)'
  BY <1>1, <1>3, <1>6 DEF DiscoveryInv, ReadInv, Earned, Later, Seen
<1>7. ReadInv(b)'
  BY <1>3 DEF ReadInv
<1>8. ASSUME NEW c \in Batches \ {b}, NEW t \in Sources PROVE FlushInv(c, t)'
  <2>1. CASE flushed[c][t] = Unwritten
    BY <1>3, <1>8, <2>1 DEF FlushInv
  <2>2. CASE flushed[c][t] # Unwritten
    <3>1. t # s
      BY <1>1, <1>8, <2>2 DEF FreeFor
    <3>2. FlushInv(c, t) /\ FreeFor(c, t) /\ flushed'[b][t] = Unwritten
      BY <1>4, <1>8, <2>2, <3>1 DEF DiscoveryInv, FlushInv, FreeFor
    <3>3. FreeFor(c, t)'
      BY <1>3, <3>2 DEF FreeFor
    <3> QED
      BY <1>1, <1>3, <1>8, <2>2, <3>2, <3>3 DEF FlushInv, Earned, Later
  <2> QED
    BY <2>1, <2>2
<1>9. ASSUME NEW t \in Sources \ {s} PROVE FlushInv(b, t)'
  <2>1. CASE flushed'[b][t] = Unwritten
    BY <2>1 DEF FlushInv
  <2>2. CASE flushed'[b][t] # Unwritten
    <3>1. flushed'[b][t] = flushed[b][t]
      BY <1>4, <1>9, <2>2
    <3>2. FlushInv(b, t) /\ FreeFor(b, t)'
      BY <1>3, <1>9, <2>2, <3>1 DEF DiscoveryInv, FlushInv, FreeFor
    <3> QED
      BY <1>1, <1>3, <2>2, <3>1, <3>2 DEF FlushInv, Earned, Later
  <2> QED
    BY <2>1, <2>2
<1>10. FlushInv(b, s)'
  <2>1. FreeFor(b, s)'
    BY <1>1, <1>3 DEF FreeFor
  <2>2. CASE TrackInsert(b, s) /\ sources[s].status # "none"
    <3>1. flushed'[b][s] = Unwritten
      BY <1>2, <2>2 DEF TrackInsert, NothingFlushed, DiscoveryInv, DiscoveryTypeOK
    <3> QED
      BY <3>1 DEF FlushInv
  <2>3. CASE TrackInsert(b, s) /\ sources[s].status = "none"
    <3> DEFINE new == [status |-> "discovered", mentions |-> 1, contracts |-> 0, refs |-> 1]
    <3>1. flushed'[b][s] = new
      BY <1>2, <2>3 DEF TrackInsert, DiscoveryInv, DiscoveryTypeOK
    <3>2. sources[s].refs = 0
      BY <1>2, <2>3 DEF DiscoveryInv, SourceInv, Earned
    <3>3. Earned(new) /\ Later(sources[s], new) /\ new.contracts = 0
      BY <3>2 DEF Earned, Later
    <3> QED
      BY <1>1, <2>1, <3>1, <3>3 DEF FlushInv, Earned, Later
  <2>4. CASE TrackUpdate(b, s)
    <3>1. PICK activates \in BOOLEAN :
             /\ activates => Promoted(old.status, old.mentions + 1) = "recommended"
             /\ flushed' = [flushed EXCEPT ![b][s] = Tracked(seen, old, activates)]
             /\ outpaced' = IF activates /\ seen.contracts > old.contracts
                            THEN outpaced \cup {s} ELSE outpaced
      BY <2>4 DEF TrackUpdate
    <3> DEFINE new == Tracked(seen, old, activates)
    <3>2. /\ Earned(old) /\ old.contracts = 0 /\ Later(old, seen) /\ old.status # "none"
          /\ flushed[b][s] # Unwritten => old = flushed[b][s]
      BY <1>0, <1>1, <2>4 DEF DiscoveryInv, ReadInv, TrackUpdate
    <3>3. Earned(seen) /\ Later(sources[s], seen)
      BY <1>2, EarnedSeen
    <3>4. /\ new \in SourceRow /\ Earned(new) /\ Later(seen, new)
          /\ new.contracts = IF activates THEN seen.contracts + 1 ELSE seen.contracts
          /\ activates => new.status = "activated"
      BY <1>2, <3>1, <3>2, <3>3, TrackedRow
    <3>5. Later(sources[s], new)
      BY <1>2, <3>3, <3>4, LaterOrder
    <3>6. flushed'[b][s] = new
      BY <1>2, <3>1 DEF DiscoveryInv, DiscoveryTypeOK
    \* Its own version had no contract when it was read; only the committed row may.
    <3>7. seen.contracts = 0 \/ seen = sources[s]
      BY <3>2 DEF Seen
    <3>8. s \notin reopened => \/ new.contracts = 0 \/ new.status = "activated"
                               \/ sources[s].status = "activated"
      BY <1>2, <3>4, <3>7 DEF DiscoveryInv, SourceInv
    <3>9. s \notin reopened \cup outpaced' => new.contracts <= 1
      <4>1. CASE activates
        <5>1. s \notin outpaced' => seen.contracts = 0
          BY <4>1, <1>2, <3>1, <3>2, RowTypes
        <5>2. new.contracts = seen.contracts + 1
          BY <4>1, <3>4
        <5> QED
          BY <5>1, <5>2
      <4>2. CASE ~ activates
        BY <4>2, <1>2, <1>3, <3>4, <3>7 DEF DiscoveryInv, SourceInv
      <4> QED
        BY <4>1, <4>2
    <3> QED
      BY <1>1, <2>1, <3>4, <3>5, <3>6, <3>8, <3>9 DEF FlushInv, Earned, Later
  <2> QED
    BY <1>1, <2>2, <2>3, <2>4
<1>11. \A a \in Admins : VisitInv(a)'
  BY <1>1 DEF DiscoveryInv, VisitInv
<1> QED
  BY <1>5, <1>6, <1>7, <1>8, <1>9, <1>10, <1>11 DEF DiscoveryInv

\* What a batch wrote is gone, committed or rolled back: the others' writes stand.
LEMMA NothingFlushedBy ==
  ASSUME DiscoveryInv, NEW b \in Batches, flushed' = [flushed EXCEPT ![b] = NothingFlushed]
  PROVE  /\ \A t \in Sources : flushed'[b][t] = Unwritten
         /\ \A c \in Batches \ {b} : flushed'[c] = flushed[c]
         /\ \A c \in Batches \ {b}, t \in Sources : flushed[c][t] # Unwritten =>
               FreeFor(c, t) /\ FreeFor(c, t)' /\ flushed[b][t] = Unwritten
<1>1. /\ \A t \in Sources : flushed'[b][t] = Unwritten
      /\ \A c \in Batches \ {b} : flushed'[c] = flushed[c]
  BY DEF NothingFlushed, DiscoveryInv, DiscoveryTypeOK
<1>2. ASSUME NEW c \in Batches \ {b}, NEW t \in Sources, flushed[c][t] # Unwritten
      PROVE  FreeFor(c, t) /\ FreeFor(c, t)' /\ flushed[b][t] = Unwritten
  <2>1. FreeFor(c, t)
    BY <1>2 DEF DiscoveryInv, FlushInv
  <2>2. FreeFor(c, t)' /\ flushed[b][t] = Unwritten
    BY <1>1, <1>2, <2>1 DEF FreeFor
  <2> QED
    BY <2>1, <2>2
<1> QED
  BY <1>1, <1>2

\* A commit: a contract whose status was overwritten is known from here on.
LEMMA BatchCommitStep ==
  ASSUME DiscoveryInv, DiscoveryTypeOK', NEW b \in Batches, BatchCommit(b)
  PROVE  DiscoveryInv'
<1>1. /\ batch[b] = Ready /\ UNCHANGED <<batch, admin, outpaced>>
      /\ flushed' = [flushed EXCEPT ![b] = NothingFlushed] /\ reopened \subseteq reopened'
      /\ \A t \in Sources : sources'[t] = Seen(b, t)
  BY DEF BatchCommit, Reopen
<1>2. \A t \in Sources : sources[t].status = "activated" /\ Seen(b, t).status # "activated"
                            => t \in reopened'
  BY <1>1 DEF BatchCommit, Reopen
<1>3. ASSUME NEW t \in Sources PROVE SourceInv(t)'
  <2>1. CASE flushed[b][t] = Unwritten
    BY <1>1, <2>1, SourceStays DEF Seen
  <2>2. CASE flushed[b][t] # Unwritten
    <3>1. FlushInv(b, t) /\ sources'[t] = flushed[b][t]
      BY <1>1, <2>2 DEF DiscoveryInv, Seen
    <3>2. t \notin reopened' => sources'[t].contracts = 0 \/ sources'[t].status = "activated"
      BY <1>1, <1>2, <2>2, <3>1 DEF FlushInv
    <3> QED
      BY <1>1, <2>2, <3>1, <3>2 DEF FlushInv, SourceInv, Earned
  <2> QED
    BY <2>1, <2>2
<1>4. ASSUME NEW c \in Batches, NEW t \in Sources PROVE FlushInv(c, t)'
  <2>1. CASE c = b \/ flushed[c][t] = Unwritten
    BY <1>1, <2>1, NothingFlushedBy DEF FlushInv
  <2>2. CASE c # b /\ flushed[c][t] # Unwritten
    <3>1. FreeFor(c, t)' /\ flushed'[c] = flushed[c] /\ FlushInv(c, t)
      BY <1>1, <2>2, NothingFlushedBy DEF DiscoveryInv
    <3>2. sources'[t] = sources[t]
      <4>1. flushed[b][t] = Unwritten
        BY <1>1, <2>2, NothingFlushedBy
      <4> QED
        BY <1>1, <4>1 DEF Seen
    <3> QED
      BY <1>1, <2>2, <3>1, <3>2 DEF FlushInv, Earned, Later
  <2> QED
    BY <2>1, <2>2
<1>5. ASSUME NEW c \in Batches PROVE ReadInv(c)'
  <2>1. CASE c = b \/ batch[c].step # "tracking"
    BY <1>1, <2>1 DEF ReadInv, Ready
  <2>2. CASE c # b /\ batch[c].step = "tracking"
    <3>1. PICK s \in Sources : s = batch[c].source
      BY <2>2, HeldRead DEF DiscoveryInv
    <3>2. PICK old \in SourceRow : old = batch[c].row
      BY <2>2, HeldRead DEF DiscoveryInv
    <3>3. /\ Earned(old) /\ old.contracts = 0 /\ Later(old, Seen(c, s))
          /\ flushed[c][s] # Unwritten => old = flushed[c][s]
      BY <2>2, <3>1, <3>2 DEF DiscoveryInv, ReadInv
    <3>4. /\ batch'[c].source = s /\ batch'[c].row = old /\ flushed'[c] = flushed[c]
      BY <1>1, <2>2, <3>1, <3>2, NothingFlushedBy
    <3>5. Later(old, Seen(c, s)')
      <4>1. CASE flushed[c][s] # Unwritten
        BY <3>3, <3>4, <4>1 DEF Seen
      <4>2. CASE flushed[c][s] = Unwritten
        <5>1. Seen(c, s) = sources[s] /\ Seen(c, s)' = Seen(b, s)
          BY <1>1, <3>4, <4>2 DEF Seen
        <5>2. Later(sources[s], Seen(b, s)) /\ sources[s] \in SourceRow /\ Seen(b, s) \in SourceRow
          BY EarnedSeen, SeenType DEF DiscoveryInv
        <5> QED
          BY <3>3, <5>1, <5>2, LaterOrder
      <4> QED
        BY <4>1, <4>2
    <3>6. Earned(old)' /\ Later(old, Seen(c, s))'
      BY <3>3, <3>5 DEF Earned, Later
    <3> QED
      BY <3>3, <3>4, <3>6 DEF ReadInv, Earned, Later, Seen
  <2> QED
    BY <2>1, <2>2
<1>6. \A a \in Admins : VisitInv(a)'
  BY <1>1 DEF DiscoveryInv, VisitInv
<1> QED
  BY <1>3, <1>4, <1>5, <1>6 DEF DiscoveryInv

\* A rollback.
LEMMA BatchFailStep ==
  ASSUME DiscoveryInv, DiscoveryTypeOK', NEW b \in Batches, BatchFail(b)
  PROVE  DiscoveryInv'
<1>1. /\ UNCHANGED <<sources, admin, reopened, outpaced>>
      /\ flushed' = [flushed EXCEPT ![b] = NothingFlushed]
      /\ batch'[b].step # "tracking" /\ \A c \in Batches \ {b} : batch'[c] = batch[c]
  BY DEF BatchFail, Ready, DiscoveryInv, DiscoveryTypeOK
<1>2. \A t \in Sources : SourceInv(t)'
  BY <1>1, SourceStays
<1>3. ASSUME NEW c \in Batches, NEW t \in Sources PROVE FlushInv(c, t)'
  <2>1. CASE c = b \/ flushed[c][t] = Unwritten
    BY <1>1, <2>1, NothingFlushedBy DEF FlushInv
  <2>2. CASE c # b /\ flushed[c][t] # Unwritten
    <3>1. FreeFor(c, t)' /\ flushed'[c] = flushed[c] /\ FlushInv(c, t)
      BY <1>1, <2>2, NothingFlushedBy DEF DiscoveryInv
    <3> QED
      BY <1>1, <2>2, <3>1 DEF FlushInv, Earned, Later
  <2> QED
    BY <2>1, <2>2
<1>4. ASSUME NEW c \in Batches PROVE ReadInv(c)'
  <2>1. CASE c = b
    BY <1>1, <2>1 DEF ReadInv
  <2>2. CASE c # b
    <3>1. flushed'[c] = flushed[c] /\ batch'[c] = batch[c]
      BY <1>1, <2>2, NothingFlushedBy
    <3> QED
      BY <1>1, <3>1 DEF DiscoveryInv, ReadInv, Earned, Later, Seen
  <2> QED
    BY <2>1, <2>2
<1>5. \A a \in Admins : VisitInv(a)'
  BY <1>1 DEF DiscoveryInv, VisitInv
<1> QED
  BY <1>2, <1>3, <1>4, <1>5 DEF DiscoveryInv

\* What an admin does to a row nobody has written: the same references, a later row.
LEMMA AdminWriteStep ==
  ASSUME DiscoveryInv, DiscoveryTypeOK', NEW a \in Admins, NEW s \in Sources,
         UNCHANGED <<flushed, batch>>, admin' = [admin EXCEPT ![a] = NoVisit],
         reopened \subseteq reopened', outpaced \subseteq outpaced',
         \A b \in Batches : flushed[b][s] = Unwritten,
         \A t \in Sources \ {s} : sources'[t] = sources[t],
         SourceInv(s)', Later(sources[s], sources'[s])
  PROVE  DiscoveryInv'
<1>1. ASSUME NEW t \in Sources PROVE SourceInv(t)'
  BY <1>1, SourceStays
<1>2. ASSUME NEW b \in Batches, NEW t \in Sources PROVE FlushInv(b, t)'
  <2>1. CASE flushed[b][t] = Unwritten
    BY <2>1 DEF FlushInv
  <2>2. CASE flushed[b][t] # Unwritten
    <3>1. t # s /\ sources'[t] = sources[t]
      BY <2>2
    <3> QED
      BY <2>2, <3>1 DEF DiscoveryInv, FlushInv, FreeFor, Earned, Later
  <2> QED
    BY <2>1, <2>2
<1>3. ASSUME NEW b \in Batches PROVE ReadInv(b)'
  <2>1. CASE batch[b].step # "tracking"
    BY <2>1 DEF ReadInv
  <2>2. CASE batch[b].step = "tracking"
    <3>1. PICK t \in Sources : t = batch[b].source
      BY <2>2, HeldRead DEF DiscoveryInv
    <3>2. PICK old \in SourceRow : old = batch[b].row
      BY <2>2, HeldRead DEF DiscoveryInv
    <3>3. /\ Earned(old) /\ old.contracts = 0 /\ Later(old, Seen(b, t))
          /\ flushed[b][t] # Unwritten => old = flushed[b][t]
      BY <2>2, <3>1, <3>2 DEF DiscoveryInv, ReadInv
    <3>4. Later(old, Seen(b, t)')
      <4>1. CASE t # s
        BY <3>3, <4>1 DEF Seen
      <4>2. CASE t = s
        <5>1. Seen(b, t) = sources[s] /\ Seen(b, t)' = sources'[s]
          BY <4>2 DEF Seen
        <5>2. sources[s] \in SourceRow /\ sources'[s] \in SourceRow
          BY DEF DiscoveryInv, DiscoveryTypeOK
        <5> QED
          BY <3>3, <5>1, <5>2, LaterOrder
      <4> QED
        BY <4>1, <4>2
    <3> QED
      BY <3>1, <3>2, <3>3, <3>4 DEF ReadInv, Earned, Later, Seen
  <2> QED
    BY <2>1, <2>2
<1>4. ASSUME NEW c \in Admins PROVE VisitInv(c)'
  <2>1. CASE c = a
    BY <2>1 DEF VisitInv, NoVisit, DiscoveryInv, DiscoveryTypeOK
  <2>2. CASE c # a
    BY <2>2 DEF DiscoveryInv, DiscoveryTypeOK, VisitInv
  <2> QED
    BY <2>1, <2>2
<1> QED
  BY <1>1, <1>2, <1>3, <1>4 DEF DiscoveryInv

\* A row that is not activated has no contract, unless its status was overwritten.
LEMMA AdminReadStep ==
  ASSUME DiscoveryInv, DiscoveryTypeOK', NEW a \in Admins, NEW s \in Sources, AdminRead(a, s)
  PROVE  DiscoveryInv'
<1>1. PICK step \in {"activate", "auto", "dismiss"} :
         /\ step = "activate" => sources[s].status # "activated"
         /\ step = "auto" => sources[s].status = "recommended"
         /\ admin' = [admin EXCEPT ![a] = [step |-> step, source |-> s, row |-> sources[s]]]
  BY DEF AdminRead
<1>2. UNCHANGED <<sources, flushed, batch, reopened, outpaced>>
  BY DEF AdminRead
<1>3. \A t \in Sources : SourceInv(t)'
  BY <1>2, SourceStays
<1>4. \A b \in Batches, t \in Sources : FlushInv(b, t)'
  BY <1>2 DEF DiscoveryInv, FlushInv, FreeFor, Earned, Later
<1>5. \A b \in Batches : ReadInv(b)'
  BY <1>2 DEF DiscoveryInv, ReadInv, Earned, Later, Seen
<1>6. ASSUME NEW c \in Admins PROVE VisitInv(c)'
  <2>1. CASE c = a
    <3>1. admin'[c] = [step |-> step, source |-> s, row |-> sources[s]]
      BY <1>1, <2>1 DEF DiscoveryInv, DiscoveryTypeOK
    <3>2. s \notin reopened /\ step \in {"activate", "auto"} => sources[s].contracts = 0
      BY <1>1 DEF DiscoveryInv, SourceInv
    <3> QED
      BY <1>2, <3>1, <3>2 DEF VisitInv
  <2>2. CASE c # a
    BY <1>1, <1>2, <2>2 DEF DiscoveryInv, DiscoveryTypeOK, VisitInv
  <2> QED
    BY <2>1, <2>2
<1> QED
  BY <1>3, <1>4, <1>5, <1>6 DEF DiscoveryInv

\* An activation from a row without a contract makes the first one, unless it was outpaced.
LEMMA AdminActivateStep ==
  ASSUME DiscoveryInv, DiscoveryTypeOK', NEW a \in Admins, AdminActivate(a)
  PROVE  DiscoveryInv'
<1>1. PICK s \in Sources : s = admin[a].source
  BY HeldVisit DEF AdminActivate, DiscoveryInv
<1>2. /\ admin[a].step \in {"activate", "auto"} /\ admin[a].row \in SourceRow
      /\ \A b \in Batches : flushed[b][s] = Unwritten
      /\ sources' = [sources EXCEPT ![s].status = "activated", ![s].contracts = @ + 1]
      /\ outpaced' = IF sources[s].contracts > admin[a].row.contracts
                     THEN outpaced \cup {s} ELSE outpaced
      /\ admin' = [admin EXCEPT ![a] = NoVisit] /\ UNCHANGED <<flushed, batch, reopened>>
  BY <1>1, HeldVisit DEF AdminActivate, DiscoveryInv
<1>3. sources[s] \in SourceRow /\ \A t \in Sources \ {s} : sources'[t] = sources[t]
  BY <1>2 DEF DiscoveryInv, DiscoveryTypeOK
<1>4. sources'[s] = [sources[s] EXCEPT !.status = "activated", !.contracts = @ + 1]
  BY <1>2 DEF DiscoveryInv, DiscoveryTypeOK
<1>5. /\ sources'[s].status = "activated" /\ sources'[s].contracts = sources[s].contracts + 1
      /\ sources'[s].refs = sources[s].refs /\ sources'[s].mentions = sources[s].mentions
  BY <1>3, <1>4 DEF SourceRow
<1>6. Earned(sources'[s]) /\ Later(sources[s], sources'[s])
  BY <1>3, <1>5, RowTypes DEF DiscoveryInv, SourceInv, Earned, Later
<1>7. s \notin reopened \cup outpaced' => sources'[s].contracts <= 1
  <2>1. s \notin reopened => admin[a].row.contracts = 0
    BY <1>1, <1>2 DEF DiscoveryInv, VisitInv
  <2>2. s \notin outpaced' => ~ (sources[s].contracts > admin[a].row.contracts)
    BY <1>2
  <2> QED
    BY <1>3, <1>5, <2>1, <2>2, RowTypes
<1>8. SourceInv(s)'
  BY <1>2, <1>5, <1>6, <1>7 DEF SourceInv, Earned
<1>9. outpaced \subseteq outpaced' /\ reopened \subseteq reopened'
  BY <1>2
<1> QED
  BY <1>2, <1>3, <1>6, <1>8, <1>9, AdminWriteStep

\* A dismissal.
LEMMA AdminDismissStep ==
  ASSUME DiscoveryInv, DiscoveryTypeOK', NEW a \in Admins, AdminDismiss(a)
  PROVE  DiscoveryInv'
<1>1. PICK s \in Sources : s = admin[a].source
  BY HeldVisit DEF AdminDismiss, DiscoveryInv
<1>2. /\ \A b \in Batches : flushed[b][s] = Unwritten
      /\ sources' = sources \/ sources' = [sources EXCEPT ![s].status = "dismissed"]
      /\ reopened' = reopened \cup {t \in Sources : sources[t].status = "activated"
                                              /\ sources'[t].status # "activated"}
      /\ admin' = [admin EXCEPT ![a] = NoVisit] /\ UNCHANGED <<flushed, batch, outpaced>>
  BY <1>1 DEF AdminDismiss, Reopen
<1>3. sources[s] \in SourceRow /\ \A t \in Sources \ {s} : sources'[t] = sources[t]
  BY <1>2 DEF DiscoveryInv, DiscoveryTypeOK
<1>4. sources'[s] = sources[s] \/ sources'[s] = [sources[s] EXCEPT !.status = "dismissed"]
  BY <1>2 DEF DiscoveryInv, DiscoveryTypeOK
<1>5. /\ sources'[s].status = sources[s].status \/ sources'[s].status = "dismissed"
      /\ sources'[s].contracts = sources[s].contracts
      /\ sources'[s].refs = sources[s].refs /\ sources'[s].mentions = sources[s].mentions
  BY <1>3, <1>4 DEF SourceRow
<1>6. Earned(sources'[s]) /\ Later(sources[s], sources'[s])
  BY <1>3, <1>5, RowTypes DEF DiscoveryInv, SourceInv, Earned, Later
<1>7. SourceInv(s)'
  BY <1>2, <1>5, <1>6 DEF DiscoveryInv, SourceInv, Earned
<1>8. outpaced \subseteq outpaced' /\ reopened \subseteq reopened'
  BY <1>2
<1> QED
  BY <1>2, <1>3, <1>6, <1>7, <1>8, AdminWriteStep

\* A visit that comes to nothing.
LEMMA AdminAbandonStep ==
  ASSUME DiscoveryInv, DiscoveryTypeOK', NEW a \in Admins, AdminAbandon(a)
  PROVE  DiscoveryInv'
<1>1. UNCHANGED <<sources, flushed, batch, reopened, outpaced>>
      /\ admin' = [admin EXCEPT ![a] = NoVisit]
  BY DEF AdminAbandon
<1>2. \A t \in Sources : SourceInv(t)'
  BY <1>1, SourceStays
<1>3. \A b \in Batches, t \in Sources : FlushInv(b, t)'
  BY <1>1 DEF DiscoveryInv, FlushInv, FreeFor, Earned, Later
<1>4. \A b \in Batches : ReadInv(b)'
  BY <1>1 DEF DiscoveryInv, ReadInv, Earned, Later, Seen
<1>5. ASSUME NEW c \in Admins PROVE VisitInv(c)'
  BY <1>1, <1>5 DEF VisitInv, NoVisit, DiscoveryInv, DiscoveryTypeOK
<1> QED
  BY <1>2, <1>3, <1>4, <1>5 DEF DiscoveryInv

LEMMA DiscoveryInvNext ==
  ASSUME DiscoveryAssumption, DiscoveryInv, [DiscoveryNext]_discoveryVars
  PROVE  DiscoveryInv'
<1>0. DiscoveryTypeOK'
  BY DiscoveryTypeNext
<1>1. CASE UNCHANGED discoveryVars
  <2>1. UNCHANGED <<sources, flushed, batch, admin, reopened, outpaced>>
    BY <1>1 DEF discoveryVars
  <2>2. \A t \in Sources : SourceInv(t)'
    BY <2>1, SourceStays
  <2>3. \A b \in Batches, t \in Sources : FlushInv(b, t)'
    BY <2>1 DEF DiscoveryInv, FlushInv, FreeFor, Earned, Later
  <2>4. \A b \in Batches : ReadInv(b)'
    BY <2>1 DEF DiscoveryInv, ReadInv, Earned, Later, Seen
  <2>5. \A c \in Admins : VisitInv(c)'
    BY <2>1 DEF DiscoveryInv, VisitInv
  <2> QED
    BY <1>0, <2>2, <2>3, <2>4, <2>5 DEF DiscoveryInv
<1>2. CASE \E b \in Batches, s \in Sources : TrackRead(b, s)
  BY <1>0, <1>2, TrackReadStep
<1>3. CASE \E b \in Batches : TrackWrite(b) \/ BatchCommit(b) \/ BatchFail(b)
  BY <1>0, <1>3, TrackWriteStep, BatchCommitStep, BatchFailStep
<1>4. CASE \E a \in Admins, s \in Sources : AdminRead(a, s)
  BY <1>0, <1>4, AdminReadStep
<1>5. CASE \E a \in Admins : AdminActivate(a) \/ AdminDismiss(a) \/ AdminAbandon(a)
  BY <1>0, <1>5, AdminActivateStep, AdminDismissStep, AdminAbandonStep
<1> QED
  BY <1>1, <1>2, <1>3, <1>4, <1>5 DEF DiscoveryNext

LEMMA DiscoveryInvInit == DiscoveryAssumption /\ DiscoveryInit => DiscoveryInv
<1> SUFFICES ASSUME DiscoveryAssumption, DiscoveryInit PROVE DiscoveryInv
  OBVIOUS
<1>1. /\ \A s \in Sources : sources[s] = NoRow
      /\ \A b \in Batches, s \in Sources : flushed[b][s] = Unwritten
      /\ \A b \in Batches : batch[b].step = "ready"
      /\ \A a \in Admins : admin[a].step = "away"
  BY DEF DiscoveryInit, NothingFlushed, Ready, NoVisit
<1>2. DiscoveryTypeOK
  BY RowTypes DEF DiscoveryInit, DiscoveryTypeOK, NothingFlushed
<1>3. ASSUME NEW s \in Sources PROVE SourceInv(s)
  <2>1. /\ sources[s].status = "none" /\ sources[s].mentions = 0
        /\ sources[s].contracts = 0 /\ sources[s].refs = 0
    BY <1>1 DEF NoRow
  <2> QED
    BY <2>1 DEF SourceInv, Earned
<1> QED
  BY <1>1, <1>2, <1>3 DEF DiscoveryInv, FlushInv, ReadInv, VisitInv

-----------------------------------------------------------------------------
(* The theorems                                                            *)

\* The inductive invariant: every version of a row has earned its status, the versions
\* of a row grow, one batch writes it at a time, and what a read row says of contracts
\* holds unless the status was overwritten or another activation came first.
THEOREM DiscoveryInvCorrect == DiscoverySpec => []DiscoveryInv
<1>1. DiscoveryInit => DiscoveryInv
  BY DiscoveryInvInit, DiscoveryAssumption
<1>2. DiscoveryInv /\ [DiscoveryNext]_discoveryVars => DiscoveryInv'
  BY DiscoveryInvNext, DiscoveryAssumption
<1> QED
  BY <1>1, <1>2, PTL DEF DiscoverySpec

\* Every variable of the discovery keeps its type.
THEOREM DiscoveryTypeCorrect == DiscoverySpec => []DiscoveryTypeOK
<1>1. DiscoveryInv => DiscoveryTypeOK
  BY DEF DiscoveryInv
<1> QED
  BY <1>1, DiscoveryInvCorrect, PTL

\* A recommended source was referred to often enough by signals that were committed,
\* however many batches count its mentions from rows that are out of date.
THEOREM RecommendedIsEarnedCorrect == DiscoverySpec => []RecommendedIsEarned
<1>1. DiscoveryInv => RecommendedIsEarned
  BY DEF DiscoveryInv, SourceInv, Earned, RecommendedIsEarned
<1> QED
  BY <1>1, DiscoveryInvCorrect, PTL

\* A second contract comes only of an overwritten status or of activations that raced.
THEOREM SecondContractExplainedCorrect == DiscoverySpec => []SecondContractExplained
<1>1. DiscoveryInv => SecondContractExplained
  <2> SUFFICES ASSUME DiscoveryInv, NEW s \in Sources, s \notin reopened \cup outpaced
               PROVE  ~ (sources[s].contracts > 1)
    BY DEF SecondContractExplained
  <2>1. sources[s].contracts <= 1 /\ sources[s].contracts \in Nat
    BY RowTypes DEF DiscoveryInv, SourceInv, DiscoveryTypeOK
  <2> QED
    BY <2>1
<1> QED
  BY <1>1, DiscoveryInvCorrect, PTL
=============================================================================
