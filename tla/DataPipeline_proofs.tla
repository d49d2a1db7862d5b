-------------------------- MODULE DataPipeline_proofs --------------------------
(***************************************************************************)
(* Proofs about the way of a capture to a replay, for every exchange, feed *)
(* and configuration: what becomes of the records of a capture, which days *)
(* are admitted, what a structurally valid day says of its books, that     *)
(* what is built passes its verifiers, and what a replay observes.         *)
(***************************************************************************)
EXTENDS DataPipeline, SumTheorems

-----------------------------------------------------------------------------
(***************************************************************************)
(* Sequences.                                                              *)
(***************************************************************************)

LEMMA AppendFacts ==
  ASSUME NEW S, NEW s \in Seq(S), NEW e \in S
  PROVE  /\ Append(s, e) \in Seq(S)
         /\ Len(Append(s, e)) = Len(s) + 1
         /\ ToSet(Append(s, e)) = ToSet(s) \cup {e}
<1>1. /\ Append(s, e) \in Seq(S)
      /\ Len(Append(s, e)) = Len(s) + 1
      /\ \A k \in 1 .. Len(s) : Append(s, e)[k] = s[k]
      /\ Append(s, e)[Len(s) + 1] = e
  OBVIOUS
<1>2. DOMAIN s = 1 .. Len(s) /\ DOMAIN Append(s, e) = 1 .. Len(s) + 1 /\ Len(s) \in Nat
  BY <1>1
<1>3. ToSet(Append(s, e)) = ToSet(s) \cup {e}
  BY <1>1, <1>2 DEF ToSet
<1> QED BY <1>1, <1>3

LEMMA ToSetElements ==
  ASSUME NEW S, NEW s \in Seq(S)
  PROVE  /\ ToSet(s) = {s[k] : k \in 1 .. Len(s)}
         /\ ToSet(s) \subseteq S
BY DEF ToSet

\* f gives the chosen elements among the first ones of a sequence.
OneMore(part, s, positions, k) ==
  IF k \in positions THEN Append(part, s[k]) ELSE part

Part(f, s, positions, n) ==
  f = [k \in 0 .. n |-> IF k = 0 THEN << >> ELSE OneMore(f[k - 1], s, positions, k)]

LEMMA PartExists ==
  ASSUME NEW s, NEW positions, NEW n \in Nat
  PROVE  \E f : Part(f, s, positions, n)
<1> DEFINE Good == {m \in Nat : \E f : Part(f, s, positions, m)}
<1>1. 0 \in Good
  <2>1. Part([k \in 0 .. 0 |-> << >>], s, positions, 0)
    BY DEF Part
  <2> QED BY <2>1
<1>2. ASSUME NEW m \in Nat, m \in Good PROVE m + 1 \in Good
  <2>1. PICK f : Part(f, s, positions, m)
    BY <1>2
  <2> DEFINE g == [k \in 0 .. (m + 1) |->
                     IF k = 0 THEN << >> ELSE OneMore(f[k - 1], s, positions, k)]
  <2>2. \A k \in 0 .. m : g[k] = f[k]
    BY <2>1 DEF Part
  <2>3. \A k \in 0 .. (m + 1) : k # 0 => f[k - 1] = g[k - 1]
    <3> HIDE DEF g
    <3> QED BY <2>2
  <2>4. g = [k \in 0 .. (m + 1) |->
               IF k = 0 THEN << >> ELSE OneMore(g[k - 1], s, positions, k)]
    <3>1. \A k \in 0 .. (m + 1) :
            (IF k = 0 THEN << >> ELSE OneMore(f[k - 1], s, positions, k))
            = (IF k = 0 THEN << >> ELSE OneMore(g[k - 1], s, positions, k))
      <4> HIDE DEF g
      <4> QED BY <2>3
    <3> QED BY <3>1
  <2>5. Part(g, s, positions, m + 1)
    <3> HIDE DEF g
    <3> QED BY <2>4 DEF Part
  <2> QED BY <2>5
<1>3. Nat \subseteq Good
  <2> HIDE DEF Good
  <2> QED BY <1>1, <1>2, NaturalInduction
<1> QED BY <1>3

\* The elements at some positions of a sequence are a sequence of just these.
LEMMA ElementsAtFacts ==
  ASSUME NEW S, NEW s \in Seq(S), NEW positions
  PROVE  /\ ElementsAt(s, positions) \in Seq(S)
         /\ ToSet(ElementsAt(s, positions)) = {s[k] : k \in (1 .. Len(s)) \cap positions}
<1>1. Len(s) \in Nat /\ \A k \in 1 .. Len(s) : s[k] \in S
  OBVIOUS
<1>2. PICK g : Part(g, s, positions, Len(s))
  BY <1>1, PartExists
<1> DEFINE f == CHOOSE f : Part(f, s, positions, Len(s))
<1>3. Part(f, s, positions, Len(s)) /\ ElementsAt(s, positions) = f[Len(s)]
  BY <1>2, Zenon DEF ElementsAt, Part, OneMore
<1> HIDE DEF f
<1> DEFINE Good == {m \in Nat : m <= Len(s) =>
                      /\ f[m] \in Seq(S)
                      /\ ToSet(f[m]) = {s[k] : k \in (1 .. m) \cap positions}}
<1>4. 0 \in Good
  <2>1. f[0] = << >>
    BY <1>1, <1>3 DEF Part
  <2>2. ToSet(<< >>) = {} /\ << >> \in Seq(S)
    BY DEF ToSet
  <2>3. {s[k] : k \in (1 .. 0) \cap positions} = {}
    OBVIOUS
  <2> QED BY <2>1, <2>2, <2>3
<1>5. ASSUME NEW m \in Nat, m \in Good PROVE m + 1 \in Good
  <2> SUFFICES ASSUME m + 1 <= Len(s)
               PROVE  /\ f[m + 1] \in Seq(S)
                      /\ ToSet(f[m + 1]) = {s[k] : k \in (1 .. m + 1) \cap positions}
    OBVIOUS
  <2>1. f[m] \in Seq(S) /\ ToSet(f[m]) = {s[k] : k \in (1 .. m) \cap positions}
    BY <1>1, <1>5
  <2>2. f[m + 1] = IF m + 1 \in positions THEN Append(f[m], s[m + 1]) ELSE f[m]
    <3>1. f[m + 1] = OneMore(f[m], s, positions, m + 1)
      BY <1>1, <1>3 DEF Part
    <3> QED BY <3>1 DEF OneMore
  <2>3. s[m + 1] \in S
    BY <1>1
  <2>4. CASE m + 1 \in positions
    <3>1. (1 .. m + 1) \cap positions = ((1 .. m) \cap positions) \cup {m + 1}
      BY <2>4
    <3>2. {s[k] : k \in (1 .. m + 1) \cap positions}
            = {s[k] : k \in (1 .. m) \cap positions} \cup {s[m + 1]}
      BY <3>1
    <3> QED BY <2>1, <2>2, <2>3, <2>4, <3>2, AppendFacts
  <2>5. CASE m + 1 \notin positions
    <3>1. (1 .. m + 1) \cap positions = (1 .. m) \cap positions
      BY <2>5
    <3> QED BY <2>1, <2>2, <2>5, <3>1
  <2> QED BY <2>4, <2>5
<1>6. Nat \subseteq Good
  <2> HIDE DEF Good
  <2> QED BY <1>4, <1>5, NaturalInduction
<1>7. Len(s) \in Good
  BY <1>1, <1>6
<1> QED BY <1>3, <1>7

-----------------------------------------------------------------------------
(***************************************************************************)
(* Deduplication.                                                          *)
(***************************************************************************)

Nothing == [ok |-> TRUE, unique |-> << >>, duplicates |-> << >>]

\* What the builder holds after it has looked at the records seen, of which R
\* is the type.
Deduplicated(acc, R, seen, n) ==
  /\ acc = [ok |-> acc.ok, unique |-> acc.unique, duplicates |-> acc.duplicates]
  /\ acc.unique \in Seq(R) /\ acc.duplicates \in Seq(R)
  /\ acc.ok \in BOOLEAN
  /\ acc.ok =>
       /\ Len(acc.unique) + Len(acc.duplicates) = n
       /\ ToSet(acc.unique) \cup ToSet(acc.duplicates) = seen
       /\ \A k, j \in 1 .. Len(acc.unique) :
            k # j => NaturalKey(acc.unique[k]) # NaturalKey(acc.unique[j])
       /\ \A r \in ToSet(acc.duplicates) : \E q \in ToSet(acc.unique) : SameDigest(q, r)

\* What Keep answers, case by case.
LEMMA KeepCases ==
  ASSUME NEW acc, NEW r
  PROVE  \/ ~acc.ok /\ Keep(acc, r) = acc
         \/ acc.ok /\ Keep(acc, r) = [acc EXCEPT !.ok = FALSE]
         \/ /\ acc.ok
            /\ \A q \in ToSet(acc.unique) : NaturalKey(q) # NaturalKey(r)
            /\ Keep(acc, r) = [acc EXCEPT !.unique = Append(acc.unique, r)]
         \/ /\ acc.ok
            /\ \E q \in ToSet(acc.unique) : SameDigest(q, r)
            /\ Keep(acc, r) = [acc EXCEPT !.duplicates = Append(acc.duplicates, r)]
BY Zenon DEF Keep

LEMMA KeepSound ==
  ASSUME NEW R, NEW seen, NEW n \in Nat, NEW acc, Deduplicated(acc, R, seen, n), NEW r \in R
  PROVE  Deduplicated(Keep(acc, r), R, seen \cup {r}, n + 1)
<1>1. PICK next : next = Keep(acc, r)
  OBVIOUS
<1>2. acc = [ok |-> acc.ok, unique |-> acc.unique, duplicates |-> acc.duplicates]
  BY DEF Deduplicated
<1>3. acc.unique \in Seq(R) /\ acc.duplicates \in Seq(R) /\ acc.ok \in BOOLEAN
  BY DEF Deduplicated
<1> SUFFICES Deduplicated(next, R, seen \cup {r}, n + 1)
  BY <1>1
<1>4. CASE ~acc.ok /\ next = acc
  BY <1>2, <1>3, <1>4 DEF Deduplicated
<1>5. CASE acc.ok /\ next = [acc EXCEPT !.ok = FALSE]
  <2>1. next = [ok |-> FALSE, unique |-> acc.unique, duplicates |-> acc.duplicates]
    BY <1>2, <1>5
  <2> QED BY <1>3, <2>1 DEF Deduplicated
<1>6. CASE /\ acc.ok
           /\ \A q \in ToSet(acc.unique) : NaturalKey(q) # NaturalKey(r)
           /\ next = [acc EXCEPT !.unique = Append(acc.unique, r)]
  <2>1. next = [ok |-> acc.ok, unique |-> Append(acc.unique, r), duplicates |-> acc.duplicates]
    BY <1>2, <1>6
  <2>2. /\ next.ok = acc.ok /\ next.unique = Append(acc.unique, r)
        /\ next.duplicates = acc.duplicates
    BY <2>1
  <2>3. /\ next.unique \in Seq(R)
        /\ Len(next.unique) = Len(acc.unique) + 1
        /\ ToSet(next.unique) = ToSet(acc.unique) \cup {r}
    BY <1>3, <2>2, AppendFacts
  <2>4. /\ Len(acc.unique) + Len(acc.duplicates) = n
        /\ ToSet(acc.unique) \cup ToSet(acc.duplicates) = seen
        /\ \A k, j \in 1 .. Len(acc.unique) :
             k # j => NaturalKey(acc.unique[k]) # NaturalKey(acc.unique[j])
        /\ \A d \in ToSet(acc.duplicates) : \E q \in ToSet(acc.unique) : SameDigest(q, d)
    BY <1>6 DEF Deduplicated
  <2>5. Len(next.unique) + Len(next.duplicates) = n + 1
    <3>1. Len(acc.unique) \in Nat /\ Len(acc.duplicates) \in Nat
      BY <1>3
    <3>2. Len(next.unique) = Len(acc.unique) + 1 /\ Len(next.duplicates) = Len(acc.duplicates)
      BY <2>2, <2>3
    <3>3. Len(acc.unique) + Len(acc.duplicates) = n
      BY <2>4
    <3>4. \A a, b \in Nat : a + b = n => (a + 1) + b = n + 1 /\ a + (b + 1) = n + 1
      OBVIOUS
    <3>5. Len(next.unique) + Len(next.duplicates) = (Len(acc.unique) + 1) + Len(acc.duplicates)
      BY <3>2, Zenon
    <3> QED BY <3>1, <3>3, <3>4, <3>5, ZenonT(20)
  <2>6. ToSet(next.unique) \cup ToSet(next.duplicates) = seen \cup {r}
    BY <2>2, <2>3, <2>4
  <2>7. \A k, j \in 1 .. Len(next.unique) :
          k # j => NaturalKey(next.unique[k]) # NaturalKey(next.unique[j])
    <3>1. /\ \A k \in 1 .. Len(acc.unique) :
                next.unique[k] = acc.unique[k] /\ acc.unique[k] \in ToSet(acc.unique)
          /\ next.unique[Len(acc.unique) + 1] = r
          /\ Len(acc.unique) \in Nat
      BY <1>3, <2>2, ToSetElements
    <3>2. \A k \in 1 .. Len(acc.unique) : NaturalKey(next.unique[k]) # NaturalKey(r)
      BY <1>6, <3>1
    <3>3. \A k \in 1 .. Len(next.unique) : k \in 1 .. Len(acc.unique) \/ k = Len(acc.unique) + 1
      BY <2>3, <3>1
    <3> QED BY <2>4, <3>1, <3>2, <3>3
  <2>8. \A d \in ToSet(next.duplicates) : \E q \in ToSet(next.unique) : SameDigest(q, d)
    BY <2>2, <2>3, <2>4
  <2> QED BY <1>3, <2>1, <2>2, <2>3, <2>5, <2>6, <2>7, <2>8 DEF Deduplicated
<1>7. CASE /\ acc.ok
           /\ \E q \in ToSet(acc.unique) : SameDigest(q, r)
           /\ next = [acc EXCEPT !.duplicates = Append(acc.duplicates, r)]
  <2>1. next = [ok |-> acc.ok, unique |-> acc.unique, duplicates |-> Append(acc.duplicates, r)]
    BY <1>2, <1>7
  <2>2. /\ next.ok = acc.ok /\ next.unique = acc.unique
        /\ next.duplicates = Append(acc.duplicates, r)
    BY <2>1
  <2>3. /\ next.duplicates \in Seq(R)
        /\ Len(next.duplicates) = Len(acc.duplicates) + 1
        /\ ToSet(next.duplicates) = ToSet(acc.duplicates) \cup {r}
    BY <1>3, <2>2, AppendFacts
  <2>4. /\ Len(acc.unique) + Len(acc.duplicates) = n
        /\ ToSet(acc.unique) \cup ToSet(acc.duplicates) = seen
        /\ \A k, j \in 1 .. Len(acc.unique) :
             k # j => NaturalKey(acc.unique[k]) # NaturalKey(acc.unique[j])
        /\ \A d \in ToSet(acc.duplicates) : \E q \in ToSet(acc.unique) : SameDigest(q, d)
    BY <1>7 DEF Deduplicated
  <2>5. Len(next.unique) + Len(next.duplicates) = n + 1
    <3>1. Len(acc.unique) \in Nat /\ Len(acc.duplicates) \in Nat
      BY <1>3
    <3>2. Len(next.unique) = Len(acc.unique) /\ Len(next.duplicates) = Len(acc.duplicates) + 1
      BY <2>2, <2>3
    <3>3. Len(acc.unique) + Len(acc.duplicates) = n
      BY <2>4
    <3>4. \A a, b \in Nat : a + b = n => (a + 1) + b = n + 1 /\ a + (b + 1) = n + 1
      OBVIOUS
    <3>5. Len(next.unique) + Len(next.duplicates) = Len(acc.unique) + (Len(acc.duplicates) + 1)
      BY <3>2, Zenon
    <3> QED BY <3>1, <3>3, <3>4, <3>5, ZenonT(20)
  <2>6. ToSet(next.unique) \cup ToSet(next.duplicates) = seen \cup {r}
    BY <2>2, <2>3, <2>4
  <2>7. \A d \in ToSet(next.duplicates) : \E q \in ToSet(next.unique) : SameDigest(q, d)
    BY <1>7, <2>2, <2>3, <2>4
  <2> QED BY <1>3, <2>1, <2>2, <2>3, <2>4, <2>5, <2>6, <2>7 DEF Deduplicated
<1> QED BY <1>1, <1>4, <1>5, <1>6, <1>7, KeepCases

\* f gives what the builder holds after each of the records.
Keeps(f, records, n) ==
  f = [k \in 0 .. n |-> IF k = 0 THEN Nothing ELSE Keep(f[k - 1], records[k])]

LEMMA KeepsExists ==
  ASSUME NEW records, NEW n \in Nat
  PROVE  \E f : Keeps(f, records, n)
<1> DEFINE Good == {m \in Nat : \E f : Keeps(f, records, m)}
<1>1. 0 \in Good
  <2>1. Keeps([k \in 0 .. 0 |-> Nothing], records, 0)
    BY DEF Keeps
  <2> QED BY <2>1
<1>2. ASSUME NEW m \in Nat, m \in Good PROVE m + 1 \in Good
  <2>1. PICK f : Keeps(f, records, m)
    BY <1>2
  <2> DEFINE g == [k \in 0 .. (m + 1) |-> IF k = 0 THEN Nothing ELSE Keep(f[k - 1], records[k])]
  <2>2. \A k \in 0 .. m : g[k] = f[k]
    BY <2>1 DEF Keeps
  <2>3. \A k \in 0 .. (m + 1) : k # 0 => f[k - 1] = g[k - 1]
    <3> HIDE DEF g
    <3> QED BY <2>2
  <2>4. g = [k \in 0 .. (m + 1) |-> IF k = 0 THEN Nothing ELSE Keep(g[k - 1], records[k])]
    <3>1. \A k \in 0 .. (m + 1) :
            (IF k = 0 THEN Nothing ELSE Keep(f[k - 1], records[k]))
            = (IF k = 0 THEN Nothing ELSE Keep(g[k - 1], records[k]))
      <4> HIDE DEF g
      <4> QED BY <2>3
    <3> QED BY <3>1
  <2>5. Keeps(g, records, m + 1)
    <3> HIDE DEF g
    <3> QED BY <2>4 DEF Keeps
  <2> QED BY <2>5
<1>3. Nat \subseteq Good
  <2> HIDE DEF Good
  <2> QED BY <1>1, <1>2, NaturalInduction
<1> QED BY <1>3

\* Deduplication accounts for every record, and no two of the rows are one message.
LEMMA DeduplicateSound ==
  ASSUME NEW R, NEW records \in Seq(R)
  PROVE  Deduplicated(deduplicate(records), R, ToSet(records), Len(records))
<1>1. Len(records) \in Nat /\ \A k \in 1 .. Len(records) : records[k] \in R
  OBVIOUS
<1>2. PICK g : Keeps(g, records, Len(records))
  BY <1>1, KeepsExists
<1> DEFINE f == CHOOSE f : Keeps(f, records, Len(records))
<1>3. Keeps(f, records, Len(records)) /\ deduplicate(records) = f[Len(records)]
  BY <1>2, Zenon DEF deduplicate, Keeps, Nothing
<1> HIDE DEF f
<1> DEFINE Good == {m \in Nat : m <= Len(records) =>
                      Deduplicated(f[m], R, {records[k] : k \in 1 .. m}, m)}
<1>4. 0 \in Good
  <2>1. f[0] = Nothing
    BY <1>1, <1>3 DEF Keeps
  <2>2. ToSet(<< >>) = {} /\ << >> \in Seq(R) /\ Len(<< >>) = 0
    BY DEF ToSet
  <2>3. {records[k] : k \in 1 .. 0} = {}
    OBVIOUS
  <2>4. Deduplicated(Nothing, R, {}, 0)
    BY <2>2 DEF Deduplicated, Nothing
  <2> QED BY <2>1, <2>3, <2>4
<1>5. ASSUME NEW m \in Nat, m \in Good PROVE m + 1 \in Good
  <2> SUFFICES ASSUME m + 1 <= Len(records)
               PROVE  Deduplicated(f[m + 1], R, {records[k] : k \in 1 .. m + 1}, m + 1)
    OBVIOUS
  <2>1. Deduplicated(f[m], R, {records[k] : k \in 1 .. m}, m)
    BY <1>1, <1>5
  <2>2. f[m + 1] = Keep(f[m], records[m + 1])
    BY <1>1, <1>3 DEF Keeps
  <2>3. records[m + 1] \in R
    BY <1>1
  <2>4. {records[k] : k \in 1 .. m + 1} = {records[k] : k \in 1 .. m} \cup {records[m + 1]}
    <3>1. 1 .. m + 1 = (1 .. m) \cup {m + 1}
      OBVIOUS
    <3> QED BY <3>1
  <2> QED BY <2>1, <2>2, <2>3, <2>4, KeepSound
<1>6. Nat \subseteq Good
  <2> HIDE DEF Good
  <2> QED BY <1>4, <1>5, NaturalInduction
<1>7. Len(records) \in Good
  BY <1>1, <1>6
<1>8. Deduplicated(f[Len(records)], R, {records[k] : k \in 1 .. Len(records)}, Len(records))
  BY <1>1, <1>7
<1>9. ToSet(records) = {records[k] : k \in 1 .. Len(records)}
  BY ToSetElements
<1> HIDE DEF Good
<1> QED BY <1>3, <1>8, <1>9

-----------------------------------------------------------------------------
(***************************************************************************)
(* The invariant: a capture is well formed, and what each stage has made   *)
(* of it is what its function makes of the finished capture.               *)
(***************************************************************************)

Payloads == Feed \cup TradeIds \cup {0}
Records ==
  [connection : Nat, index : Nat, received : Nat, segmentDay : Int, event : Nat,
   kind : {"depth", "trade", "other"}, data : Payloads, intact : BOOLEAN]
Connections == [started : Nat, messages : Nat]

CaptureSound(of) ==
  /\ of = [records |-> of.records, connections |-> of.connections, snapshots |-> of.snapshots,
           origin |-> of.origin, status |-> of.status]
  /\ of.records \in Seq(Records)
  /\ of.connections \in Seq(Connections)
  /\ IsFiniteSet(of.snapshots)
  /\ \A s \in of.snapshots : s.last \in SnapshotIds
  /\ \A r \in ToSet(of.records) :
       /\ r.segmentDay = utc_day(r.received)
       /\ r.kind = "depth" => r.data \in Feed

\* What the later stages hold, of a capture and a report.
Canonicalized(d) ==
  \E tier \in {"sample", "processed"}, parquet \in BOOLEAN :
    d = build_canonical_dataset(capture, report, tier, parquet)

ReplayedFrom(r) ==
  \E requireResearch \in {RequireExact, FALSE} :
    r = build_historical_replay(dataset, requireResearch)

StagesSound ==
  /\ Capturing => report = NoResult
  /\ report = NoResult => dataset = NoResult
  /\ dataset = NoResult => replay = NoResult
  /\ report # NoResult => report = validate_capture_data(capture)
  /\ dataset # NoResult => Canonicalized(dataset)
  /\ replay # NoResult => ReplayedFrom(replay)

IInv == clock \in Nat /\ CaptureSound(capture) /\ StagesSound

LEMMA InitSound == Init => IInv
<1> SUFFICES ASSUME Init PROVE IInv
  OBVIOUS
<1>1. /\ capture.records = << >> /\ capture.connections = << >> /\ capture.snapshots = {}
      /\ capture = [records |-> capture.records, connections |-> capture.connections,
                    snapshots |-> capture.snapshots, origin |-> capture.origin,
                    status |-> capture.status]
  BY DEF Init
<1>2. IsFiniteSet({})
  BY FS_EmptySet
<1>3. ToSet(<< >>) = {}
  BY DEF ToSet
<1>4. CaptureSound(capture)
  BY <1>1, <1>2, <1>3 DEF CaptureSound
<1> QED BY <1>4 DEF Init, IInv, StagesSound

\* While a capture grows, no stage has begun.
LEMMA CapturingKeepsStages ==
  ASSUME IInv, Capturing, UNCHANGED <<report, dataset, replay>>
  PROVE  StagesSound'
<1>1. report = NoResult /\ dataset = NoResult /\ replay = NoResult
  BY DEF IInv, StagesSound
<1> QED BY <1>1 DEF StagesSound

LEMMA DayType ==
  ASSUME NEW time \in Nat
  PROVE  utc_day(time) \in Int
BY ValidationAssumption DEF utc_day, load_data_validation_config

LEMMA ConnectSound ==
  ASSUME IInv, NEW snapshots \in SUBSET SnapshotIds, Connect(snapshots)
  PROVE  IInv'
<1>1. CaptureSound(capture) /\ clock \in Nat
  BY DEF IInv
<1>2. Capturing /\ UNCHANGED <<report, dataset, replay>> /\ clock' \in Nat
  BY <1>1 DEF Connect
<1> DEFINE opened == [started |-> clock', messages |-> 0]
           taken == {[connection |-> Current + 1, last |-> last] : last \in snapshots}
<1>3. capture' = [records |-> capture.records,
                  connections |-> Append(capture.connections, opened),
                  snapshots |-> capture.snapshots \cup taken,
                  origin |-> capture.origin, status |-> capture.status]
  BY <1>1 DEF Connect, CaptureSound
<1>4. opened \in Connections
  BY <1>2 DEF Connections
<1>5. IsFiniteSet(taken) /\ \A s \in taken : s.last \in SnapshotIds
  <2>1. IsFiniteSet(snapshots)
    <3>0. SnapshotIds \subseteq 0 .. LastId /\ LastId \in Nat
      BY PipelineAssumption, SynchronizerAssumption, Zenon
    <3>1. snapshots \in SUBSET (0 .. LastId) /\ LastId \in Int /\ 0 \in Int
      BY <3>0
    <3>2. IsFiniteSet(0 .. LastId)
      BY <3>1, FS_Interval
    <3> QED BY <3>1, <3>2, FS_Subset
  <2>2. IsFiniteSet(taken)
    <3>1. [last \in snapshots |-> [connection |-> Current + 1, last |-> last]]
            \in Surjection(snapshots, taken)
      BY DEF Surjection
    <3> QED BY <2>1, <3>1, FS_Surjection
  <2> QED BY <2>2
<1> HIDE DEF opened, taken
<1>6. CaptureSound(capture)'
  <2>1. /\ Append(capture.connections, opened) \in Seq(Connections)
        /\ IsFiniteSet(capture.snapshots \cup taken)
    BY <1>1, <1>4, <1>5, AppendFacts, FS_Union DEF CaptureSound
  <2> QED BY <1>1, <1>3, <1>5, <2>1 DEF CaptureSound
<1>7. StagesSound'
  BY <1>2, CapturingKeepsStages
<1> QED BY <1>2, <1>6, <1>7 DEF IInv

LEMMA RecordSound ==
  ASSUME IInv, NEW kind \in {"depth", "trade", "other"}, NEW payload \in Payloads,
         kind = "depth" => payload \in Feed,
         NEW event \in Nat, NEW intact \in BOOLEAN, Record(kind, payload, event, intact)
  PROVE  IInv'
<1>1. CaptureSound(capture) /\ clock \in Nat
  BY DEF IInv
<1>2. Capturing /\ UNCHANGED <<report, dataset, replay>> /\ Current > 0
  BY DEF Record
<1> DEFINE r(time) == [connection |-> Current,
                       index |-> capture.connections[Current].messages,
                       received |-> time, segmentDay |-> utc_day(time),
                       event |-> event, kind |-> kind, data |-> payload, intact |-> intact]
           counted == [capture.connections EXCEPT ![Current] =
                         [started |-> capture.connections[Current].started,
                          messages |-> capture.connections[Current].messages + 1]]
<1>3. capture.connections[Current] \in Connections /\ Current \in 1 .. Len(capture.connections)
  <2>1. capture.connections \in Seq(Connections)
    BY <1>1 DEF CaptureSound
  <2> QED BY <1>2, <2>1 DEF Current
<1>4. PICK time \in Nat :
        /\ clock' = time
        /\ capture' = [records |-> Append(capture.records, r(time)), connections |-> counted,
                       snapshots |-> capture.snapshots, origin |-> capture.origin,
                       status |-> capture.status]
  <2>1. PICK time \in {clock, clock + 1} :
          /\ clock' = time
          /\ capture' = [capture EXCEPT
               !.records = Append(@, [connection |-> Current,
                                      index |-> capture.connections[Current].messages,
                                      received |-> time, segmentDay |-> utc_day(time),
                                      event |-> event, kind |-> kind, data |-> payload,
                                      intact |-> intact]),
               !.connections[Current].messages = @ + 1]
    BY DEF Record
  <2>2. capture = [records |-> capture.records, connections |-> capture.connections,
                   snapshots |-> capture.snapshots, origin |-> capture.origin,
                   status |-> capture.status]
    BY <1>1 DEF CaptureSound
  <2>3. capture' = [records |-> Append(capture.records, r(time)),
                    connections |-> [capture.connections EXCEPT ![Current].messages = @ + 1],
                    snapshots |-> capture.snapshots, origin |-> capture.origin,
                    status |-> capture.status]
    BY <2>1, <2>2
  <2>4. [capture.connections EXCEPT ![Current].messages = @ + 1] = counted
    BY <1>3 DEF Connections
  <2>5. time \in Nat /\ clock' = time
    BY <1>1, <2>1
  <2> HIDE DEF r, counted
  <2>6. capture' = [records |-> Append(capture.records, r(time)), connections |-> counted,
                    snapshots |-> capture.snapshots, origin |-> capture.origin,
                    status |-> capture.status]
    BY <2>3, <2>4
  <2> QED BY <2>5, <2>6
<1>5. r(time) \in Records
  BY <1>3, DayType DEF Records, Connections, Current
<1>6. counted \in Seq(Connections)
  <2>1. [started |-> capture.connections[Current].started,
         messages |-> capture.connections[Current].messages + 1] \in Connections
    BY <1>3 DEF Connections
  <2>2. capture.connections \in Seq(Connections)
    BY <1>1 DEF CaptureSound
  <2> QED BY <1>3, <2>1, <2>2
<1>7. r(time).received = time /\ r(time).segmentDay = utc_day(time)
       /\ r(time).kind = kind /\ r(time).data = payload
  OBVIOUS
<1> HIDE DEF r, counted
<1>8. CaptureSound(capture)'
  <2>1. /\ Append(capture.records, r(time)) \in Seq(Records)
        /\ ToSet(Append(capture.records, r(time))) = ToSet(capture.records) \cup {r(time)}
    BY <1>1, <1>5, AppendFacts DEF CaptureSound
  <2> QED BY <1>1, <1>4, <1>6, <1>7, <2>1 DEF CaptureSound
<1>9. StagesSound'
  BY <1>2, CapturingKeepsStages
<1> QED BY <1>4, <1>8, <1>9 DEF IInv

\* The times that a message may name are times.
LEMMA EventTimesType ==
  ASSUME IInv, NEW kind, NEW payload
  PROVE  EventTimes(kind, payload) \subseteq Nat
<1>1. capture.records \in Seq(Records) /\ clock \in Nat
  BY DEF IInv, CaptureSound
<1>2. \A r \in ToSet(capture.records) : r.event \in Nat
  <2>1. ToSet(capture.records) \subseteq Records
    BY <1>1, ToSetElements
  <2> QED BY <2>1 DEF Records
<1> QED BY <1>1, <1>2 DEF EventTimes

LEMMA ReceiveSound ==
  ASSUME IInv, ReceiveDepth \/ ReceiveTrade \/ ReceiveOther
  PROVE  IInv'
<1>1. clock \in Nat
  BY DEF IInv
<1>2. CASE ReceiveDepth
  <2>1. PICK u \in Feed : \E event \in EventTimes("depth", u) : Record("depth", u, event, TRUE)
    BY <1>2 DEF ReceiveDepth
  <2>2. PICK event \in EventTimes("depth", u) : Record("depth", u, event, TRUE)
    BY <2>1
  <2>3. event \in Nat /\ u \in Payloads
    BY <2>2, EventTimesType DEF Payloads
  <2> QED BY <2>2, <2>3, RecordSound
<1>3. CASE ReceiveTrade
  <2>1. PICK id \in TradeIds :
          \E event \in EventTimes("trade", id) \cup {clock + 1} : Record("trade", id, event, TRUE)
    BY <1>3 DEF ReceiveTrade
  <2>2. PICK event \in EventTimes("trade", id) \cup {clock + 1} :
          Record("trade", id, event, TRUE)
    BY <2>1
  <2>3. event \in Nat /\ id \in Payloads
    BY <1>1, <2>2, EventTimesType DEF Payloads
  <2> QED BY <2>2, <2>3, RecordSound
<1>4. CASE ReceiveOther
  <2>1. CASE Record("other", 0, clock, TRUE)
    <3>1. 0 \in Payloads
      BY DEF Payloads
    <3> QED BY <1>1, <2>1, <3>1, RecordSound
  <2>2. ASSUME NEW u \in Feed, Record("depth", u, clock, FALSE) PROVE IInv'
    <3>1. u \in Payloads
      BY DEF Payloads
    <3> QED BY <1>1, <2>2, <3>1, RecordSound
  <2> QED BY <1>4, <2>1, <2>2 DEF ReceiveOther
<1> QED BY <1>2, <1>3, <1>4

LEMMA ValidateSound ==
  ASSUME IInv, Validate
  PROVE  IInv'
<1>1. CaptureSound(capture) /\ clock \in Nat /\ Capturing
  BY DEF IInv, Validate
<1>2. dataset = NoResult /\ replay = NoResult
  BY <1>1 DEF IInv, StagesSound
<1>3. PICK outcome \in Outcomes :
        /\ capture' = [capture EXCEPT !.origin = outcome[1], !.status = outcome[2]]
        /\ report' = validate_capture_data(capture')
  BY DEF Validate
<1>4. outcome[2] \in {"complete", "pilot_incomplete"}
  <2>1. Outcomes \subseteq {"live", "fixture"} \X {"complete", "pilot_incomplete"}
    BY PipelineAssumption, Zenon
  <2> QED BY <1>3, <2>1
<1>5. capture' = [records |-> capture.records, connections |-> capture.connections,
                  snapshots |-> capture.snapshots, origin |-> outcome[1], status |-> outcome[2]]
  BY <1>1, <1>3 DEF CaptureSound
<1>6. CaptureSound(capture)'
  BY <1>1, <1>5 DEF CaptureSound
<1>7. ~Capturing'
  BY <1>4, <1>5 DEF Capturing
<1>8. clock' = clock /\ dataset' = dataset /\ replay' = replay
  BY DEF Validate
<1>9. StagesSound'
  BY <1>2, <1>3, <1>7, <1>8 DEF StagesSound
<1> QED BY <1>1, <1>6, <1>8, <1>9 DEF IInv

LEMMA CanonicalizeSound ==
  ASSUME IInv, Canonicalize
  PROVE  IInv'
<1>1. /\ UNCHANGED <<clock, capture, report, replay>>
      /\ report # NoResult /\ dataset = NoResult
  BY DEF Canonicalize
<1>2. Canonicalized(dataset')
  BY DEF Canonicalize, Canonicalized
<1>3. Canonicalized(dataset)'
  BY <1>1, <1>2 DEF Canonicalized
<1>4. replay = NoResult
  BY <1>1 DEF IInv, StagesSound
<1>5. StagesSound'
  BY <1>1, <1>3, <1>4 DEF IInv, StagesSound, Capturing
<1> QED BY <1>1, <1>5 DEF IInv, CaptureSound

LEMMA ReplaySound ==
  ASSUME IInv, Replay
  PROVE  IInv'
<1>1. /\ UNCHANGED <<clock, capture, report, dataset>>
      /\ dataset # NoResult
  BY DEF Replay
<1>2. ReplayedFrom(replay)'
  BY <1>1 DEF Replay, ReplayedFrom
<1>3. Canonicalized(dataset)' <=> Canonicalized(dataset)
  BY <1>1 DEF Canonicalized
<1>4. StagesSound'
  BY <1>1, <1>2, <1>3 DEF IInv, StagesSound, Capturing
<1> QED BY <1>1, <1>4 DEF IInv, CaptureSound

LEMMA StepSound == IInv /\ [Next]_vars => IInv'
<1> SUFFICES ASSUME IInv, [Next]_vars PROVE IInv'
  OBVIOUS
<1>1. ASSUME NEW last \in SnapshotIds, Connect({last}) PROVE IInv'
  BY <1>1, ConnectSound
<1>2. CASE Connect({}) \/ Connect(SnapshotIds)
  BY <1>2, ConnectSound
<1>3. CASE UNCHANGED vars
  <2>1. UNCHANGED <<clock, capture, report, dataset, replay>>
    BY <1>3 DEF vars
  <2>2. /\ Canonicalized(dataset)' <=> Canonicalized(dataset)
        /\ ReplayedFrom(replay)' <=> ReplayedFrom(replay)
    BY <2>1 DEF Canonicalized, ReplayedFrom
  <2> QED BY <2>1, <2>2 DEF IInv, CaptureSound, StagesSound, Capturing
<1> QED BY <1>1, <1>2, <1>3, ReceiveSound, ValidateSound, CanonicalizeSound, ReplaySound
      DEF Next

\* Throughout, the capture is well formed, and every result of a stage is the
\* function of the stage before that the code computes.
THEOREM StagesInvariance == Spec => []IInv
BY InitSound, StepSound, PTL DEF Spec

-----------------------------------------------------------------------------
(***************************************************************************)
(* What is built.                                                          *)
(***************************************************************************)

\* What the builder makes of a capture that it does not refuse.
LEMMA BuildOutcome ==
  ASSUME NEW of, NEW rep, NEW tier \in {"sample", "processed"}, NEW parquet,
         NEW d, d = build_canonical_dataset(of, rep, tier, parquet), d.ok,
         NEW days, days = SelectedDays(rep, tier),
         NEW kept, kept = deduplicate(raw_records(of, days)),
         NEW snapshots, snapshots = snapshot_rows(of, days)
  PROVE  /\ kept.ok /\ RowsExact(kept.unique) /\ SnapshotsExact(snapshots)
         /\ tier = "processed" => parquet
         /\ d = [ok |-> TRUE, classification |-> Classification(tier),
                 research |-> Classification(tier) = "research_processed",
                 days |-> days, input |-> Len(raw_records(of, days)),
                 unique |-> Len(kept.unique), dropped |-> Len(kept.duplicates),
                 rows |-> build_rows(kept.unique),
                 duplicates |-> kept.duplicates, starts |-> of.connections,
                 snapshots |-> {[connection |-> s.connection, last |-> s.last,
                                 book |-> [l \in Level |-> decimal_to_units(Truth[s.last][l])]] :
                                s \in snapshots},
                 parquet |-> tier = "processed"]
<1>1. \A why : ~Refused(why).ok
  BY DEF Refused
<1>2. d # Refused("no_selected_day") /\ d # Refused("sample_is_for_the_fixture")
      /\ d # Refused("conflicting_duplicate") /\ d # Refused("inexact") /\ d # Refused("no_parquet")
  BY <1>1
<1> QED BY <1>2, Zenon DEF build_canonical_dataset

\* A day that is selected for research is one that the validator admitted.
LEMMA AdmittedDay ==
  ASSUME NEW of, NEW day \in SelectedDays(validate_capture_data(of), "processed")
  PROVE  Decision(of, day).admission = "admitted"
<1>1. PICK d \in validate_capture_data(of) : d.admission = "admitted" /\ d.day = day
  BY DEF SelectedDays
<1>2. PICK other \in Days(of) : d = Decision(of, other)
  BY <1>1 DEF validate_capture_data
<1>3. d.day = other
  BY <1>2 DEF Decision
<1> QED BY <1>1, <1>2, <1>3

\* And a day is admitted only if nothing speaks against it.
LEMMA AdmissionReason ==
  ASSUME NEW of, NEW day, Decision(of, day).admission = "admitted"
  PROVE  /\ of.origin = "live" /\ of.status = "complete"
         /\ \A i \in Issues(of) : i.severity = "critical" => i.day # NoDay /\ i.day # day
<1>1. Reasons(of, day) = {} /\ AdmissionReasons(of) = {}
  <2>1. Decision(of, day).admission =
          IF Reasons(of, day) # {} THEN "quarantined"
          ELSE IF AdmissionReasons(of) = {} THEN "admitted"
          ELSE IF of.origin = "fixture" THEN "fixture_valid_not_admissible"
          ELSE "not_admissible"
    BY DEF Decision
  <2> QED BY <2>1
<1>2. of.origin = "live" /\ of.status = "complete"
  BY <1>1 DEF AdmissionReasons
<1>3. ~ \E i \in Issues(of) : i.severity = "critical" /\ i.day \in {NoDay, day}
  BY <1>1 DEF Reasons
<1> QED BY <1>2, <1>3

\* Research data comes only from days of a complete live capture that had no
\* critical issue (OnlyAdmittedIsResearch), whatever tier is asked for and
\* whatever report lies before the builders.
THEOREM AdmittedAlways == Spec => []OnlyAdmittedIsResearch
<1>1. IInv => OnlyAdmittedIsResearch
  <2> SUFFICES ASSUME IInv PROVE OnlyAdmittedIsResearch
    OBVIOUS
  <2>1. ASSUME Built, dataset.research
        PROVE  /\ capture.origin = "live" /\ capture.status = "complete"
               /\ \A i \in Issues(capture) : i.severity = "critical" =>
                    i.day \notin dataset.days \cup {NoDay}
    <3>1. dataset # NoResult /\ dataset.ok
      BY <2>1 DEF Built
    <3>2. report = validate_capture_data(capture) /\ Canonicalized(dataset)
      BY <3>1 DEF IInv, StagesSound
    <3>3. PICK tier \in {"sample", "processed"} :
            \E parquet \in BOOLEAN : dataset = build_canonical_dataset(capture, report, tier, parquet)
      BY <3>2 DEF Canonicalized
    <3>4. PICK parquet \in BOOLEAN :
            dataset = build_canonical_dataset(capture, report, tier, parquet)
      BY <3>3
    <3>5. PICK days : days = SelectedDays(report, tier)
      OBVIOUS
    <3>6. /\ dataset.days = days
          /\ dataset.research = (Classification(tier) = "research_processed")
      <4>1. PICK kept : kept = deduplicate(raw_records(capture, days))
        OBVIOUS
      <4>2. PICK snapshots : snapshots = snapshot_rows(capture, days)
        OBVIOUS
      <4> QED BY <3>1, <3>4, <3>5, <4>1, <4>2, BuildOutcome
    <3>7. tier = "processed"
      BY <2>1, <3>6 DEF Classification
    <3>8. days # {}
      <4>1. SelectedDays(report, tier) = {} =>
              build_canonical_dataset(capture, report, tier, parquet) = Refused("no_selected_day")
        BY Zenon DEF build_canonical_dataset
      <4> QED BY <3>1, <3>4, <3>5, <4>1 DEF Refused
    <3>9. \A day \in days :
            /\ capture.origin = "live" /\ capture.status = "complete"
            /\ \A i \in Issues(capture) : i.severity = "critical" => i.day # NoDay /\ i.day # day
      BY <3>2, <3>5, <3>7, AdmittedDay, AdmissionReason
    <3> QED BY <3>6, <3>8, <3>9
  <2>2. ASSUME Replayed, replay.research PROVE dataset.research
    <3>1. ReplayedFrom(replay) /\ replay.ok
      BY <2>2 DEF IInv, StagesSound, Replayed
    <3>2. PICK requireResearch \in {RequireExact, FALSE} :
            replay = build_historical_replay(dataset, requireResearch)
      BY <3>1 DEF ReplayedFrom
    <3>3. \A why : ~Refused(why).ok
      BY DEF Refused
    <3>4. replay.research = (dataset.research
                              /\ ~ (dataset.classification = "sample_only_non_research"))
      BY <3>1, <3>2, <3>3 DEF build_historical_replay
    <3> QED BY <2>2, <3>4
  <2> QED BY <2>1, <2>2, Zenon DEF OnlyAdmittedIsResearch
<1> QED BY <1>1, StagesInvariance, PTL

-----------------------------------------------------------------------------
(***************************************************************************)
(* Canonicalisation.                                                       *)
(***************************************************************************)

\* The raw records of some days are the records of the capture that were
\* received on one of them.
LEMMA RawRecords ==
  ASSUME NEW of, CaptureSound(of), NEW days
  PROVE  /\ raw_records(of, days) \in Seq(Records)
         /\ ToSet(raw_records(of, days)) = {r \in ToSet(of.records) : utc_day(r.received) \in days}
<1> DEFINE positions == {k \in DOMAIN of.records : of.records[k].segmentDay \in days}
<1>1. of.records \in Seq(Records)
  BY DEF CaptureSound
<1>2. /\ ElementsAt(of.records, positions) \in Seq(Records)
      /\ ToSet(ElementsAt(of.records, positions))
           = {of.records[k] : k \in (1 .. Len(of.records)) \cap positions}
  <2> HIDE DEF positions
  <2> QED BY <1>1, ElementsAtFacts
<1>3. DOMAIN of.records = 1 .. Len(of.records)
  BY <1>1
<1>4. ToSet(of.records) = {of.records[k] : k \in 1 .. Len(of.records)}
  BY <1>1, ToSetElements
<1>5. \A k \in 1 .. Len(of.records) : of.records[k].segmentDay = utc_day(of.records[k].received)
  BY <1>4 DEF CaptureSound
<1>6. {of.records[k] : k \in (1 .. Len(of.records)) \cap positions}
        = {r \in ToSet(of.records) : utc_day(r.received) \in days}
  BY <1>3, <1>4, <1>5
<1>7. raw_records(of, days) = ElementsAt(of.records, positions)
  BY DEF raw_records
<1> QED BY <1>2, <1>6, <1>7

\* What is deduplicated are messages of the feed, depth events among them.
LEMMA UniqueFacts ==
  ASSUME NEW of, CaptureSound(of), NEW days,
         NEW kept, kept = deduplicate(raw_records(of, days)), kept.ok
  PROVE  /\ Deduplicated(kept, Records, ToSet(raw_records(of, days)), Len(raw_records(of, days)))
         /\ \A k \in 1 .. Len(kept.unique) :
              /\ kept.unique[k] \in ToSet(kept.unique)
              /\ kept.unique[k].kind = "depth" => kept.unique[k].data \in Feed
<1>1. Deduplicated(kept, Records, ToSet(raw_records(of, days)), Len(raw_records(of, days)))
  BY RawRecords, DeduplicateSound
<1>2. kept.unique \in Seq(Records) /\ ToSet(kept.unique) \subseteq ToSet(raw_records(of, days))
  BY <1>1 DEF Deduplicated
<1>3. ToSet(kept.unique) \subseteq ToSet(of.records)
  BY <1>2, RawRecords
<1>4. \A k \in 1 .. Len(kept.unique) : kept.unique[k] \in ToSet(kept.unique)
  BY <1>2, ToSetElements
<1> QED BY <1>1, <1>3, <1>4 DEF CaptureSound

\* The rows keep the records of the builder, in their order.
LEMMA RowsOf ==
  ASSUME NEW R, NEW unique \in Seq(R)
  PROVE  /\ DOMAIN build_rows(unique) = 1 .. Len(unique)
         /\ \A k \in 1 .. Len(unique) :
              /\ build_rows(unique)[k].record = unique[k]
              /\ unique[k].kind = "depth" =>
                   build_rows(unique)[k].deltas
                     = [l \in DOMAIN Changes(unique[k].data) |->
                          decimal_to_units(Changes(unique[k].data)[l])]
         /\ ToSet(build_rows(unique)) = {build_rows(unique)[k] : k \in 1 .. Len(unique)}
         /\ {row.record : row \in ToSet(build_rows(unique))} = ToSet(unique)
         /\ Len(build_rows(unique)) = Len(unique)
<1>1. DOMAIN unique = 1 .. Len(unique)
  OBVIOUS
<1>2. PICK rows : rows = build_rows(unique)
  OBVIOUS
<1>3. /\ DOMAIN rows = 1 .. Len(unique)
      /\ \A k \in 1 .. Len(unique) :
           /\ rows[k].record = unique[k]
           /\ unique[k].kind = "depth" =>
                rows[k].deltas = [l \in DOMAIN Changes(unique[k].data) |->
                                    decimal_to_units(Changes(unique[k].data)[l])]
  BY <1>1, <1>2 DEF build_rows
<1>4. ToSet(rows) = {rows[k] : k \in 1 .. Len(unique)}
  BY <1>3 DEF ToSet
<1>5. ToSet(unique) = {unique[k] : k \in 1 .. Len(unique)}
  BY ToSetElements
<1>6. {row.record : row \in ToSet(rows)} = ToSet(unique)
  <2>1. {row.record : row \in ToSet(rows)} = {rows[k].record : k \in 1 .. Len(unique)}
    BY <1>4
  <2>2. {rows[k].record : k \in 1 .. Len(unique)} = {unique[k] : k \in 1 .. Len(unique)}
    <3>1. \A k \in 1 .. Len(unique) : rows[k].record = unique[k]
      BY <1>3
    <3> QED BY <3>1
  <2> QED BY <1>5, <2>1, <2>2
<1>7. Len(rows) = Len(unique)
  BY <1>1, <1>2 DEF build_rows
<1> QED BY <1>2, <1>3, <1>4, <1>6, <1>7

\* What is exact in increments is that many increments.
LEMMA UnitsOfExact ==
  ASSUME NEW quantity \in Nat, Exact(quantity)
  PROVE  decimal_to_units(quantity) * Increment = quantity
<1>1. Increment \in Nat \ {0}
  BY CanonicalAssumption DEF positive_increment
<1> QED BY <1>1 DEF Exact, decimal_to_units

\* The exchange's quantities are natural numbers.
LEMMA TruthType ==
  ASSUME NEW last \in 0 .. LastId, NEW l \in Level
  PROVE  Truth[last][l] \in Nat
BY SynchronizerAssumption DEF Book

\* The levels that an event brings are those of the exchange after it.
LEMMA ChangesFacts ==
  ASSUME NEW u \in Feed
  PROVE  /\ u \in Update /\ u.final \in 0 .. LastId
         /\ DOMAIN Changes(u) \subseteq Level
         /\ \A l \in DOMAIN Changes(u) : Changes(u)[l] = Truth[u.final][l]
<1>1. u \in Update
  <2>1. Feed \subseteq Update
    BY PipelineAssumption, Zenon
  <2> QED BY <2>1
<1>2. u.final \in 0 .. LastId
  BY <1>1 DEF Update
<1> QED BY <1>1, <1>2 DEF Changes

\* What a dataset that was built consists of.
LEMMA BuiltFacts ==
  ASSUME IInv, Built
  PROVE  \E days, kept, snapshots :
           /\ kept = deduplicate(raw_records(capture, days)) /\ kept.ok
           /\ snapshots = snapshot_rows(capture, days)
           /\ RowsExact(kept.unique) /\ SnapshotsExact(snapshots)
           /\ dataset.days = days /\ dataset.input = Len(raw_records(capture, days))
           /\ dataset.unique = Len(kept.unique) /\ dataset.dropped = Len(kept.duplicates)
           /\ dataset.rows = build_rows(kept.unique)
           /\ dataset.duplicates = kept.duplicates
           /\ dataset.starts = capture.connections
           /\ dataset.research = (dataset.classification = "research_processed")
           /\ dataset.research => dataset.parquet
           /\ dataset.classification \in {"research_processed", "sample_only_non_research"}
           /\ dataset.snapshots =
                {[connection |-> s.connection, last |-> s.last,
                  book |-> [l \in Level |-> decimal_to_units(Truth[s.last][l])]] : s \in snapshots}
<1>1. dataset # NoResult /\ dataset.ok
  BY DEF Built
<1>2. Canonicalized(dataset)
  BY <1>1 DEF IInv, StagesSound
<1>3. PICK tier \in {"sample", "processed"} :
        \E parquet \in BOOLEAN : dataset = build_canonical_dataset(capture, report, tier, parquet)
  BY <1>2 DEF Canonicalized
<1>4. PICK parquet \in BOOLEAN :
        dataset = build_canonical_dataset(capture, report, tier, parquet)
  BY <1>3
<1>5. PICK days : days = SelectedDays(report, tier)
  OBVIOUS
<1>6. PICK kept : kept = deduplicate(raw_records(capture, days))
  OBVIOUS
<1>7. PICK snapshots : snapshots = snapshot_rows(capture, days)
  OBVIOUS
<1>8. /\ kept.ok /\ RowsExact(kept.unique) /\ SnapshotsExact(snapshots)
      /\ dataset = [ok |-> TRUE, classification |-> Classification(tier),
                    research |-> Classification(tier) = "research_processed",
                    days |-> days, input |-> Len(raw_records(capture, days)),
                    unique |-> Len(kept.unique), dropped |-> Len(kept.duplicates),
                    rows |-> build_rows(kept.unique),
                    duplicates |-> kept.duplicates, starts |-> capture.connections,
                    snapshots |-> {[connection |-> s.connection, last |-> s.last,
                                    book |-> [l \in Level |-> decimal_to_units(Truth[s.last][l])]] :
                                   s \in snapshots},
                    parquet |-> tier = "processed"]
  BY <1>1, <1>4, <1>5, <1>6, <1>7, BuildOutcome
<1>9. /\ dataset.days = days /\ dataset.input = Len(raw_records(capture, days))
      /\ dataset.unique = Len(kept.unique) /\ dataset.dropped = Len(kept.duplicates)
      /\ dataset.rows = build_rows(kept.unique)
      /\ dataset.duplicates = kept.duplicates
      /\ dataset.starts = capture.connections
      /\ dataset.research = (Classification(tier) = "research_processed")
      /\ dataset.classification = Classification(tier)
      /\ dataset.parquet = (tier = "processed")
      /\ dataset.snapshots =
           {[connection |-> s.connection, last |-> s.last,
             book |-> [l \in Level |-> decimal_to_units(Truth[s.last][l])]] : s \in snapshots}
  BY <1>8, Zenon
<1>10. /\ Classification(tier) = "research_processed" => tier = "processed"
       /\ Classification(tier) \in {"research_processed", "sample_only_non_research"}
  BY DEF Classification
<1> QED BY <1>6, <1>7, <1>8, <1>9, <1>10

LEMMA NothingLost ==
  ASSUME IInv
  PROVE  DeduplicationExact
<1> SUFFICES ASSUME Built
             PROVE  LET written == {row.record : row \in ToSet(dataset.rows)}
                        raw == {r \in ToSet(capture.records) :
                                  utc_day(r.received) \in dataset.days}
                    IN /\ raw = written \cup ToSet(dataset.duplicates)
                       /\ Len(dataset.rows) + Len(dataset.duplicates) = dataset.input
                       /\ \A k, j \in DOMAIN dataset.rows : k # j =>
                            NaturalKey(dataset.rows[k].record) # NaturalKey(dataset.rows[j].record)
                       /\ \A r \in ToSet(dataset.duplicates) :
                            \E q \in written : SameDigest(q, r)
  BY DEF DeduplicationExact
<1>1. CaptureSound(capture)
  BY DEF IInv
<1>2. PICK days, kept, snapshots :
        /\ kept = deduplicate(raw_records(capture, days)) /\ kept.ok
        /\ dataset.days = days /\ dataset.input = Len(raw_records(capture, days))
        /\ dataset.rows = build_rows(kept.unique)
        /\ dataset.duplicates = kept.duplicates
  BY BuiltFacts
<1>3. Deduplicated(kept, Records, ToSet(raw_records(capture, days)),
                   Len(raw_records(capture, days)))
  BY <1>1, <1>2, UniqueFacts
<1>4. /\ kept.unique \in Seq(Records)
      /\ Len(kept.unique) + Len(kept.duplicates) = dataset.input
      /\ ToSet(kept.unique) \cup ToSet(kept.duplicates) = ToSet(raw_records(capture, days))
      /\ \A k, j \in 1 .. Len(kept.unique) :
           k # j => NaturalKey(kept.unique[k]) # NaturalKey(kept.unique[j])
      /\ \A r \in ToSet(kept.duplicates) : \E q \in ToSet(kept.unique) : SameDigest(q, r)
  BY <1>2, <1>3 DEF Deduplicated
<1>5. /\ {row.record : row \in ToSet(dataset.rows)} = ToSet(kept.unique)
      /\ DOMAIN dataset.rows = 1 .. Len(kept.unique)
      /\ \A k \in 1 .. Len(kept.unique) : dataset.rows[k].record = kept.unique[k]
  <2>1. PICK unique : unique = kept.unique
    OBVIOUS
  <2>2. unique \in Seq(Records) /\ dataset.rows = build_rows(unique)
    BY <1>2, <1>4, <2>1
  <2>3. /\ {row.record : row \in ToSet(build_rows(unique))} = ToSet(unique)
        /\ DOMAIN build_rows(unique) = 1 .. Len(unique)
        /\ \A k \in 1 .. Len(unique) : build_rows(unique)[k].record = unique[k]
    BY <2>2, RowsOf
  <2> QED BY <2>1, <2>2, <2>3
<1>6. {r \in ToSet(capture.records) : utc_day(r.received) \in dataset.days}
        = ToSet(raw_records(capture, days))
  BY <1>1, <1>2, RawRecords
<1>7. \A k, j \in DOMAIN dataset.rows : k # j =>
        NaturalKey(dataset.rows[k].record) # NaturalKey(dataset.rows[j].record)
  BY <1>4, <1>5
<1>8. Len(dataset.rows) = Len(kept.unique)
  <2>1. PICK unique : unique = kept.unique
    OBVIOUS
  <2>2. unique \in Seq(Records) /\ dataset.rows = build_rows(unique)
    BY <1>2, <1>4, <2>1
  <2> QED BY <2>1, <2>2, RowsOf
<1> QED BY <1>2, <1>4, <1>5, <1>6, <1>7, <1>8

LEMMA NothingRounded ==
  ASSUME IInv
  PROVE  UnitsExact
<1> SUFFICES ASSUME Built
             PROVE  /\ \A row \in ToSet(dataset.rows) : row.record.kind = "depth" =>
                         \A l \in DOMAIN row.deltas :
                           row.deltas[l] * Increment = Truth[row.record.data.final][l]
                    /\ \A s \in dataset.snapshots, l \in Level :
                         s.book[l] * Increment = Truth[s.last][l]
  BY DEF UnitsExact
<1>1. CaptureSound(capture)
  BY DEF IInv
<1>2. PICK days, kept, snapshots :
        /\ kept = deduplicate(raw_records(capture, days)) /\ kept.ok
        /\ snapshots = snapshot_rows(capture, days)
        /\ RowsExact(kept.unique) /\ SnapshotsExact(snapshots)
        /\ dataset.rows = build_rows(kept.unique)
        /\ dataset.snapshots =
             {[connection |-> s.connection, last |-> s.last,
               book |-> [l \in Level |-> decimal_to_units(Truth[s.last][l])]] : s \in snapshots}
  BY BuiltFacts
<1>3. /\ Deduplicated(kept, Records, ToSet(raw_records(capture, days)),
                      Len(raw_records(capture, days)))
      /\ \A k \in 1 .. Len(kept.unique) :
           /\ kept.unique[k] \in ToSet(kept.unique)
           /\ kept.unique[k].kind = "depth" => kept.unique[k].data \in Feed
  BY <1>1, <1>2, UniqueFacts
<1>4. kept.unique \in Seq(Records)
  BY <1>3 DEF Deduplicated
<1>5. ASSUME NEW row \in ToSet(dataset.rows), row.record.kind = "depth",
             NEW l \in DOMAIN row.deltas
      PROVE  row.deltas[l] * Increment = Truth[row.record.data.final][l]
  <2>1. ToSet(dataset.rows) = {dataset.rows[k] : k \in 1 .. Len(kept.unique)}
    BY <1>2, <1>4, RowsOf
  <2>2. PICK k \in 1 .. Len(kept.unique) : row = dataset.rows[k]
    BY <2>1
  <2>3. /\ row.record = kept.unique[k]
        /\ kept.unique[k].kind = "depth" =>
             row.deltas = [i \in DOMAIN Changes(kept.unique[k].data) |->
                             decimal_to_units(Changes(kept.unique[k].data)[i])]
    BY <1>2, <1>4, <2>2, RowsOf
  <2>4. PICK u \in Feed : u = kept.unique[k].data
    BY <1>3, <1>5, <2>3
  <2>5. row.deltas = [i \in DOMAIN Changes(u) |-> decimal_to_units(Changes(u)[i])]
    BY <1>5, <2>3, <2>4
  <2>6. /\ l \in DOMAIN Changes(u) /\ l \in Level /\ Changes(u)[l] = Truth[u.final][l]
        /\ u.final \in 0 .. LastId
    BY <1>5, <2>5, ChangesFacts
  <2>7. Exact(Changes(u)[l])
    BY <1>2, <1>3, <1>5, <2>3, <2>4, <2>6 DEF RowsExact
  <2>8. decimal_to_units(Truth[u.final][l]) * Increment = Truth[u.final][l]
    BY <2>6, <2>7, TruthType, UnitsOfExact
  <2> QED BY <2>3, <2>4, <2>5, <2>6, <2>8
<1>6. ASSUME NEW s \in dataset.snapshots, NEW l \in Level
      PROVE  s.book[l] * Increment = Truth[s.last][l]
  <2>1. PICK taken \in snapshots :
          s = [connection |-> taken.connection, last |-> taken.last,
               book |-> [i \in Level |-> decimal_to_units(Truth[taken.last][i])]]
    BY <1>2
  <2>2. s.last = taken.last /\ s.book[l] = decimal_to_units(Truth[taken.last][l])
    BY <2>1
  <2>3. Exact(Truth[taken.last][l])
    BY <1>2 DEF SnapshotsExact
  <2>4. taken.last \in 0 .. LastId
    <3>1. SnapshotIds \subseteq 0 .. LastId
      BY PipelineAssumption, Zenon
    <3>2. taken \in capture.snapshots
      BY <1>2 DEF snapshot_rows
    <3> QED BY <1>1, <3>1, <3>2 DEF CaptureSound
  <2>5. decimal_to_units(Truth[taken.last][l]) * Increment = Truth[taken.last][l]
    BY <2>3, <2>4, TruthType, UnitsOfExact
  <2> QED BY <2>2, <2>5
<1> QED BY <1>5, <1>6

\* The canonical dataset accounts for every record of its days, once, and its
\* integer quantities are exactly the exchange's (CanonicalExact), for every
\* capture, every feed and every increment.
THEOREM CanonicalAlwaysExact == Spec => []CanonicalExact
<1>1. IInv => CanonicalExact
  BY NothingLost, NothingRounded DEF CanonicalExact
<1> QED BY <1>1, StagesInvariance, PTL

-----------------------------------------------------------------------------
(***************************************************************************)
(* What a structurally valid day says of the books.                        *)
(***************************************************************************)

\* The events of a connection are events of the feed.
LEMMA DepthOfType ==
  ASSUME NEW of, CaptureSound(of), NEW c
  PROVE  DepthOf(of, c) \in Seq(Update)
<1> DEFINE here == {k \in DOMAIN of.records : of.records[k].connection = c}
<1>1. PICK records : records = RecordsOf(of, c)
  OBVIOUS
<1>2. records = ElementsAt(of.records, here)
  BY <1>1 DEF RecordsOf
<1>3. of.records \in Seq(Records)
  BY DEF CaptureSound
<1> HIDE DEF here
<1>4. records \in Seq(Records) /\ ToSet(records) \subseteq ToSet(of.records)
  <2>1. /\ records \in Seq(Records)
        /\ ToSet(records) = {of.records[k] : k \in (1 .. Len(of.records)) \cap here}
    BY <1>2, <1>3, ElementsAtFacts
  <2> QED BY <1>3, <2>1, ToSetElements
<1> DEFINE booked == {k \in DOMAIN records : records[k].intact /\ records[k].kind = "depth"}
<1>5. PICK depth : depth = ElementsAt(records, booked)
  OBVIOUS
<1>6. DepthOf(of, c) = [k \in DOMAIN depth |-> depth[k].data]
  BY <1>1, <1>5 DEF DepthOf
<1>7. /\ depth \in Seq(Records)
      /\ ToSet(depth) = {records[k] : k \in (1 .. Len(records)) \cap booked}
  <2> HIDE DEF booked
  <2> QED BY <1>4, <1>5, ElementsAtFacts
<1>8. \A k \in 1 .. Len(depth) : depth[k].data \in Feed
  <2>1. \A r \in ToSet(depth) : r.kind = "depth" /\ r \in ToSet(of.records)
    BY <1>4, <1>7, ToSetElements
  <2>2. \A k \in 1 .. Len(depth) : depth[k] \in ToSet(depth)
    <3> HIDE DEF booked
    <3>1. depth \in Seq(Records)
      BY <1>7
    <3>2. ToSet(depth) = {depth[k] : k \in 1 .. Len(depth)}
      BY <3>1, ToSetElements
    <3> QED BY <3>2
  <2> QED BY <2>1, <2>2 DEF CaptureSound
<1>9. \A k \in 1 .. Len(depth) : depth[k].data \in Update
  BY <1>8, ChangesFacts
<1> QED BY <1>6, <1>7, <1>9

\* An event that is neither a gap nor refused is one that is covered already,
\* or one that continues the book.
LEMMA ApplyFacts ==
  ASSUME NEW s, "local" \in DOMAIN s, s.local \in Nat, NEW u \in Update,
         Outcome(s, u) \notin {"gap", "refused"}
  PROVE  /\ "local" \in DOMAIN apply_update(s, u)
         /\ \/ u.final <= s.local /\ apply_update(s, u) = s
            \/ u.first <= s.local + 1 /\ s.local < u.final /\ apply_update(s, u).local = u.final
<1>1. u.first \in Nat /\ u.final \in Nat /\ u.first <= u.final
  BY SynchronizerAssumption DEF Update
<1>2. CASE u.final < s.local
  <2>1. Outcome(s, u) = "ignored_old"
    BY <1>1, <1>2 DEF Outcome
  <2> QED BY <1>1, <1>2, <2>1 DEF apply_update
<1>3. CASE u.final = s.local
  <2>1. Outcome(s, u) = "duplicate"
    BY <1>1, <1>3 DEF Outcome
  <2> QED BY <1>1, <1>3, <2>1 DEF apply_update
<1>4. CASE u.final > s.local
  <2>1. u.first <= s.local + 1
    <3>1. u.first > s.local + 1 => Outcome(s, u) = "gap"
      BY <1>1, <1>4 DEF Outcome
    <3> QED BY <1>1, <3>1
  <2>2. Outcome(s, u) = IF Refuses(s.book, u) THEN "refused" ELSE "applied"
    BY <1>1, <1>4, <2>1 DEF Outcome
  <2>3. Outcome(s, u) = "applied"
    BY <2>2
  <2>4. apply_update(s, u) = [s EXCEPT !.book = Replaced(s.book, u), !.local = u.final]
    BY <2>3 DEF apply_update
  <2> QED BY <1>1, <1>4, <2>1, <2>4
<1> QED BY <1>1, <1>2, <1>3, <1>4

\* Once n of the buffered events are applied to a snapshot, no update between
\* the snapshot and the book is missing from them.
Reached(acc, events, last, n) ==
  acc.result = "installed" =>
    /\ "local" \in DOMAIN acc.sync /\ acc.sync.local \in Nat
    /\ \A j \in 1 .. n : events[j].final <= acc.sync.local
    /\ \A i \in (last + 1) .. acc.sync.local :
         \E j \in 1 .. n : events[j].first <= i /\ i <= events[j].final

LEMMA ApplyNextCovers ==
  ASSUME NEW acc, NEW events, NEW last \in Nat, NEW n \in Nat,
         Reached(acc, events, last, n),
         \A j \in 1 .. n + 1 : events[j] \in Update
  PROVE  Reached(ApplyNext(acc, events[n + 1]), events, last, n + 1)
<1> DEFINE u == events[n + 1]
<1>1. PICK next : next = ApplyNext(acc, u)
  OBVIOUS
<1> SUFFICES ASSUME next.result = "installed"
             PROVE  /\ "local" \in DOMAIN next.sync /\ next.sync.local \in Nat
                    /\ \A j \in 1 .. n + 1 : events[j].final <= next.sync.local
                    /\ \A i \in (last + 1) .. next.sync.local :
                         \E j \in 1 .. n + 1 : events[j].first <= i /\ i <= events[j].final
  BY <1>1 DEF Reached
<1>2. acc.result = "installed" /\ next.sync = apply_update(acc.sync, u)
       /\ Outcome(acc.sync, u) \notin {"gap", "refused"}
  <2>1. acc.result = "installed"
    BY <1>1 DEF ApplyNext
  <2>2. next = [sync |-> apply_update(acc.sync, u),
                result |-> IF Outcome(acc.sync, u) \in {"gap", "refused"}
                             THEN Outcome(acc.sync, u) ELSE "installed"]
    BY <1>1, <2>1 DEF ApplyNext
  <2> QED BY <2>1, <2>2
<1>3. /\ "local" \in DOMAIN acc.sync /\ acc.sync.local \in Nat
      /\ \A j \in 1 .. n : events[j].final <= acc.sync.local
      /\ \A i \in (last + 1) .. acc.sync.local :
           \E j \in 1 .. n : events[j].first <= i /\ i <= events[j].final
  BY <1>2 DEF Reached
<1>4. u \in Update /\ u.first \in Nat /\ u.final \in Nat
  <2>1. u \in Update
    OBVIOUS
  <2> QED BY <2>1, SynchronizerAssumption DEF Update
<1>5. 1 .. n + 1 = (1 .. n) \cup {n + 1}
  OBVIOUS
<1>6. /\ "local" \in DOMAIN next.sync
      /\ \/ u.final <= acc.sync.local /\ next.sync = acc.sync
         \/ /\ u.first <= acc.sync.local + 1 /\ acc.sync.local < u.final
            /\ next.sync.local = u.final
  BY <1>2, <1>3, <1>4, ApplyFacts
<1>7. CASE u.final <= acc.sync.local /\ next.sync = acc.sync
  BY <1>3, <1>5, <1>7
<1>8. CASE /\ u.first <= acc.sync.local + 1 /\ acc.sync.local < u.final
           /\ next.sync.local = u.final
  <2>1. \A j \in 1 .. n + 1 : events[j].final <= next.sync.local
    <3>1. ASSUME NEW j \in 1 .. n PROVE events[j].final <= next.sync.local
      <4>1. events[j] \in Update
        BY <3>1, <1>5
      <4>2. events[j].final \in Nat
        BY <4>1, SynchronizerAssumption DEF Update
      <4>3. events[j].final <= acc.sync.local
        BY <1>3, <3>1
      <4> QED BY <1>3, <1>4, <1>8, <4>2, <4>3
    <3> QED BY <1>4, <1>5, <1>8, <3>1
  <2>2. ASSUME NEW i \in (last + 1) .. next.sync.local
        PROVE  \E j \in 1 .. n + 1 : events[j].first <= i /\ i <= events[j].final
    <3>1. CASE i <= acc.sync.local
      <4>1. i \in (last + 1) .. acc.sync.local
        BY <1>3, <2>2, <3>1
      <4> QED BY <1>3, <1>5, <4>1
    <3>2. CASE i > acc.sync.local
      <4>1. u.first <= i /\ i <= u.final
        BY <1>3, <1>4, <1>8, <2>2, <3>2
      <4> QED BY <1>5, <4>1
    <3> QED BY <1>3, <2>2, <3>1, <3>2
  <2> QED BY <1>4, <1>6, <1>8, <2>1, <2>2
<1> QED BY <1>6, <1>7, <1>8

\* f gives how far the installation is after each of the remaining events.
Applies(f, first, remaining, n) ==
  f = [k \in 0 .. n |-> IF k = 0 THEN first ELSE ApplyNext(f[k - 1], remaining[k])]

LEMMA AppliesExists ==
  ASSUME NEW first, NEW remaining, NEW n \in Nat
  PROVE  \E f : Applies(f, first, remaining, n)
<1> DEFINE Good == {m \in Nat : \E f : Applies(f, first, remaining, m)}
<1>1. 0 \in Good
  <2>1. Applies([k \in 0 .. 0 |-> first], first, remaining, 0)
    BY DEF Applies
  <2> QED BY <2>1
<1>2. ASSUME NEW m \in Nat, m \in Good PROVE m + 1 \in Good
  <2>1. PICK f : Applies(f, first, remaining, m)
    BY <1>2
  <2> DEFINE g == [k \in 0 .. (m + 1) |->
                     IF k = 0 THEN first ELSE ApplyNext(f[k - 1], remaining[k])]
  <2>2. \A k \in 0 .. m : g[k] = f[k]
    BY <2>1 DEF Applies
  <2>3. \A k \in 0 .. (m + 1) : k # 0 => f[k - 1] = g[k - 1]
    <3> HIDE DEF g
    <3> QED BY <2>2
  <2>4. g = [k \in 0 .. (m + 1) |->
               IF k = 0 THEN first ELSE ApplyNext(g[k - 1], remaining[k])]
    <3>1. \A k \in 0 .. (m + 1) :
            (IF k = 0 THEN first ELSE ApplyNext(f[k - 1], remaining[k]))
            = (IF k = 0 THEN first ELSE ApplyNext(g[k - 1], remaining[k]))
      <4> HIDE DEF g
      <4> QED BY <2>3
    <3> QED BY <3>1
  <2>5. Applies(g, first, remaining, m + 1)
    <3> HIDE DEF g
    <3> QED BY <2>4 DEF Applies
  <2> QED BY <2>5
<1>3. Nat \subseteq Good
  <2> HIDE DEF Good
  <2> QED BY <1>1, <1>2, NaturalInduction
<1> QED BY <1>3

\* What an installation that succeeds starts from.
Beginning(s, last) == [sync |-> install_snapshot(s, last), result |-> "installed"]

\* A snapshot that was installed lost no update up to the newest of the
\* remaining events.
LEMMA InstalledCovers ==
  ASSUME NEW s, NEW last \in Nat, NEW events, events = Remaining(s, last),
         events \in Seq(Update), "local" \in DOMAIN s,
         Installed(s, last).result = "installed"
  PROVE  /\ Overlaps(s, last)
         /\ \A j \in 1 .. Len(events) : \A i \in (last + 1) .. events[j].final :
              \E k \in 1 .. Len(events) : events[k].first <= i /\ i <= events[k].final
<1> DEFINE first == Beginning(s, last)
<1>1. Len(events) \in Nat /\ \A j \in 1 .. Len(events) : events[j] \in Update
  OBVIOUS
<1>2. PICK g : Applies(g, first, events, Len(events))
  <2> HIDE DEF first
  <2> QED BY <1>1, AppliesExists
<1> DEFINE f == CHOOSE f : Applies(f, first, events, Len(events))
<1>3. /\ Applies(f, first, events, Len(events))
      /\ Installed(s, last) = IF Overlaps(s, last) THEN f[Len(events)]
                              ELSE [sync |-> reject_snapshot(s, last), result |-> "no_overlap"]
  <2>1. Applies(f, first, events, Len(events))
    BY <1>2, Zenon
  <2>2. Installed(s, last) =
          IF Overlaps(s, last)
            THEN (CHOOSE h : Applies(h, Beginning(s, last), Remaining(s, last),
                                     Len(Remaining(s, last))))[Len(Remaining(s, last))]
            ELSE [sync |-> reject_snapshot(s, last), result |-> "no_overlap"]
    BY Zenon DEF Installed, Applies, Beginning
  <2> QED BY <2>1, <2>2, Zenon
<1> HIDE DEF f
<1>4. Overlaps(s, last) /\ f[Len(events)].result = "installed"
  BY <1>3
<1>5. first.sync = install_snapshot(s, last) /\ first.result = "installed"
  BY DEF Beginning
<1>6. "local" \in DOMAIN first.sync /\ first.sync.local = last
  BY <1>5 DEF install_snapshot
<1> HIDE DEF first
<1> DEFINE Good == {m \in Nat : m <= Len(events) => Reached(f[m], events, last, m)}
<1>7. 0 \in Good
  <2>1. f[0] = first
    BY <1>1, <1>3 DEF Applies
  <2>2. Reached(first, events, last, 0)
    BY <1>6 DEF Reached
  <2> QED BY <2>1, <2>2
<1>8. ASSUME NEW m \in Nat, m \in Good PROVE m + 1 \in Good
  <2> SUFFICES ASSUME m + 1 <= Len(events) PROVE Reached(f[m + 1], events, last, m + 1)
    OBVIOUS
  <2>1. Reached(f[m], events, last, m)
    BY <1>1, <1>8
  <2>2. f[m + 1] = ApplyNext(f[m], events[m + 1])
    BY <1>1, <1>3 DEF Applies
  <2>3. \A j \in 1 .. m + 1 : events[j] \in Update
    BY <1>1
  <2> QED BY <2>1, <2>2, <2>3, ApplyNextCovers
<1>9. Nat \subseteq Good
  <2> HIDE DEF Good
  <2> QED BY <1>7, <1>8, NaturalInduction
<1>10. Reached(f[Len(events)], events, last, Len(events))
  BY <1>1, <1>9
<1> HIDE DEF Good
<1>11. PICK end : end = f[Len(events)].sync.local
  OBVIOUS
<1>12. /\ end \in Nat
       /\ \A j \in 1 .. Len(events) : events[j].final <= end
       /\ \A i \in (last + 1) .. end :
            \E j \in 1 .. Len(events) : events[j].first <= i /\ i <= events[j].final
  BY <1>4, <1>10, <1>11 DEF Reached
<1>13. \A j \in 1 .. Len(events) : events[j].final \in Nat
  BY <1>1, SynchronizerAssumption DEF Update
<1> QED BY <1>4, <1>12, <1>13

\* The events that are not among the remaining ones are covered by the snapshot.
LEMMA RemainingFacts ==
  ASSUME NEW s, s.buffer \in Seq(Update), NEW last \in Nat
  PROVE  /\ Remaining(s, last) \in Seq(Update)
         /\ \A j \in 1 .. Len(Remaining(s, last)) : Remaining(s, last)[j] \in ToSet(s.buffer)
         /\ \A u \in ToSet(s.buffer) :
              \/ u.final <= last
              \/ \E j \in 1 .. Len(Remaining(s, last)) : Remaining(s, last)[j] = u
<1>1. PICK buffer : buffer = s.buffer
  OBVIOUS
<1>2. /\ buffer \in Seq(Update) /\ Len(buffer) \in Nat /\ DOMAIN buffer = 1 .. Len(buffer)
      /\ \A k \in 1 .. Len(buffer) : buffer[k] \in Update
      /\ ToSet(buffer) = {buffer[k] : k \in 1 .. Len(buffer)}
  BY <1>1, ToSetElements
<1>3. \A k \in 1 .. Len(buffer) : buffer[k].final \in Nat
  BY <1>2, SynchronizerAssumption DEF Update
<1>4. FirstNewer(s, last) =
        {k \in 1 .. Len(buffer) :
           buffer[k].final > last /\ \A j \in 1 .. (k - 1) : buffer[j].final <= last}
  BY <1>1, <1>2 DEF FirstNewer
<1> DEFINE newer == {k \in 1 .. Len(buffer) : buffer[k].final > last}
<1>5. CASE newer = {}
  <2>1. \A k \in 1 .. Len(buffer) : buffer[k].final <= last
    BY <1>3, <1>5
  <2>2. FirstNewer(s, last) = {}
    BY <1>4, <1>5
  <2>3. Remaining(s, last) = << >>
    BY <2>2 DEF Remaining
  <2> QED BY <1>1, <1>2, <2>1, <2>3
<1>6. CASE newer # {}
  <2>1. PICK k \in newer : \A m \in newer : k <= m
    <3>1. newer \in SUBSET Nat
      BY <1>2
    <3> QED BY <1>6, <3>1, LeastNatural
  <2>2. k \in 1 .. Len(buffer) /\ buffer[k].final > last
    BY <2>1
  <2>3. \A j \in 1 .. (k - 1) : buffer[j].final <= last
    <3> SUFFICES ASSUME NEW j \in 1 .. (k - 1), ~(buffer[j].final <= last) PROVE FALSE
      OBVIOUS
    <3>1. j \in 1 .. Len(buffer)
      BY <1>2, <2>2
    <3>2. j \in newer
      BY <1>3, <3>1
    <3> QED BY <2>1, <2>2, <3>2
  <2>4. FirstNewer(s, last) # {}
    BY <1>4, <2>2, <2>3
  <2>5. PICK n \in FirstNewer(s, last) : Remaining(s, last) = SubSeq(buffer, n, Len(buffer))
    <3> DEFINE n == CHOOSE n \in FirstNewer(s, last) : TRUE
    <3>1. n \in FirstNewer(s, last)
      BY <2>4
    <3>2. Remaining(s, last) = SubSeq(buffer, n, Len(buffer))
      BY <1>1, <2>4, Zenon DEF Remaining
    <3> QED BY <3>1, <3>2
  <2>6. n \in 1 .. Len(buffer) /\ \A j \in 1 .. (n - 1) : buffer[j].final <= last
    BY <1>4, <2>5
  <2>7. PICK events : events = Remaining(s, last)
    OBVIOUS
  <2>8. /\ events \in Seq(Update)
        /\ Len(events) = Len(buffer) - n + 1
        /\ \A j \in 1 .. Len(buffer) - n + 1 : events[j] = buffer[n + j - 1]
    BY <1>2, <2>5, <2>6, <2>7
  <2>9. \A j \in 1 .. Len(events) : events[j] \in ToSet(buffer)
    <3> TAKE j \in 1 .. Len(events)
    <3>1. n + j - 1 \in 1 .. Len(buffer) /\ events[j] = buffer[n + j - 1]
      BY <1>2, <2>6, <2>8
    <3> QED BY <1>2, <3>1
  <2>10. ASSUME NEW u \in ToSet(buffer), ~(u.final <= last)
         PROVE  \E j \in 1 .. Len(events) : events[j] = u
    <3>1. PICK m \in 1 .. Len(buffer) : buffer[m] = u
      BY <1>2
    <3>2. m >= n
      BY <1>2, <2>6, <2>10, <3>1
    <3>3. m - n + 1 \in 1 .. Len(events) /\ n + (m - n + 1) - 1 = m
      BY <1>2, <2>6, <2>8, <3>1, <3>2
    <3>4. events[m - n + 1] = buffer[m]
      BY <2>8, <3>3
    <3> QED BY <3>1, <3>3, <3>4
  <2> QED BY <1>1, <2>7, <2>8, <2>9, <2>10
<1> QED BY <1>5, <1>6

\* The snapshots of a connection, and its synchronizer before one is installed.
Mine(of, c) == {s \in of.snapshots : s.connection = c}
Waiting(of, c) == [NewSynchronizer EXCEPT !.buffer = DepthOf(of, c)]

\* A connection without a snapshot issue has one snapshot, which was installed.
LEMMA NoSnapshotIssue ==
  ASSUME NEW of, IsFiniteSet(of.snapshots), NEW c, SnapshotIssues(of, c) = {}
  PROVE  \E s \in of.snapshots :
           /\ Mine(of, c) = {s}
           /\ Installed(Waiting(of, c), s.last).result = "installed"
<1> DEFINE mine == Mine(of, c)
           last == (CHOOSE s \in mine : TRUE).last
           result == Installed(Waiting(of, c), last).result
           codes == IF mine = {} THEN {"snapshot_missing"}
                    ELSE IF Cardinality(mine) # 1 THEN {"snapshot_ambiguous"}
                    ELSE CASE result = "installed" -> {}
                           [] result = "refused"   -> {"book_reconstruction_failed"}
                           [] OTHER -> {"snapshot_delta_no_overlap", "depth_not_synchronized"}
<1>1. SnapshotIssues(of, c) = {Critical(code, NoDay) : code \in codes}
  BY Zenon DEF SnapshotIssues, Mine, Waiting
<1> HIDE DEF codes
<1>2. codes = {}
  BY <1>1
<1> HIDE DEF mine, last, result
<1>3. mine # {} /\ Cardinality(mine) = 1
  BY <1>2 DEF codes
<1>4. result = "installed"
  BY <1>2, <1>3 DEF codes
<1>5. IsFiniteSet(mine)
  BY FS_Subset DEF mine, Mine
<1>6. PICK s : mine = {s}
  BY <1>3, <1>5, FS_Singleton
<1>7. (CHOOSE t \in mine : TRUE) = s
  BY <1>6
<1>8. s \in of.snapshots
  BY <1>6 DEF mine, Mine
<1> QED BY <1>4, <1>6, <1>7, <1>8, Zenon DEF mine, last, result

\* A snapshot issue is a critical one that names no day.
LEMMA SnapshotIssuesCount ==
  ASSUME NEW of, NEW c \in Recorded(of), NEW day, Reasons(of, day) = {}
  PROVE  SnapshotIssues(of, c) = {}
<1>1. ~ \E i \in Issues(of) : i.severity = "critical" /\ i.day \in {NoDay, day}
  BY DEF Reasons
<1>2. SnapshotIssues(of, c) \subseteq Issues(of)
  BY DEF Issues
<1>3. \A i \in SnapshotIssues(of, c) : i.severity = "critical" /\ i.day = NoDay
  <2>1. \A code : Critical(code, NoDay).severity = "critical" /\ Critical(code, NoDay).day = NoDay
    BY DEF Critical
  <2>2. \A i \in SnapshotIssues(of, c) : \E code : i = Critical(code, NoDay)
    BY Zenon DEF SnapshotIssues
  <2> QED BY <2>1, <2>2
<1> QED BY <1>1, <1>2, <1>3

\* A capture with a structurally valid day has lost no update of any of its
\* connections between its one snapshot and the newest event that was recorded
\* (ValidMeansContinuous), for any feed and any number of events.
THEOREM ValidAlwaysContinuous == Spec => []ValidMeansContinuous
<1>1. IInv => ValidMeansContinuous
  <2> SUFFICES ASSUME IInv, report # NoResult,
                      NEW d \in report, d.structural = "valid",
                      NEW c \in Recorded(capture)
               PROVE  \E last \in SnapshotIds :
                        /\ {s.last : s \in {s \in capture.snapshots : s.connection = c}} = {last}
                        /\ \A u \in ToSet(DepthOf(capture, c)) : \A i \in (last + 1) .. u.final :
                             \E v \in ToSet(DepthOf(capture, c)) : v.first <= i /\ i <= v.final
    BY Zenon DEF ValidMeansContinuous
  <2>1. CaptureSound(capture) /\ report = validate_capture_data(capture)
    BY DEF IInv, StagesSound
  <2>2. PICK day \in Days(capture) : d = Decision(capture, day)
    BY <2>1 DEF validate_capture_data
  <2>3. Reasons(capture, day) = {}
    <3>1. d.structural = IF Reasons(capture, day) = {} THEN "valid" ELSE "invalid"
      BY <2>2 DEF Decision
    <3> QED BY <3>1
  <2>4. SnapshotIssues(capture, c) = {}
    BY <2>3, SnapshotIssuesCount
  <2>5. IsFiniteSet(capture.snapshots) /\ \A s \in capture.snapshots : s.last \in SnapshotIds
    BY <2>1 DEF CaptureSound
  <2>6. PICK s \in capture.snapshots :
          Mine(capture, c) = {s} /\ Installed(Waiting(capture, c), s.last).result = "installed"
    BY <2>4, <2>5, NoSnapshotIssue
  <2>7. PICK last : last = s.last
    OBVIOUS
  <2>8. last \in SnapshotIds
    BY <2>5, <2>7
  <2>9. last \in Nat
    <3>1. SnapshotIds \subseteq 0 .. LastId
      BY PipelineAssumption, Zenon
    <3> QED BY <2>8, <3>1, SynchronizerAssumption
  <2>10. PICK depth : depth = DepthOf(capture, c)
    OBVIOUS
  <2>11. depth \in Seq(Update)
    BY <2>1, <2>10, DepthOfType
  <2>12. PICK w : w = Waiting(capture, c)
    OBVIOUS
  <2>13. w.buffer = depth /\ "local" \in DOMAIN w
    BY <2>10, <2>12 DEF Waiting, NewSynchronizer
  <2>14. PICK events : events = Remaining(w, last)
    OBVIOUS
  <2>15. /\ events \in Seq(Update)
         /\ \A j \in 1 .. Len(events) : events[j] \in ToSet(depth)
         /\ \A u \in ToSet(depth) :
              u.final <= last \/ \E j \in 1 .. Len(events) : events[j] = u
    BY <2>9, <2>11, <2>13, <2>14, RemainingFacts
  <2>16. \A j \in 1 .. Len(events) : \A i \in (last + 1) .. events[j].final :
           \E k \in 1 .. Len(events) : events[k].first <= i /\ i <= events[k].final
    BY <2>6, <2>7, <2>9, <2>12, <2>13, <2>14, <2>15, InstalledCovers
  <2>17. ASSUME NEW u \in ToSet(depth), NEW i \in (last + 1) .. u.final
         PROVE  \E v \in ToSet(depth) : v.first <= i /\ i <= v.final
    <3>1. u \in Update
      BY <2>11, ToSetElements
    <3>2. u.final \in Nat
      BY <3>1, SynchronizerAssumption DEF Update
    <3>3. ~(u.final <= last)
      BY <2>9, <2>17, <3>2
    <3> QED BY <2>15, <2>16, <3>3
  <2>18. {t.last : t \in {t \in capture.snapshots : t.connection = c}} = {last}
    BY <2>6, <2>7 DEF Mine
  <2> QED BY <2>8, <2>10, <2>17, <2>18
<1> QED BY <1>1, StagesInvariance, PTL

-----------------------------------------------------------------------------
(***************************************************************************)
(* The invariant of the times: what a capture stores is stored in the      *)
(* order of its reception, connection after connection, and a connection   *)
(* begins after everything that was received on the earlier ones.          *)
(***************************************************************************)

\* Of two records, the first does not come after the second.
NotAfter(r, q) == r.received <= q.received /\ r.connection <= q.connection

InOrderOfReception(records) ==
  \A j, k \in 1 .. Len(records) : j < k => NotAfter(records[j], records[k])

ReceivedBetween(records, connections, now) ==
  \A k \in 1 .. Len(records) :
    /\ records[k].connection \in 1 .. Len(connections)
    /\ connections[records[k].connection].started <= records[k].received
    /\ records[k].received <= now
    /\ \A c \in 1 .. Len(connections) :
         records[k].connection < c => records[k].received < connections[c].started

StartsInOrder(connections, now) ==
  \A c \in 1 .. Len(connections) :
    /\ connections[c].started <= now
    /\ \A b \in 1 .. Len(connections) :
         b < c => connections[b].started < connections[c].started

TimesSound ==
  /\ InOrderOfReception(capture.records)
  /\ ReceivedBetween(capture.records, capture.connections, clock)
  /\ StartsInOrder(capture.connections, clock)

\* A dataset that is replayed was built.
ReplayedIsBuilt == replay # NoResult => Built

TInv == IInv /\ TimesSound /\ ReplayedIsBuilt

LEMMA InitTimed == Init => TInv
<1> SUFFICES ASSUME Init PROVE TInv
  OBVIOUS
<1>1. capture.records = << >> /\ capture.connections = << >> /\ replay = NoResult
  BY DEF Init
<1>2. TimesSound
  BY <1>1 DEF TimesSound, InOrderOfReception, ReceivedBetween, StartsInOrder
<1> QED BY <1>1, <1>2, InitSound DEF TInv, ReplayedIsBuilt

\* The components of what is stored.
LEMMA StoredTypes ==
  ASSUME NEW records \in Seq(Records), NEW connections \in Seq(Connections)
  PROVE  /\ Len(records) \in Nat /\ Len(connections) \in Nat
         /\ \A k \in 1 .. Len(records) :
              records[k].received \in Nat /\ records[k].connection \in Nat
         /\ \A c \in 1 .. Len(connections) : connections[c].started \in Nat
<1>1. /\ \A k \in 1 .. Len(records) : records[k] \in Records
      /\ \A c \in 1 .. Len(connections) : connections[c] \in Connections
  OBVIOUS
<1>2. \A r \in Records : r.received \in Nat /\ r.connection \in Nat
  BY DEF Records
<1>3. \A c \in Connections : c.started \in Nat
  BY DEF Connections
<1> QED BY <1>1, <1>2, <1>3

\* A connection begins after what was received on the earlier ones.
LEMMA OpenedInTime ==
  ASSUME NEW records \in Seq(Records), NEW connections \in Seq(Connections),
         NEW opened \in Connections, NEW now \in Nat, NEW later \in Nat,
         later = (IF Len(connections) = 0 THEN now ELSE now + 1), opened.started = later,
         ReceivedBetween(records, connections, now), StartsInOrder(connections, now)
  PROVE  /\ ReceivedBetween(records, Append(connections, opened), later)
         /\ StartsInOrder(Append(connections, opened), later)
<1> DEFINE next == Append(connections, opened)
<1>1. PICK n \in Nat : n = Len(connections)
  OBVIOUS
<1>2. /\ Len(next) = n + 1
      /\ \A c \in 1 .. n : next[c] = connections[c]
      /\ next[n + 1] = opened
  BY <1>1
<1> HIDE DEF next
<1>3. /\ \A k \in 1 .. Len(records) :
           records[k].received \in Nat /\ records[k].connection \in Nat
      /\ \A c \in 1 .. n : connections[c].started \in Nat
  BY <1>1, StoredTypes
<1>4. now <= later /\ (n > 0 => now < later)
  BY <1>1
<1>5. \A c \in 1 .. n + 1 : c \in 1 .. n \/ c = n + 1
  OBVIOUS
<1>6. ReceivedBetween(records, next, later)
  <2> SUFFICES ASSUME NEW k \in 1 .. Len(records)
               PROVE  /\ records[k].connection \in 1 .. n + 1
                      /\ next[records[k].connection].started <= records[k].received
                      /\ records[k].received <= later
                      /\ \A c \in 1 .. n + 1 :
                           records[k].connection < c => records[k].received < next[c].started
    BY <1>2 DEF ReceivedBetween
  <2>1. /\ records[k].connection \in 1 .. n
        /\ connections[records[k].connection].started <= records[k].received
        /\ records[k].received <= now
        /\ \A c \in 1 .. n : records[k].connection < c => records[k].received < connections[c].started
    BY <1>1 DEF ReceivedBetween
  <2>2. records[k].received \in Nat
    BY <1>3
  <2>3. records[k].received < later
    <3>1. n > 0
      BY <2>1
    <3> QED BY <1>4, <2>1, <2>2, <3>1
  <2>4. ASSUME NEW c \in 1 .. n + 1, records[k].connection < c
        PROVE  records[k].received < next[c].started
    <3>1. CASE c \in 1 .. n
      BY <1>2, <2>1, <2>4, <3>1
    <3>2. CASE c = n + 1
      BY <1>2, <2>3, <3>2
    <3> QED BY <1>5, <3>1, <3>2
  <2>5. records[k].connection \in 1 .. n + 1 /\ next[records[k].connection].started <= records[k].received
    BY <1>2, <2>1
  <2>6. records[k].received <= later
    BY <2>2, <2>3
  <2> QED BY <2>4, <2>5, <2>6
<1>7. StartsInOrder(next, later)
  <2> SUFFICES ASSUME NEW c \in 1 .. n + 1
               PROVE  /\ next[c].started <= later
                      /\ \A b \in 1 .. n + 1 : b < c => next[b].started < next[c].started
    BY <1>2 DEF StartsInOrder
  <2>1. \A d \in 1 .. n :
          /\ connections[d].started <= now
          /\ \A b \in 1 .. n : b < d => connections[b].started < connections[d].started
    BY <1>1 DEF StartsInOrder
  <2>2. \A b \in 1 .. n + 1 : b < c => b \in 1 .. n /\ n > 0
    OBVIOUS
  <2>3. CASE c \in 1 .. n
    <3>1. connections[c].started <= now /\ connections[c].started \in Nat
      BY <1>3, <2>1, <2>3
    <3>2. next[c].started <= later
      <4>1. \A x \in Nat : x <= now => x <= later
        BY <1>4
      <4> QED BY <1>2, <2>3, <3>1, <4>1
    <3> QED BY <1>2, <2>1, <2>2, <2>3, <3>2
  <2>4. CASE c = n + 1
    <3>1. \A x \in Nat : x <= now /\ n > 0 => x < later
      BY <1>4
    <3>2. ASSUME NEW b \in 1 .. n + 1, b < c PROVE next[b].started < next[c].started
      <4>1. b \in 1 .. n /\ n > 0
        BY <2>2, <3>2
      <4>2. connections[b].started <= now /\ connections[b].started \in Nat
        BY <1>3, <2>1, <4>1
      <4> QED BY <1>2, <2>4, <3>1, <4>1, <4>2
    <3>3. next[c].started <= later
      BY <1>2, <2>4
    <3> QED BY <3>2, <3>3
  <2> QED BY <1>5, <2>3, <2>4
<1> QED BY <1>6, <1>7 DEF next

LEMMA ConnectTimed ==
  ASSUME TInv, NEW snapshots, Connect(snapshots)
  PROVE  TimesSound' /\ ReplayedIsBuilt'
<1>1. /\ capture.records \in Seq(Records) /\ capture.connections \in Seq(Connections)
      /\ clock \in Nat /\ Capturing /\ replay = NoResult
  BY DEF TInv, IInv, CaptureSound, StagesSound, Connect
<1> DEFINE opened == [started |-> clock', messages |-> 0]
<1>2. /\ capture'.records = capture.records
      /\ capture'.connections = Append(capture.connections, opened)
      /\ clock' = IF Len(capture.connections) = 0 THEN clock ELSE clock + 1
      /\ replay' = replay
  BY <1>1 DEF Connect, TInv, IInv, CaptureSound, Current
<1>3. clock' \in Nat /\ opened \in Connections /\ opened.started = clock'
  BY <1>1, <1>2 DEF Connections
<1> HIDE DEF opened
<1>4. /\ ReceivedBetween(capture.records, capture.connections, clock)
      /\ StartsInOrder(capture.connections, clock)
      /\ InOrderOfReception(capture.records)
  BY DEF TInv, TimesSound
<1>5. /\ ReceivedBetween(capture.records, Append(capture.connections, opened), clock')
      /\ StartsInOrder(Append(capture.connections, opened), clock')
  BY <1>1, <1>2, <1>3, <1>4, OpenedInTime
<1> QED BY <1>1, <1>2, <1>4, <1>5 DEF TimesSound, ReplayedIsBuilt

\* What is received is stored after everything else, on the newest connection.
LEMMA RecordedInTime ==
  ASSUME NEW records \in Seq(Records), NEW connections \in Seq(Connections),
         NEW r \in Records, NEW now \in Nat, NEW later \in Nat, now <= later,
         r.received = later, r.connection = Len(connections), Len(connections) > 0,
         InOrderOfReception(records),
         ReceivedBetween(records, connections, now), StartsInOrder(connections, now)
  PROVE  /\ InOrderOfReception(Append(records, r))
         /\ ReceivedBetween(Append(records, r), connections, later)
         /\ StartsInOrder(connections, later)
<1> DEFINE next == Append(records, r)
<1>1. PICK m \in Nat : m = Len(records)
  OBVIOUS
<1>2. PICK n \in Nat : n = Len(connections)
  OBVIOUS
<1>3. /\ Len(next) = m + 1
      /\ \A k \in 1 .. m : next[k] = records[k]
      /\ next[m + 1] = r
  BY <1>1
<1> HIDE DEF next
<1>4. /\ \A k \in 1 .. m : records[k].received \in Nat /\ records[k].connection \in Nat
      /\ \A c \in 1 .. n : connections[c].started \in Nat
  BY <1>1, <1>2, StoredTypes
<1>5. \A k \in 1 .. m + 1 : k \in 1 .. m \/ k = m + 1
  OBVIOUS
<1>6. \A k \in 1 .. m :
        /\ records[k].connection \in 1 .. n
        /\ connections[records[k].connection].started <= records[k].received
        /\ records[k].received <= now
        /\ \A c \in 1 .. n : records[k].connection < c => records[k].received < connections[c].started
  BY <1>1, <1>2 DEF ReceivedBetween
<1>7. \A c \in 1 .. n :
        /\ connections[c].started <= now
        /\ \A b \in 1 .. n : b < c => connections[b].started < connections[c].started
  BY <1>2 DEF StartsInOrder
<1>8. \A x \in Nat : x <= now => x <= later
  OBVIOUS
<1>9. InOrderOfReception(next)
  <2> SUFFICES ASSUME NEW j \in 1 .. m + 1, NEW k \in 1 .. m + 1, j < k
               PROVE  NotAfter(next[j], next[k])
    BY <1>3 DEF InOrderOfReception
  <2>1. j \in 1 .. m
    OBVIOUS
  <2>2. CASE k \in 1 .. m
    BY <1>1, <1>3, <2>1, <2>2 DEF InOrderOfReception
  <2>3. CASE k = m + 1
    <3>0. records[j].received \in Nat /\ records[j].received <= now /\ records[j].connection \in 1 .. n
      BY <1>4, <1>6, <2>1
    <3>1. records[j].received <= later
      BY <1>8, <3>0
    <3>2. records[j].connection <= n
      <4>1. \A x \in 1 .. n : x <= n
        OBVIOUS
      <4> QED BY <3>0, <4>1, Zenon
    <3> QED BY <1>2, <1>3, <2>1, <2>3, <3>1, <3>2 DEF NotAfter
  <2> QED BY <1>5, <2>2, <2>3
<1>10. ReceivedBetween(next, connections, later)
  <2> SUFFICES ASSUME NEW k \in 1 .. m + 1
               PROVE  /\ next[k].connection \in 1 .. n
                      /\ connections[next[k].connection].started <= next[k].received
                      /\ next[k].received <= later
                      /\ \A c \in 1 .. n :
                           next[k].connection < c => next[k].received < connections[c].started
    BY <1>2, <1>3 DEF ReceivedBetween
  <2>1. CASE k \in 1 .. m
    BY <1>3, <1>4, <1>6, <1>8, <2>1
  <2>2. CASE k = m + 1
    <3>1. n \in 1 .. n /\ \A c \in 1 .. n : ~(n < c)
      BY <1>2
    <3>2. connections[n].started <= later
      BY <1>4, <1>7, <1>8, <3>1
    <3> QED BY <1>2, <1>3, <2>2, <3>1, <3>2
  <2> QED BY <1>5, <2>1, <2>2
<1>11. StartsInOrder(connections, later)
  BY <1>2, <1>4, <1>7, <1>8 DEF StartsInOrder
<1> QED BY <1>9, <1>10, <1>11 DEF next

LEMMA RecordTimed ==
  ASSUME TInv, NEW kind \in {"depth", "trade", "other"}, NEW payload \in Payloads,
         NEW event \in Nat, NEW intact \in BOOLEAN, Record(kind, payload, event, intact)
  PROVE  TimesSound' /\ ReplayedIsBuilt'
<1>1. /\ capture.records \in Seq(Records) /\ capture.connections \in Seq(Connections)
      /\ clock \in Nat /\ Capturing /\ replay = NoResult
  BY DEF TInv, IInv, CaptureSound, StagesSound, Record
<1>2. replay' = replay /\ Current > 0
  BY DEF Record
<1> DEFINE r(time) == [connection |-> Current,
                       index |-> capture.connections[Current].messages,
                       received |-> time, segmentDay |-> utc_day(time),
                       event |-> event, kind |-> kind, data |-> payload, intact |-> intact]
           counted == [capture.connections EXCEPT ![Current].messages = @ + 1]
<1>3. PICK time \in {clock, clock + 1} :
        /\ clock' = time
        /\ capture' = [capture EXCEPT !.records = Append(@, r(time)),
                                      !.connections[Current].messages = @ + 1]
  BY DEF Record
<1>4. time \in Nat /\ clock <= time
  BY <1>1
<1>5. capture'.records = Append(capture.records, r(time)) /\ capture'.connections = counted
  <2>1. capture = [records |-> capture.records, connections |-> capture.connections,
                   snapshots |-> capture.snapshots, origin |-> capture.origin,
                   status |-> capture.status]
    BY DEF TInv, IInv, CaptureSound
  <2> HIDE DEF r
  <2> QED BY <1>3, <2>1
<1>6. capture.connections[Current] \in Connections /\ Current \in 1 .. Len(capture.connections)
  BY <1>1, <1>2 DEF Current
<1>7. r(time) \in Records
  BY <1>4, <1>6, DayType DEF Records, Connections, Current
<1>8. /\ counted \in Seq(Connections) /\ Len(counted) = Len(capture.connections)
      /\ \A c \in 1 .. Len(counted) : counted[c].started = capture.connections[c].started
  <2>1. counted = [capture.connections EXCEPT ![Current] =
                     [started |-> capture.connections[Current].started,
                      messages |-> capture.connections[Current].messages + 1]]
    BY <1>6 DEF Connections
  <2>2. [started |-> capture.connections[Current].started,
         messages |-> capture.connections[Current].messages + 1] \in Connections
    BY <1>6 DEF Connections
  <2> HIDE DEF counted
  <2> QED BY <1>1, <1>6, <2>1, <2>2
<1>9. r(time).received = time /\ r(time).connection = Current
  OBVIOUS
<1> HIDE DEF r, counted
<1>10. /\ InOrderOfReception(capture.records)
       /\ ReceivedBetween(capture.records, capture.connections, clock)
       /\ StartsInOrder(capture.connections, clock)
  BY DEF TInv, TimesSound
<1>11. ReceivedBetween(capture.records, counted, clock) /\ StartsInOrder(counted, clock)
  BY <1>8, <1>10 DEF ReceivedBetween, StartsInOrder
<1>12. Len(counted) > 0 /\ r(time).connection = Len(counted)
  BY <1>2, <1>8, <1>9 DEF Current
<1>13. /\ InOrderOfReception(Append(capture.records, r(time)))
       /\ ReceivedBetween(Append(capture.records, r(time)), counted, time)
       /\ StartsInOrder(counted, time)
  BY <1>1, <1>4, <1>7, <1>8, <1>9, <1>10, <1>11, <1>12, RecordedInTime
<1> QED BY <1>1, <1>2, <1>3, <1>5, <1>13 DEF TimesSound, ReplayedIsBuilt

LEMMA StepTimed == TInv /\ [Next]_vars => TInv'
<1> SUFFICES ASSUME TInv, [Next]_vars PROVE TInv'
  OBVIOUS
<1>1. IInv'
  BY StepSound DEF TInv
<1>2. clock \in Nat /\ IInv
  BY DEF TInv, IInv
<1>3. ASSUME NEW snapshots, Connect(snapshots) PROVE TInv'
  BY <1>1, <1>3, ConnectTimed DEF TInv
<1>4. ASSUME NEW kind \in {"depth", "trade", "other"}, NEW payload \in Payloads,
             NEW event \in EventTimes(kind, payload) \cup {clock, clock + 1},
             NEW intact \in BOOLEAN, Record(kind, payload, event, intact)
      PROVE  TInv'
  <2>1. event \in Nat
    BY <1>2, EventTimesType
  <2> QED BY <1>1, <1>4, <2>1, RecordTimed DEF TInv
<1>5. CASE ReceiveDepth
  <2>1. PICK u \in Feed : \E event \in EventTimes("depth", u) : Record("depth", u, event, TRUE)
    BY <1>5 DEF ReceiveDepth
  <2>2. PICK event \in EventTimes("depth", u) : Record("depth", u, event, TRUE)
    BY <2>1
  <2> QED BY <1>4, <2>2 DEF Payloads
<1>6. CASE ReceiveTrade
  <2>1. PICK id \in TradeIds : \E event \in EventTimes("trade", id) \cup {clock + 1} :
          Record("trade", id, event, TRUE)
    BY <1>6 DEF ReceiveTrade
  <2>2. PICK event \in EventTimes("trade", id) \cup {clock + 1} :
          Record("trade", id, event, TRUE)
    BY <2>1
  <2> QED BY <1>4, <2>2 DEF Payloads
<1>7. CASE ReceiveOther
  <2>1. CASE Record("other", 0, clock, TRUE)
    BY <1>4, <2>1 DEF Payloads
  <2>2. ASSUME NEW u \in Feed, Record("depth", u, clock, FALSE) PROVE TInv'
    BY <1>4, <2>2 DEF Payloads
  <2> QED BY <1>7, <2>1, <2>2 DEF ReceiveOther
<1>8. CASE Validate
  <2>1. capture'.records = capture.records /\ capture'.connections = capture.connections
    BY <1>2, <1>8 DEF Validate, IInv, CaptureSound
  <2>2. clock' = clock /\ replay' = replay /\ replay = NoResult
    BY <1>2, <1>8 DEF Validate, IInv, StagesSound
  <2> QED BY <1>1, <2>1, <2>2 DEF TInv, TimesSound, ReplayedIsBuilt
<1>9. CASE Canonicalize
  <2>1. UNCHANGED <<clock, capture, replay>> /\ replay = NoResult
    BY <1>2, <1>9 DEF Canonicalize, IInv, StagesSound
  <2> QED BY <1>1, <2>1 DEF TInv, TimesSound, ReplayedIsBuilt
<1>10. CASE Replay
  <2>1. UNCHANGED <<clock, capture, dataset>> /\ Built
    BY <1>10 DEF Replay, Built
  <2> QED BY <1>1, <2>1 DEF TInv, TimesSound, ReplayedIsBuilt, Built
<1>11. CASE UNCHANGED vars
  BY <1>1, <1>11 DEF vars, TInv, TimesSound, ReplayedIsBuilt, Built
<1> QED BY <1>3, <1>5, <1>6, <1>7, <1>8, <1>9, <1>10, <1>11 DEF Next

\* Throughout, what was captured is in the order of its reception.
THEOREM TimesInvariance == Spec => []TInv
BY InitTimed, StepTimed, PTL DEF Spec

-----------------------------------------------------------------------------
(***************************************************************************)
(* The rows of a dataset: in the order of reception, and exact.            *)
(***************************************************************************)

LEMMA AppendInOrder ==
  ASSUME NEW s \in Seq(Records), InOrderOfReception(s), NEW r \in Records,
         \A q \in ToSet(s) : NotAfter(q, r)
  PROVE  InOrderOfReception(Append(s, r))
<1> DEFINE next == Append(s, r)
<1>1. PICK m \in Nat : m = Len(s)
  OBVIOUS
<1>2. /\ Len(next) = m + 1
      /\ \A k \in 1 .. m : next[k] = s[k] /\ s[k] \in ToSet(s)
      /\ next[m + 1] = r
  BY <1>1, ToSetElements
<1> HIDE DEF next
<1> SUFFICES ASSUME NEW j \in 1 .. m + 1, NEW k \in 1 .. m + 1, j < k
             PROVE  NotAfter(next[j], next[k])
  BY <1>2 DEF InOrderOfReception, next
<1>3. j \in 1 .. m /\ (k \in 1 .. m \/ k = m + 1)
  OBVIOUS
<1>4. CASE k \in 1 .. m
  BY <1>1, <1>2, <1>3, <1>4 DEF InOrderOfReception
<1>5. CASE k = m + 1
  BY <1>2, <1>3, <1>5
<1> QED BY <1>3, <1>4, <1>5

\* The chosen elements of a sequence keep its order.
LEMMA ElementsAtInOrder ==
  ASSUME NEW s \in Seq(Records), InOrderOfReception(s), NEW positions
  PROVE  InOrderOfReception(ElementsAt(s, positions))
<1>1. Len(s) \in Nat /\ \A k \in 1 .. Len(s) : s[k] \in Records
  OBVIOUS
<1>2. PICK g : Part(g, s, positions, Len(s))
  BY <1>1, PartExists
<1> DEFINE f == CHOOSE f : Part(f, s, positions, Len(s))
<1>3. Part(f, s, positions, Len(s)) /\ ElementsAt(s, positions) = f[Len(s)]
  BY <1>2, Zenon DEF ElementsAt, Part, OneMore
<1> HIDE DEF f
<1> DEFINE Good == {m \in Nat : m <= Len(s) =>
                      /\ f[m] \in Seq(Records) /\ InOrderOfReception(f[m])
                      /\ ToSet(f[m]) \subseteq {s[k] : k \in 1 .. m}}
<1>4. 0 \in Good
  <2>1. f[0] = << >>
    BY <1>1, <1>3 DEF Part
  <2>2. ToSet(<< >>) = {} /\ << >> \in Seq(Records) /\ InOrderOfReception(<< >>)
    BY DEF ToSet, InOrderOfReception
  <2> QED BY <2>1, <2>2
<1>5. ASSUME NEW m \in Nat, m \in Good PROVE m + 1 \in Good
  <2> SUFFICES ASSUME m + 1 <= Len(s)
               PROVE  /\ f[m + 1] \in Seq(Records) /\ InOrderOfReception(f[m + 1])
                      /\ ToSet(f[m + 1]) \subseteq {s[k] : k \in 1 .. m + 1}
    OBVIOUS
  <2>1. /\ f[m] \in Seq(Records) /\ InOrderOfReception(f[m])
        /\ ToSet(f[m]) \subseteq {s[k] : k \in 1 .. m}
    BY <1>1, <1>5
  <2>2. f[m + 1] = IF m + 1 \in positions THEN Append(f[m], s[m + 1]) ELSE f[m]
    <3>1. f[m + 1] = OneMore(f[m], s, positions, m + 1)
      BY <1>1, <1>3 DEF Part
    <3> QED BY <3>1 DEF OneMore
  <2>3. s[m + 1] \in Records
    BY <1>1
  <2>4. {s[k] : k \in 1 .. m} \subseteq {s[k] : k \in 1 .. m + 1}
        /\ s[m + 1] \in {s[k] : k \in 1 .. m + 1}
    OBVIOUS
  <2>5. \A q \in ToSet(f[m]) : NotAfter(q, s[m + 1])
    <3>1. \A k \in 1 .. m : NotAfter(s[k], s[m + 1])
      BY <1>1 DEF InOrderOfReception
    <3> QED BY <2>1, <3>1
  <2>6. CASE m + 1 \in positions
    <3>1. /\ f[m + 1] \in Seq(Records) /\ InOrderOfReception(f[m + 1])
          /\ ToSet(f[m + 1]) = ToSet(f[m]) \cup {s[m + 1]}
      BY <2>1, <2>2, <2>3, <2>5, <2>6, AppendFacts, AppendInOrder
    <3> QED BY <2>1, <2>4, <3>1
  <2>7. CASE m + 1 \notin positions
    BY <2>1, <2>2, <2>4, <2>7
  <2> QED BY <2>6, <2>7
<1>6. Nat \subseteq Good
  <2> HIDE DEF Good
  <2> QED BY <1>4, <1>5, NaturalInduction
<1> QED BY <1>1, <1>3, <1>6

\* What is kept is in order, and it is depth events and trades.
KeptInOrder(acc) ==
  acc.ok => /\ InOrderOfReception(acc.unique)
            /\ \A q \in ToSet(acc.unique) : q.kind # "other"

LEMMA KeepInOrder ==
  ASSUME NEW seen, NEW n, NEW acc, Deduplicated(acc, Records, seen, n), KeptInOrder(acc),
         NEW r \in Records, \A q \in seen : NotAfter(q, r)
  PROVE  KeptInOrder(Keep(acc, r))
<1>1. PICK next : next = Keep(acc, r)
  OBVIOUS
<1>2. acc = [ok |-> acc.ok, unique |-> acc.unique, duplicates |-> acc.duplicates]
      /\ acc.unique \in Seq(Records)
  BY DEF Deduplicated
<1> SUFFICES ASSUME next.ok PROVE KeptInOrder(next)
  BY <1>1 DEF KeptInOrder
<1>3. CASE next = acc
  BY <1>3
<1>4. CASE next = [acc EXCEPT !.ok = FALSE]
  <2>1. ~next.ok
    BY <1>2, <1>4
  <2> QED BY <2>1
<1>5. CASE acc.ok /\ next = [acc EXCEPT !.unique = Append(acc.unique, r)]
  <2>1. next.unique = Append(acc.unique, r)
    BY <1>2, <1>5
  <2>2. ToSet(acc.unique) \subseteq seen
    BY <1>5 DEF Deduplicated
  <2>3. r.kind # "other"
    <3> SUFFICES ASSUME r.kind = "other" PROVE FALSE
      OBVIOUS
    <3>1. Keep(acc, r) = [acc EXCEPT !.ok = FALSE]
      BY <1>5, Zenon DEF Keep
    <3>2. ~next.ok
      BY <1>1, <1>2, <3>1
    <3> QED BY <3>2
  <2>4. InOrderOfReception(acc.unique) /\ \A q \in ToSet(acc.unique) : q.kind # "other"
    BY <1>5 DEF KeptInOrder
  <2>5. InOrderOfReception(next.unique)
    BY <1>2, <2>1, <2>2, <2>4, AppendInOrder
  <2>6. ToSet(next.unique) = ToSet(acc.unique) \cup {r}
    BY <1>2, <2>1, AppendFacts
  <2> QED BY <2>3, <2>4, <2>5, <2>6 DEF KeptInOrder
<1>6. CASE acc.ok /\ next = [acc EXCEPT !.duplicates = Append(acc.duplicates, r)]
  <2>1. next.unique = acc.unique
    BY <1>2, <1>6
  <2> QED BY <1>6, <2>1 DEF KeptInOrder
<1> QED BY <1>1, <1>3, <1>4, <1>5, <1>6, KeepCases

LEMMA DeduplicateInOrder ==
  ASSUME NEW records \in Seq(Records), InOrderOfReception(records)
  PROVE  KeptInOrder(deduplicate(records))
<1>1. Len(records) \in Nat /\ \A k \in 1 .. Len(records) : records[k] \in Records
  OBVIOUS
<1>2. PICK g : Keeps(g, records, Len(records))
  BY <1>1, KeepsExists
<1> DEFINE f == CHOOSE f : Keeps(f, records, Len(records))
<1>3. Keeps(f, records, Len(records)) /\ deduplicate(records) = f[Len(records)]
  BY <1>2, Zenon DEF deduplicate, Keeps, Nothing
<1> HIDE DEF f
<1> DEFINE Good == {m \in Nat : m <= Len(records) =>
                      /\ Deduplicated(f[m], Records, {records[k] : k \in 1 .. m}, m)
                      /\ KeptInOrder(f[m])}
<1>4. 0 \in Good
  <2>1. f[0] = Nothing
    BY <1>1, <1>3 DEF Keeps
  <2>2. ToSet(<< >>) = {} /\ << >> \in Seq(Records) /\ Len(<< >>) = 0
    BY DEF ToSet
  <2>3. {records[k] : k \in 1 .. 0} = {}
    OBVIOUS
  <2>4. Deduplicated(Nothing, Records, {}, 0)
    BY <2>2 DEF Deduplicated, Nothing
  <2>5. KeptInOrder(Nothing)
    BY <2>2 DEF KeptInOrder, Nothing, InOrderOfReception
  <2> QED BY <2>1, <2>3, <2>4, <2>5
<1>5. ASSUME NEW m \in Nat, m \in Good PROVE m + 1 \in Good
  <2> SUFFICES ASSUME m + 1 <= Len(records)
               PROVE  /\ Deduplicated(f[m + 1], Records, {records[k] : k \in 1 .. m + 1}, m + 1)
                      /\ KeptInOrder(f[m + 1])
    OBVIOUS
  <2>1. Deduplicated(f[m], Records, {records[k] : k \in 1 .. m}, m) /\ KeptInOrder(f[m])
    BY <1>1, <1>5
  <2>2. f[m + 1] = Keep(f[m], records[m + 1])
    BY <1>1, <1>3 DEF Keeps
  <2>3. records[m + 1] \in Records
    BY <1>1
  <2>4. {records[k] : k \in 1 .. m + 1} = {records[k] : k \in 1 .. m} \cup {records[m + 1]}
    <3>1. 1 .. m + 1 = (1 .. m) \cup {m + 1}
      OBVIOUS
    <3> QED BY <3>1
  <2>5. \A q \in {records[k] : k \in 1 .. m} : NotAfter(q, records[m + 1])
    BY <1>1 DEF InOrderOfReception
  <2>6. Deduplicated(f[m + 1], Records, {records[k] : k \in 1 .. m + 1}, m + 1)
    BY <2>1, <2>2, <2>3, <2>4, KeepSound
  <2>7. KeptInOrder(f[m + 1])
    BY <2>1, <2>2, <2>3, <2>5, KeepInOrder
  <2> QED BY <2>6, <2>7
<1>6. Nat \subseteq Good
  <2> HIDE DEF Good
  <2> QED BY <1>4, <1>5, NaturalInduction
<1> HIDE DEF Good
<1>7. Len(records) \in Good
  BY <1>1, <1>6
<1> QED BY <1>1, <1>3, <1>7 DEF Good

\* What the replay relies on in a dataset d: its rows are those of a capture,
\* in the order of reception, ...
RowsSound(d) ==
  /\ IsFiniteSet(ToSet(d.rows))
  /\ \A row \in ToSet(d.rows) :
       /\ row.sequence \in Nat /\ row.record \in Records
       /\ row.record.kind \in {"depth", "trade"}
       /\ row.record.kind = "depth" =>
            row.record.data \in Feed /\ DOMAIN row.deltas = DOMAIN Changes(row.record.data)
       /\ d.starts[row.record.connection].started \in Nat
       /\ d.starts[row.record.connection].started <= row.record.received
  /\ \A r, q \in ToSet(d.rows) :
       /\ r.sequence = q.sequence => r = q
       /\ r.sequence < q.sequence => NotAfter(r.record, q.record)
       /\ r.record.connection < q.record.connection =>
            r.record.received < d.starts[q.record.connection].started

\* ... and its quantities are exact.
QuantitiesSound(d) ==
  /\ \A row \in ToSet(d.rows) : row.record.kind = "depth" =>
       \A l \in DOMAIN row.deltas : row.deltas[l] * Increment = Truth[row.record.data.final][l]
  /\ \A s \in d.snapshots :
       s.last \in 0 .. LastId /\ \A l \in Level : s.book[l] * Increment = Truth[s.last][l]

LEMMA DatasetSound ==
  ASSUME TInv, Built
  PROVE  RowsSound(dataset) /\ QuantitiesSound(dataset)
<1>1. CaptureSound(capture) /\ IInv /\ TimesSound
  BY DEF TInv, IInv
<1>2. PICK days, kept, snapshots :
        /\ kept = deduplicate(raw_records(capture, days)) /\ kept.ok
        /\ snapshots = snapshot_rows(capture, days)
        /\ dataset.rows = build_rows(kept.unique)
        /\ dataset.starts = capture.connections
        /\ dataset.snapshots =
             {[connection |-> s.connection, last |-> s.last,
               book |-> [l \in Level |-> decimal_to_units(Truth[s.last][l])]] : s \in snapshots}
  BY <1>1, BuiltFacts
<1>3. PICK raw : raw = raw_records(capture, days)
  OBVIOUS
<1>4. /\ raw \in Seq(Records)
      /\ ToSet(raw) = {r \in ToSet(capture.records) : utc_day(r.received) \in days}
  BY <1>1, <1>3, RawRecords
<1>5. InOrderOfReception(raw)
  <2>1. capture.records \in Seq(Records) /\ InOrderOfReception(capture.records)
    BY <1>1 DEF CaptureSound, TimesSound
  <2> QED BY <1>3, <2>1, ElementsAtInOrder DEF raw_records
<1>6. PICK unique : unique = kept.unique
  OBVIOUS
<1>7. /\ unique \in Seq(Records) /\ ToSet(unique) \subseteq ToSet(raw)
      /\ \A k \in 1 .. Len(unique) : unique[k].kind = "depth" => unique[k].data \in Feed
  <2>1. /\ Deduplicated(kept, Records, ToSet(raw), Len(raw))
        /\ \A k \in 1 .. Len(kept.unique) :
             kept.unique[k].kind = "depth" => kept.unique[k].data \in Feed
    BY <1>1, <1>2, <1>3, UniqueFacts
  <2>2. kept.unique \in Seq(Records) /\ ToSet(kept.unique) \subseteq ToSet(raw)
    BY <1>2, <2>1 DEF Deduplicated
  <2> QED BY <1>6, <2>1, <2>2
<1>8. InOrderOfReception(unique) /\ \A q \in ToSet(unique) : q.kind # "other"
  BY <1>2, <1>3, <1>4, <1>5, <1>6, DeduplicateInOrder DEF KeptInOrder
<1>9. PICK m \in Nat : m = Len(unique)
  BY <1>7
<1>10. PICK rows : rows = dataset.rows
  OBVIOUS
<1>11. /\ DOMAIN rows = 1 .. m
       /\ \A k \in 1 .. m :
            /\ rows[k].record = unique[k] /\ rows[k].sequence = k - 1
            /\ unique[k].kind = "depth" => DOMAIN rows[k].deltas = DOMAIN Changes(unique[k].data)
       /\ ToSet(rows) = {rows[k] : k \in 1 .. m}
  <2>1. /\ DOMAIN rows = 1 .. m
        /\ \A k \in 1 .. m :
             /\ rows[k].record = unique[k]
             /\ unique[k].kind = "depth" =>
                  rows[k].deltas = [l \in DOMAIN Changes(unique[k].data) |->
                                      decimal_to_units(Changes(unique[k].data)[l])]
        /\ ToSet(rows) = {rows[k] : k \in 1 .. m}
    BY <1>2, <1>6, <1>7, <1>9, <1>10, RowsOf
  <2>2. DOMAIN unique = 1 .. m
    BY <1>7, <1>9
  <2>3. \A k \in 1 .. m : rows[k].sequence = k - 1
    BY <1>2, <1>6, <1>10, <2>2 DEF build_rows
  <2>4. \A k \in 1 .. m : unique[k].kind = "depth" =>
          DOMAIN rows[k].deltas = DOMAIN Changes(unique[k].data)
    BY <2>1
  <2> QED BY <2>1, <2>3, <2>4
<1>12. \A k \in 1 .. m : unique[k] \in Records /\ unique[k] \in ToSet(unique)
  BY <1>7, <1>9, ToSetElements
<1>13. ASSUME NEW k \in 1 .. m
       PROVE  /\ dataset.starts[unique[k].connection].started \in Nat
              /\ dataset.starts[unique[k].connection].started <= unique[k].received
              /\ \A c \in 1 .. Len(capture.connections) : unique[k].connection < c =>
                   unique[k].received < dataset.starts[c].started
              /\ unique[k].connection \in 1 .. Len(capture.connections)
  <2>1. unique[k] \in ToSet(capture.records)
    BY <1>4, <1>7, <1>12, <1>13
  <2>2. capture.records \in Seq(Records) /\ capture.connections \in Seq(Connections)
    BY <1>1 DEF CaptureSound
  <2>3. PICK i \in 1 .. Len(capture.records) : unique[k] = capture.records[i]
    BY <2>1, <2>2, ToSetElements
  <2>4. \A c \in 1 .. Len(capture.connections) : capture.connections[c].started \in Nat
    BY <2>2, StoredTypes
  <2> QED BY <1>1, <1>2, <2>3, <2>4 DEF TimesSound, ReceivedBetween
<1>14. RowsSound(dataset)
  <2>1. IsFiniteSet(ToSet(rows))
    <3>1. IsFiniteSet(1 .. m)
      BY <1>9, FS_Interval
    <3>2. [k \in 1 .. m |-> rows[k]] \in Surjection(1 .. m, ToSet(rows))
      BY <1>11 DEF Surjection
    <3> QED BY <3>1, <3>2, FS_Surjection
  <2>2. ASSUME NEW row \in ToSet(rows)
        PROVE  /\ row.sequence \in Nat /\ row.record \in Records
               /\ row.record.kind \in {"depth", "trade"}
               /\ row.record.kind = "depth" =>
                    row.record.data \in Feed /\ DOMAIN row.deltas = DOMAIN Changes(row.record.data)
               /\ dataset.starts[row.record.connection].started \in Nat
               /\ dataset.starts[row.record.connection].started <= row.record.received
    <3>1. PICK k \in 1 .. m : row = rows[k]
      BY <1>11, <2>2
    <3>2. row.record = unique[k] /\ row.sequence = k - 1 /\ row.sequence \in Nat
      BY <1>11, <3>1
    <3>3. unique[k].kind \in {"depth", "trade"}
      BY <1>8, <1>12, <3>1 DEF Records
    <3>4. row.record.kind = "depth" =>
            row.record.data \in Feed /\ DOMAIN row.deltas = DOMAIN Changes(row.record.data)
      BY <1>7, <1>9, <1>11, <3>1, <3>2
    <3> QED BY <1>12, <1>13, <3>1, <3>2, <3>3, <3>4
  <2>3. ASSUME NEW r \in ToSet(rows), NEW q \in ToSet(rows)
        PROVE  /\ r.sequence = q.sequence => r = q
               /\ r.sequence < q.sequence => NotAfter(r.record, q.record)
               /\ r.record.connection < q.record.connection =>
                    r.record.received < dataset.starts[q.record.connection].started
    <3>1. PICK j \in 1 .. m : r = rows[j]
      BY <1>11, <2>3
    <3>2. PICK k \in 1 .. m : q = rows[k]
      BY <1>11, <2>3
    <3>3. /\ r.record = unique[j] /\ r.sequence = j - 1
          /\ q.record = unique[k] /\ q.sequence = k - 1
      BY <1>11, <3>1, <3>2
    <3>4. r.sequence = q.sequence => j = k
      BY <3>3
    <3>5. r.sequence < q.sequence => j < k
      BY <3>3
    <3>6. j < k => NotAfter(unique[j], unique[k])
      BY <1>8, <1>9 DEF InOrderOfReception
    <3> QED BY <1>13, <3>1, <3>2, <3>3, <3>4, <3>5, <3>6
  <2> HIDE DEF NotAfter
  <2> QED BY <1>10, <2>1, <2>2, <2>3 DEF RowsSound
<1>15. QuantitiesSound(dataset)
  <2>1. UnitsExact
    BY <1>1, NothingRounded
  <2>2. \A s \in dataset.snapshots : s.last \in 0 .. LastId
    <3> SUFFICES ASSUME NEW s \in dataset.snapshots PROVE s.last \in 0 .. LastId
      OBVIOUS
    <3>1. PICK taken \in snapshots :
            s = [connection |-> taken.connection, last |-> taken.last,
                 book |-> [i \in Level |-> decimal_to_units(Truth[taken.last][i])]]
      BY <1>2
    <3>2. s.last = taken.last
      BY <3>1
    <3>3. SnapshotIds \subseteq 0 .. LastId
      BY PipelineAssumption, Zenon
    <3>4. taken \in capture.snapshots
      BY <1>2 DEF snapshot_rows
    <3> QED BY <1>1, <3>2, <3>3, <3>4 DEF CaptureSound
  <2> QED BY <2>1, <2>2 DEF QuantitiesSound, UnitsExact
<1> QED BY <1>14, <1>15

-----------------------------------------------------------------------------
(***************************************************************************)
(* The order of the replay.                                                *)
(***************************************************************************)

EventKinds == {"reset", "snapshot", "depth", "trade"}

\* Staged events have comparable keys, of which no two are equal.
StagedSound(staged) ==
  /\ \A e \in staged : e.available \in Nat /\ e.sequence \in Nat /\ e.kind \in EventKinds
  /\ \A d, e \in staged : d.kind = e.kind /\ d.sequence = e.sequence => d = e

LEMMA PriorityFacts ==
  /\ \A kind \in EventKinds : Priority[kind] \in Int
  /\ Priority["reset"] = -1 /\ Priority["snapshot"] = 0
  /\ Priority["depth"] = 1 /\ Priority["trade"] = 2
<1>1. /\ Priority["reset"] = -1 /\ Priority["snapshot"] = 0
      /\ Priority["depth"] = 1 /\ Priority["trade"] = 2
  BY DEF Priority
<1> QED BY <1>1 DEF EventKinds

LEMMA KeysOrder ==
  ASSUME NEW staged, StagedSound(staged)
  PROVE  /\ \A a \in staged : ~KeyBefore(a, a)
         /\ \A a, b \in staged : a # b => KeyBefore(a, b) \/ KeyBefore(b, a)
         /\ \A a, b, c \in staged : KeyBefore(a, b) /\ KeyBefore(b, c) => KeyBefore(a, c)
<1>1. \A a \in staged :
        a.available \in Nat /\ a.sequence \in Nat /\ Priority[a.kind] \in Int
  BY PriorityFacts DEF StagedSound
<1>2. \A a, b \in staged : Priority[a.kind] = Priority[b.kind] => a.kind = b.kind
  <2> SUFFICES ASSUME NEW a \in staged, NEW b \in staged, Priority[a.kind] = Priority[b.kind]
               PROVE  a.kind = b.kind
    OBVIOUS
  <2>1. a.kind \in EventKinds /\ b.kind \in EventKinds
    BY DEF StagedSound
  <2> QED BY <2>1, PriorityFacts DEF EventKinds
<1>3. \A a, b \in staged : a.kind = b.kind /\ a.sequence = b.sequence => a = b
  BY DEF StagedSound
<1>4. \A a, b \in staged : a # b => KeyBefore(a, b) \/ KeyBefore(b, a)
  <2> SUFFICES ASSUME NEW a \in staged, NEW b \in staged, a # b
               PROVE  KeyBefore(a, b) \/ KeyBefore(b, a)
    OBVIOUS
  <2>1. Priority[a.kind] # Priority[b.kind] \/ a.sequence # b.sequence
    BY <1>2, <1>3
  <2>2. /\ a.available \in Nat /\ a.sequence \in Nat /\ Priority[a.kind] \in Int
        /\ b.available \in Nat /\ b.sequence \in Nat /\ Priority[b.kind] \in Int
    BY <1>1
  <2> QED BY <2>1, <2>2 DEF KeyBefore
<1>5. \A a \in staged : ~KeyBefore(a, a)
  BY <1>1 DEF KeyBefore
<1>6. \A a, b, c \in staged : KeyBefore(a, b) /\ KeyBefore(b, c) => KeyBefore(a, c)
  <2> SUFFICES ASSUME NEW a \in staged, NEW b \in staged, NEW c \in staged,
                      KeyBefore(a, b), KeyBefore(b, c)
               PROVE  KeyBefore(a, c)
    OBVIOUS
  <2>1. /\ a.available \in Nat /\ a.sequence \in Nat /\ Priority[a.kind] \in Int
        /\ b.available \in Nat /\ b.sequence \in Nat /\ Priority[b.kind] \in Int
        /\ c.available \in Nat /\ c.sequence \in Nat /\ Priority[c.kind] \in Int
    BY <1>1
  <2> QED BY <2>1 DEF KeyBefore
<1> QED BY <1>4, <1>5, <1>6

\* What comes before an event.
KeysBefore(staged, e) == {d \in staged : KeyBefore(d, e)}

LEMMA FewerBefore ==
  ASSUME NEW staged, IsFiniteSet(staged), StagedSound(staged)
  PROVE  /\ \A e \in staged : Cardinality(KeysBefore(staged, e)) \in 0 .. Cardinality(staged) - 1
         /\ \A d, e \in staged : KeyBefore(d, e) =>
              Cardinality(KeysBefore(staged, d)) < Cardinality(KeysBefore(staged, e))
<1>1. \A e \in staged : KeysBefore(staged, e) \subseteq staged \ {e}
  BY KeysOrder DEF KeysBefore
<1>2. \A e \in staged : IsFiniteSet(KeysBefore(staged, e))
                        /\ Cardinality(KeysBefore(staged, e)) \in Nat
  <2>1. \A e \in staged : KeysBefore(staged, e) \in SUBSET staged
    BY DEF KeysBefore
  <2> QED BY <2>1, FS_Subset, FS_CardinalityType
<1>3. PICK n \in Nat : n = Cardinality(staged)
  BY FS_CardinalityType
<1>4. ASSUME NEW e \in staged
      PROVE  Cardinality(KeysBefore(staged, e)) \in 0 .. n - 1
  <2>1. IsFiniteSet(staged \ {e}) /\ Cardinality(staged \ {e}) = n - 1
    BY <1>3, <1>4, FS_RemoveElement
  <2>2. Cardinality(KeysBefore(staged, e)) <= Cardinality(staged \ {e})
    BY <1>1, <2>1, FS_Subset
  <2> QED BY <1>2, <1>3, <2>1, <2>2
<1>5. ASSUME NEW d \in staged, NEW e \in staged, KeyBefore(d, e)
      PROVE  Cardinality(KeysBefore(staged, d)) < Cardinality(KeysBefore(staged, e))
  <2>1. /\ KeysBefore(staged, d) \in SUBSET KeysBefore(staged, e)
        /\ d \in KeysBefore(staged, e) /\ d \notin KeysBefore(staged, d)
    BY <1>5, KeysOrder DEF KeysBefore
  <2>2. KeysBefore(staged, d) # KeysBefore(staged, e)
    BY <2>1
  <2>3. Cardinality(KeysBefore(staged, d)) <= Cardinality(KeysBefore(staged, e))
        /\ Cardinality(KeysBefore(staged, d)) # Cardinality(KeysBefore(staged, e))
    BY <1>2, <2>1, <2>2, FS_Subset
  <2> QED BY <1>2, <2>3
<1> QED BY <1>3, <1>4, <1>5

\* The replay's order has every staged event, the keys in ascending order.
LEMMA InOrderFacts ==
  ASSUME NEW staged, IsFiniteSet(staged), StagedSound(staged)
  PROVE  /\ InOrder(staged) \in Seq(staged)
         /\ \A j, k \in 1 .. Len(InOrder(staged)) :
              j < k => KeyBefore(InOrder(staged)[j], InOrder(staged)[k])
         /\ \A e \in staged : \E k \in 1 .. Len(InOrder(staged)) : InOrder(staged)[k] = e
<1>1. PICK n \in Nat : n = Cardinality(staged)
  BY FS_CardinalityType
<1> DEFINE order == InOrder(staged)
           c(e) == Cardinality(KeysBefore(staged, e))
<1>2. order = [k \in 1 .. n |-> CHOOSE e \in staged : c(e) = k - 1]
  BY <1>1 DEF InOrder, KeysBefore
<1>3. \A k \in 1 .. n : \E e \in staged : c(e) = k - 1
  <2> SUFFICES ASSUME NEW k \in 1 .. n PROVE \E e \in staged : c(e) = k - 1
    OBVIOUS
  <2> DEFINE R == {p \in staged \X staged : KeyBefore(p[1], p[2])}
  <2>1. \A a, b \in staged : <<a, b>> \in R <=> KeyBefore(a, b)
    OBVIOUS
  <2> HIDE DEF R
  <2>2. \A a \in staged : <<a, a>> \notin R
    BY <2>1, KeysOrder
  <2>5. \A a, b \in staged : a # b => <<a, b>> \in R \/ <<b, a>> \in R
    BY <2>1, KeysOrder
  <2>6. \A a, b, d \in staged : <<a, b>> \in R /\ <<b, d>> \in R => <<a, d>> \in R
    BY <2>1, KeysOrder
  <2>3. PICK m \in 0 .. Cardinality(staged) - 1 : m = k - 1
    BY <1>1
  <2>4. PICK e \in staged : Cardinality({q \in staged : <<q, e>> \in R}) = m
    BY <2>2, <2>5, <2>6, EveryRank
  <2>7. {q \in staged : <<q, e>> \in R} = KeysBefore(staged, e)
    BY <2>1 DEF KeysBefore
  <2> QED BY <2>3, <2>4, <2>7
<1> HIDE DEF c
<1>4. /\ DOMAIN order = 1 .. n
      /\ \A k \in 1 .. n : order[k] \in staged /\ c(order[k]) = k - 1
  <2>1. \A k \in 1 .. n : order[k] = CHOOSE e \in staged : c(e) = k - 1
    BY <1>2
  <2>2. DOMAIN order = 1 .. n
    BY <1>2
  <2> HIDE DEF order
  <2> QED BY <1>3, <2>1, <2>2
<1>5. order \in Seq(staged) /\ Len(order) = n
  <2>1. order = [k \in 1 .. n |-> order[k]]
    BY <1>2
  <2> HIDE DEF order
  <2>2. order \in [1 .. n -> staged]
    BY <1>4, <2>1
  <2> QED BY <1>1, <2>2
<1> HIDE DEF order
<1>6. /\ \A e \in staged : c(e) \in 0 .. n - 1
      /\ \A d, e \in staged : KeyBefore(d, e) => c(d) < c(e)
  BY <1>1, FewerBefore DEF c
<1>7. ASSUME NEW j \in 1 .. n, NEW k \in 1 .. n, j < k
      PROVE  KeyBefore(order[j], order[k])
  <2>1. /\ order[j] \in staged /\ order[k] \in staged
        /\ c(order[j]) = j - 1 /\ c(order[k]) = k - 1
    BY <1>4
  <2>2. order[j] # order[k]
    BY <1>7, <2>1
  <2>3. ~KeyBefore(order[k], order[j])
    BY <1>6, <1>7, <2>1
  <2> QED BY <2>1, <2>2, <2>3, KeysOrder
<1>8. ASSUME NEW e \in staged PROVE \E k \in 1 .. n : order[k] = e
  <2>1. c(e) \in 0 .. n - 1
    BY <1>6
  <2>2. PICK k \in 1 .. n : k - 1 = c(e)
    <3>1. c(e) + 1 \in 1 .. n /\ (c(e) + 1) - 1 = c(e)
      BY <1>1, <2>1
    <3> QED BY <3>1
  <2>3. order[k] \in staged /\ c(order[k]) = c(e)
    BY <1>4, <2>2
  <2>4. order[k] = e
    <3> SUFFICES ASSUME order[k] # e PROVE FALSE
      OBVIOUS
    <3>1. KeyBefore(order[k], e) \/ KeyBefore(e, order[k])
      BY <2>3, KeysOrder
    <3>2. c(order[k]) < c(e) \/ c(e) < c(order[k])
      BY <1>6, <2>3, <3>1
    <3> QED BY <2>1, <2>3, <3>2
  <2> QED BY <2>4
<1> QED BY <1>5, <1>7, <1>8 DEF order

-----------------------------------------------------------------------------
(***************************************************************************)
(* One event of the replay.                                                *)
(***************************************************************************)

ReplayShape(r) ==
  r = [ok |-> r.ok, why |-> r.why, book |-> r.book, recent |-> r.recent,
       synchronized |-> r.synchronized, maximumEvent |-> r.maximumEvent,
       maximumAvailable |-> r.maximumAvailable, events |-> r.events,
       observations |-> r.observations]

\* r and q differ in the book, the trades and the readiness at most.
SameRecords(r, q) ==
  /\ q.ok = r.ok /\ q.maximumEvent = r.maximumEvent /\ q.maximumAvailable = r.maximumAvailable
  /\ q.events = r.events /\ q.observations = r.observations

\* The book after the levels of a depth event.
Overridden(book, levels) == [l \in Level |-> IF l \in DOMAIN levels THEN levels[l] ELSE book[l]]

\* The newest trades.
Newest(trades) == SubSeq(trades, LargerOf(1, Len(trades) - RecentTrades + 1), Len(trades))

\* What the event e makes of the book, the trades and the readiness of r.
Delivers(r, e, d) ==
  /\ ReplayShape(d) /\ SameRecords(r, d)
  /\ e.kind = "snapshot" =>
       d.book = e.payload /\ d.synchronized = FALSE /\ d.recent = r.recent
  /\ e.kind = "depth" =>
       d.book = Overridden(r.book, e.payload) /\ d.synchronized = TRUE /\ d.recent = r.recent
  /\ e.kind = "trade" =>
       d.book = r.book /\ d.synchronized = r.synchronized /\ d.recent = Newest(Append(r.recent, e))

LEMMA DeliverFacts ==
  ASSUME NEW r, ReplayShape(r), NEW e, e.kind \in {"snapshot", "depth", "trade"}
  PROVE  Delivers(r, e, Deliver(r, e))
<1>1. r = [ok |-> r.ok, why |-> r.why, book |-> r.book, recent |-> r.recent,
           synchronized |-> r.synchronized, maximumEvent |-> r.maximumEvent,
           maximumAvailable |-> r.maximumAvailable, events |-> r.events,
           observations |-> r.observations]
  BY DEF ReplayShape
<1>2. CASE e.kind = "snapshot"
  <2>1. Deliver(r, e) = [r EXCEPT !.book = e.payload, !.synchronized = FALSE]
    BY <1>2 DEF Deliver
  <2>2. Deliver(r, e) =
          [ok |-> r.ok, why |-> r.why, book |-> e.payload, recent |-> r.recent,
           synchronized |-> FALSE, maximumEvent |-> r.maximumEvent,
           maximumAvailable |-> r.maximumAvailable, events |-> r.events,
           observations |-> r.observations]
    BY <1>1, <2>1
  <2>3. ReplayShape(Deliver(r, e)) /\ SameRecords(r, Deliver(r, e))
    BY <2>2 DEF ReplayShape, SameRecords
  <2> QED BY <1>2, <2>2, <2>3 DEF Delivers
<1>3. CASE e.kind = "depth"
  <2> DEFINE book == Overridden(r.book, e.payload)
  <2>1. Deliver(r, e) = [r EXCEPT !.book = book, !.synchronized = TRUE]
    BY <1>3 DEF Deliver, Overridden
  <2> HIDE DEF book
  <2>2. Deliver(r, e) =
          [ok |-> r.ok, why |-> r.why, book |-> book, recent |-> r.recent,
           synchronized |-> TRUE, maximumEvent |-> r.maximumEvent,
           maximumAvailable |-> r.maximumAvailable, events |-> r.events,
           observations |-> r.observations]
    BY <1>1, <2>1
  <2>3. ReplayShape(Deliver(r, e)) /\ SameRecords(r, Deliver(r, e))
    BY <2>2 DEF ReplayShape, SameRecords
  <2> QED BY <1>3, <2>2, <2>3 DEF book, Delivers
<1>4. CASE e.kind = "trade"
  <2> DEFINE trades == Newest(Append(r.recent, e))
  <2>1. Deliver(r, e) = [r EXCEPT !.recent = trades]
    BY <1>4 DEF Deliver, Newest
  <2> HIDE DEF trades
  <2>2. Deliver(r, e) =
          [ok |-> r.ok, why |-> r.why, book |-> r.book, recent |-> trades,
           synchronized |-> r.synchronized, maximumEvent |-> r.maximumEvent,
           maximumAvailable |-> r.maximumAvailable, events |-> r.events,
           observations |-> r.observations]
    BY <1>1, <2>1
  <2>3. ReplayShape(Deliver(r, e)) /\ SameRecords(r, Deliver(r, e))
    BY <2>2 DEF ReplayShape, SameRecords
  <2> QED BY <1>4, <2>2, <2>3 DEF trades, Delivers
<1> QED BY <1>2, <1>3, <1>4

\* What an event that is not refused makes of a replay: a reset empties the
\* book, ...
ResetBy(r, n) ==
  /\ n.ok /\ n.book = NoLevels /\ n.recent = << >> /\ n.synchronized = FALSE
  /\ n.maximumEvent = r.maximumEvent /\ n.maximumAvailable = r.maximumAvailable
  /\ n.events = r.events /\ n.observations = r.observations

\* ... and any other is delivered, and observed once the book is ready.
DeliveredBy(r, e, n) ==
  /\ n.ok /\ e.event <= e.receive /\ e.receive <= e.available
  /\ n.book = Deliver(r, e).book /\ n.recent = Deliver(r, e).recent
  /\ n.synchronized = Deliver(r, e).synchronized
  /\ n.maximumEvent = LargerOf(r.maximumEvent, e.event)
  /\ n.maximumAvailable = LargerOf(r.maximumAvailable, e.available)
  /\ n.events = Append(r.events, e)
  /\ IF n.synchronized
       THEN ~Unquotable(n.book) /\ n.observations = Append(r.observations, Observation(n, e))
       ELSE n.observations = r.observations

LEMMA PlayCases ==
  ASSUME NEW r, ReplayShape(r), r.ok \in BOOLEAN, NEW e, e.kind \in EventKinds,
         e.event \in Nat, e.receive \in Nat, e.available \in Nat
  PROVE  /\ ReplayShape(PlayEvent(r, e)) /\ PlayEvent(r, e).ok \in BOOLEAN
         /\ PlayEvent(r, e).ok =>
              /\ r.ok
              /\ e.kind = "reset" => ResetBy(r, PlayEvent(r, e))
              /\ e.kind # "reset" => DeliveredBy(r, e, PlayEvent(r, e))
<1>1. r = [ok |-> r.ok, why |-> r.why, book |-> r.book, recent |-> r.recent,
           synchronized |-> r.synchronized, maximumEvent |-> r.maximumEvent,
           maximumAvailable |-> r.maximumAvailable, events |-> r.events,
           observations |-> r.observations]
  BY DEF ReplayShape
<1>2. PICK n : n = PlayEvent(r, e)
  OBVIOUS
<1> DEFINE next == [Deliver(r, e) EXCEPT
                      !.maximumEvent = LargerOf(@, e.event),
                      !.maximumAvailable = LargerOf(@, e.available),
                      !.events = Append(@, e)]
<1>3. n = IF ~r.ok THEN r
          ELSE IF e.kind = "reset"
            THEN [r EXCEPT !.book = NoLevels, !.recent = << >>, !.synchronized = FALSE]
          ELSE IF e.event > e.receive \/ e.receive > e.available
            THEN [r EXCEPT !.ok = FALSE, !.why = "not_causal"]
          ELSE IF ~next.synchronized THEN next
          ELSE IF Unquotable(next.book) THEN [r EXCEPT !.ok = FALSE, !.why = "unquotable"]
          ELSE [next EXCEPT !.observations = Append(@, Observation(next, e))]
  BY <1>2 DEF PlayEvent
<1> HIDE DEF next
<1>4. CASE ~r.ok
  BY <1>2, <1>3, <1>4
<1>5. CASE r.ok /\ e.kind = "reset"
  <2>1. n = [ok |-> r.ok, why |-> r.why, book |-> NoLevels, recent |-> << >>,
             synchronized |-> FALSE, maximumEvent |-> r.maximumEvent,
             maximumAvailable |-> r.maximumAvailable, events |-> r.events,
             observations |-> r.observations]
    BY <1>1, <1>3, <1>5
  <2>2. ReplayShape(n) /\ n.ok \in BOOLEAN /\ ResetBy(r, n)
    BY <1>5, <2>1 DEF ReplayShape, ResetBy
  <2> QED BY <1>2, <1>5, <2>2
<1>7. CASE r.ok /\ e.kind # "reset" /\ (e.event > e.receive \/ e.receive > e.available)
  <2>1. n = [r EXCEPT !.ok = FALSE, !.why = "not_causal"]
    BY <1>3, <1>7
  <2>2. n = [ok |-> FALSE, why |-> "not_causal", book |-> r.book, recent |-> r.recent,
            synchronized |-> r.synchronized, maximumEvent |-> r.maximumEvent,
            maximumAvailable |-> r.maximumAvailable, events |-> r.events,
            observations |-> r.observations]
    BY <1>1, <2>1
  <2>3. ReplayShape(n) /\ n.ok = FALSE
    BY <2>2 DEF ReplayShape
  <2> QED BY <1>2, <2>3
<1>8. CASE r.ok /\ e.kind # "reset" /\ ~(e.event > e.receive \/ e.receive > e.available)
  <2>0. e.kind \in {"snapshot", "depth", "trade"}
    BY <1>8 DEF EventKinds
  <2>1. PICK d : d = Deliver(r, e)
    OBVIOUS
  <2>2. ReplayShape(d) /\ SameRecords(r, d)
    <3>1. Delivers(r, e, d)
      BY <2>0, <2>1, DeliverFacts
    <3> QED BY <3>1 DEF Delivers
  <2>3. d = [ok |-> d.ok, why |-> d.why, book |-> d.book, recent |-> d.recent,
             synchronized |-> d.synchronized, maximumEvent |-> d.maximumEvent,
             maximumAvailable |-> d.maximumAvailable, events |-> d.events,
             observations |-> d.observations]
    BY <2>2 DEF ReplayShape
  <2>4. next = [ok |-> d.ok, why |-> d.why, book |-> d.book, recent |-> d.recent,
                synchronized |-> d.synchronized,
                maximumEvent |-> LargerOf(d.maximumEvent, e.event),
                maximumAvailable |-> LargerOf(d.maximumAvailable, e.available),
                events |-> Append(d.events, e), observations |-> d.observations]
    <3>1. next = [d EXCEPT !.maximumEvent = LargerOf(d.maximumEvent, e.event),
                           !.maximumAvailable = LargerOf(d.maximumAvailable, e.available),
                           !.events = Append(d.events, e)]
      BY <2>1, Zenon DEF next
    <3>2. PICK x, y, z : x = LargerOf(d.maximumEvent, e.event)
                         /\ y = LargerOf(d.maximumAvailable, e.available)
                         /\ z = Append(d.events, e)
      OBVIOUS
    <3>3. next = [d EXCEPT !.maximumEvent = x, !.maximumAvailable = y, !.events = z]
      BY <3>1, <3>2
    <3>4. next = [ok |-> d.ok, why |-> d.why, book |-> d.book, recent |-> d.recent,
                  synchronized |-> d.synchronized, maximumEvent |-> x, maximumAvailable |-> y,
                  events |-> z, observations |-> d.observations]
      BY <2>3, <3>3
    <3> QED BY <3>2, <3>4
  <2>5. /\ ReplayShape(next) /\ next.ok = r.ok
        /\ next.book = d.book /\ next.recent = d.recent /\ next.synchronized = d.synchronized
        /\ next.maximumEvent = LargerOf(r.maximumEvent, e.event)
        /\ next.maximumAvailable = LargerOf(r.maximumAvailable, e.available)
        /\ next.events = Append(r.events, e) /\ next.observations = r.observations
    BY <2>2, <2>4 DEF ReplayShape, SameRecords
  <2>6. CASE ~next.synchronized
    <3>1. n = next
      BY <1>3, <1>8, <2>6
    <3>2. ReplayShape(n) /\ n.ok = r.ok
      BY <2>5, <3>1
    <3>3. DeliveredBy(r, e, n)
      <4>1. e.event <= e.receive /\ e.receive <= e.available
        BY <1>8
      <4> QED BY <1>8, <2>1, <2>5, <2>6, <3>1, <4>1 DEF DeliveredBy
    <3> QED BY <1>2, <1>8, <3>2, <3>3
  <2>7. CASE next.synchronized /\ Unquotable(next.book)
    <3>1. n = [r EXCEPT !.ok = FALSE, !.why = "unquotable"]
      BY <1>3, <1>8, <2>7
    <3>2. n = [ok |-> FALSE, why |-> "unquotable", book |-> r.book, recent |-> r.recent,
              synchronized |-> r.synchronized, maximumEvent |-> r.maximumEvent,
              maximumAvailable |-> r.maximumAvailable, events |-> r.events,
              observations |-> r.observations]
      BY <1>1, <3>1
    <3>3. ReplayShape(n) /\ n.ok = FALSE
      BY <3>2 DEF ReplayShape
    <3> QED BY <1>2, <3>3
  <2>8. CASE next.synchronized /\ ~Unquotable(next.book)
    <3>1. n = [next EXCEPT !.observations = Append(@, Observation(next, e))]
      BY <1>3, <1>8, <2>8
    <3>2. n = [ok |-> next.ok, why |-> next.why, book |-> next.book, recent |-> next.recent,
               synchronized |-> next.synchronized,
               maximumEvent |-> next.maximumEvent, maximumAvailable |-> next.maximumAvailable,
               events |-> next.events,
               observations |-> Append(next.observations, Observation(next, e))]
      BY <2>5, <3>1 DEF ReplayShape
    <3>3. Observation(next, e) = Observation(n, e)
      BY <3>2 DEF Observation
    <3>4. ReplayShape(n) /\ n.ok = r.ok
      BY <2>5, <3>2 DEF ReplayShape
    <3>5. DeliveredBy(r, e, n)
      <4>1. e.event <= e.receive /\ e.receive <= e.available
        BY <1>8
      <4> QED BY <1>8, <2>1, <2>5, <2>8, <3>2, <3>3, <4>1 DEF DeliveredBy
    <3> QED BY <1>2, <1>8, <3>4, <3>5
  <2> QED BY <2>6, <2>7, <2>8
<1> QED BY <1>4, <1>5, <1>7, <1>8

-----------------------------------------------------------------------------
(***************************************************************************)
(* What is staged.                                                         *)
(***************************************************************************)

LEMMA FirstOfFacts ==
  ASSUME NEW rows, rows # {}, \A q \in rows : q.sequence \in Nat
  PROVE  FirstOf(rows) \in rows /\ \A q \in rows : FirstOf(rows).sequence <= q.sequence
<1> DEFINE sequences == {q.sequence : q \in rows}
<1>1. sequences # {} /\ sequences \in SUBSET Nat
  OBVIOUS
<1>2. PICK n \in sequences : \A m \in sequences : n <= m
  <2> HIDE DEF sequences
  <2> QED BY <1>1, LeastNatural
<1>3. \E r \in rows : \A q \in rows : r.sequence <= q.sequence
  BY <1>2
<1> QED BY <1>3 DEF FirstOf

ResetOf(d, c) ==
  LET start == d.starts[c].started
  IN Staged("reset", c, start, start, start, FirstOf(MessagesOf(d, c)).sequence, << >>)

BridgeOf(d, c) == FirstOf(Bridges(MessagesOf(d, c), SnapshotOf(d, c).last))

SnapshotEventOf(d, c) ==
  Staged("snapshot", c, d.starts[c].started, BridgeOf(d, c).record.received,
         BridgeOf(d, c).record.received + Delay, BridgeOf(d, c).sequence, SnapshotOf(d, c).book)

MessageEventOf(row) ==
  Staged(row.record.kind, row.record.connection, row.record.event, row.record.received,
         row.record.received + Delay, row.sequence,
         IF row.record.kind = "depth" THEN row.deltas ELSE << >>)

AllStaged(d) == UNION {StagedOf(d, c) : c \in ConnectionItems(d)}

LEMMA StagedOfIs ==
  ASSUME NEW d, NEW c
  PROVE  StagedOf(d, c) = {ResetOf(d, c), SnapshotEventOf(d, c)}
                          \cup {MessageEventOf(row) : row \in MessagesOf(d, c)}
<1>1. \A row \in MessagesOf(d, c) :
        MessageEventOf(row)
          = Staged(row.record.kind, c, row.record.event, row.record.received,
                   row.record.received + Delay, row.sequence,
                   IF row.record.kind = "depth" THEN row.deltas ELSE << >>)
  BY DEF MessagesOf, MessageEventOf
<1>2. {MessageEventOf(row) : row \in MessagesOf(d, c)}
        = {Staged(row.record.kind, c, row.record.event, row.record.received,
                  row.record.received + Delay, row.sequence,
                  IF row.record.kind = "depth" THEN row.deltas ELSE << >>)
             : row \in MessagesOf(d, c)}
  BY <1>1
<1> QED BY <1>2, Zenon DEF StagedOf, ResetOf, SnapshotEventOf, BridgeOf

\* The connections of a dataset that is replayed are fit for it.
Fit(d) == RowsSound(d) /\ \A c \in ConnectionItems(d) : ~Unfit(d, c)

LEMMA ConnectionFacts ==
  ASSUME NEW d, Fit(d), NEW c \in ConnectionItems(d)
  PROVE  /\ MessagesOf(d, c) \subseteq ToSet(d.rows)
         /\ \A row \in MessagesOf(d, c) : row.record.connection = c
         /\ FirstOf(MessagesOf(d, c)) \in MessagesOf(d, c)
         /\ \A row \in MessagesOf(d, c) : FirstOf(MessagesOf(d, c)).sequence <= row.sequence
         /\ BridgeOf(d, c) \in Bridges(MessagesOf(d, c), SnapshotOf(d, c).last)
         /\ BridgeOf(d, c) \in MessagesOf(d, c)
         /\ \A row \in Bridges(MessagesOf(d, c), SnapshotOf(d, c).last) :
              BridgeOf(d, c).sequence <= row.sequence
         /\ d.starts[c].started \in Nat
         /\ SnapshotOf(d, c) \in d.snapshots
<1>1. /\ MessagesOf(d, c) \subseteq ToSet(d.rows)
      /\ \A row \in MessagesOf(d, c) : row.record.connection = c
      /\ MessagesOf(d, c) # {}
  BY DEF MessagesOf, ConnectionItems
<1>2. \A row \in MessagesOf(d, c) : row.sequence \in Nat
  BY <1>1 DEF Fit, RowsSound
<1> DEFINE bridges == Bridges(MessagesOf(d, c), SnapshotOf(d, c).last)
<1>3. bridges # {} /\ \E s \in d.snapshots : s.connection = c
  BY DEF Fit, Unfit
<1>4. bridges \subseteq MessagesOf(d, c)
  BY DEF Bridges
<1> HIDE DEF bridges
<1>5. \A row \in bridges : row.sequence \in Nat
  BY <1>2, <1>4
<1>6. FirstOf(bridges) \in bridges /\ \A row \in bridges : FirstOf(bridges).sequence <= row.sequence
  BY <1>3, <1>5, FirstOfFacts
<1>7. FirstOf(MessagesOf(d, c)) \in MessagesOf(d, c)
      /\ \A row \in MessagesOf(d, c) : FirstOf(MessagesOf(d, c)).sequence <= row.sequence
  BY <1>1, <1>2, FirstOfFacts
<1>8. d.starts[c].started \in Nat
  <2>1. PICK row \in ToSet(d.rows) : row.record.connection = c
    BY DEF ConnectionItems
  <2> QED BY <2>1 DEF Fit, RowsSound
<1>9. SnapshotOf(d, c) \in d.snapshots
  BY <1>3 DEF SnapshotOf
<1> QED BY <1>1, <1>4, <1>6, <1>7, <1>8, <1>9 DEF bridges, BridgeOf

\* Every staged event is of a row of its connection, and of one of the kinds.
StagedFor(d, e, row) ==
  /\ row \in ToSet(d.rows) /\ e.connection = row.record.connection /\ e.sequence = row.sequence
  /\ e.connection \in ConnectionItems(d)
  /\ \/ e = ResetOf(d, e.connection) /\ e.kind = "reset"
     \/ e = SnapshotEventOf(d, e.connection) /\ e.kind = "snapshot" /\ row = BridgeOf(d, e.connection)
     \/ e = MessageEventOf(row) /\ e.kind = row.record.kind /\ e.kind \in {"depth", "trade"}

LEMMA ResetParts ==
  ASSUME NEW d, NEW c
  PROVE  /\ ResetOf(d, c).connection = c /\ ResetOf(d, c).kind = "reset"
         /\ ResetOf(d, c).event = d.starts[c].started
         /\ ResetOf(d, c).receive = d.starts[c].started
         /\ ResetOf(d, c).available = d.starts[c].started
         /\ ResetOf(d, c).sequence = FirstOf(MessagesOf(d, c)).sequence
BY DEF ResetOf, Staged

LEMMA SnapshotParts ==
  ASSUME NEW d, NEW c
  PROVE  /\ SnapshotEventOf(d, c).connection = c /\ SnapshotEventOf(d, c).kind = "snapshot"
         /\ SnapshotEventOf(d, c).event = d.starts[c].started
         /\ SnapshotEventOf(d, c).receive = BridgeOf(d, c).record.received
         /\ SnapshotEventOf(d, c).available = BridgeOf(d, c).record.received + Delay
         /\ SnapshotEventOf(d, c).sequence = BridgeOf(d, c).sequence
         /\ SnapshotEventOf(d, c).payload = SnapshotOf(d, c).book
BY DEF SnapshotEventOf, Staged

LEMMA MessageParts ==
  ASSUME NEW row
  PROVE  /\ MessageEventOf(row).connection = row.record.connection
         /\ MessageEventOf(row).kind = row.record.kind
         /\ MessageEventOf(row).event = row.record.event
         /\ MessageEventOf(row).receive = row.record.received
         /\ MessageEventOf(row).available = row.record.received + Delay
         /\ MessageEventOf(row).sequence = row.sequence
         /\ row.record.kind = "depth" => MessageEventOf(row).payload = row.deltas
BY DEF MessageEventOf, Staged

LEMMA StagedForRows ==
  ASSUME NEW d, Fit(d), NEW e \in AllStaged(d)
  PROVE  \E row \in ToSet(d.rows) : StagedFor(d, e, row)
<1>1. PICK c \in ConnectionItems(d) : e \in StagedOf(d, c)
  BY DEF AllStaged
<1>2. CASE e = ResetOf(d, c)
  <2>1. FirstOf(MessagesOf(d, c)) \in ToSet(d.rows)
        /\ FirstOf(MessagesOf(d, c)).record.connection = c
    BY <1>1, ConnectionFacts
  <2>2. e.connection = c /\ e.kind = "reset" /\ e.sequence = FirstOf(MessagesOf(d, c)).sequence
    BY <1>2, ResetParts
  <2> QED BY <1>1, <1>2, <2>1, <2>2 DEF StagedFor
<1>3. CASE e = SnapshotEventOf(d, c)
  <2>1. BridgeOf(d, c) \in ToSet(d.rows) /\ BridgeOf(d, c).record.connection = c
    BY <1>1, ConnectionFacts
  <2>2. e.connection = c /\ e.kind = "snapshot" /\ e.sequence = BridgeOf(d, c).sequence
    BY <1>3, SnapshotParts
  <2> QED BY <1>1, <1>3, <2>1, <2>2 DEF StagedFor
<1>4. ASSUME NEW row \in MessagesOf(d, c), e = MessageEventOf(row)
      PROVE  \E r \in ToSet(d.rows) : StagedFor(d, e, r)
  <2>1. row \in ToSet(d.rows) /\ row.record.connection = c
    BY <1>1, <1>4, ConnectionFacts
  <2>2. e.connection = c /\ e.kind = row.record.kind /\ e.sequence = row.sequence
    BY <1>4, <2>1, MessageParts
  <2>3. row.record.kind \in {"depth", "trade"}
    BY <2>1 DEF Fit, RowsSound
  <2> QED BY <1>1, <1>4, <2>1, <2>2, <2>3 DEF StagedFor
<1> QED BY <1>1, <1>2, <1>3, <1>4, StagedOfIs

LEMMA StagedFinite ==
  ASSUME NEW d, Fit(d)
  PROVE  IsFiniteSet(AllStaged(d))
<1>1. IsFiniteSet(ToSet(d.rows))
  BY DEF Fit, RowsSound
<1>2. IsFiniteSet(ConnectionItems(d))
  <2>1. [row \in ToSet(d.rows) |-> row.record.connection]
          \in Surjection(ToSet(d.rows), ConnectionItems(d))
    BY DEF Surjection, ConnectionItems
  <2> QED BY <1>1, <2>1, FS_Surjection
<1>3. ASSUME NEW c \in ConnectionItems(d) PROVE IsFiniteSet(StagedOf(d, c))
  <2> DEFINE messages == MessagesOf(d, c)
             events == {MessageEventOf(row) : row \in messages}
  <2>1. IsFiniteSet(messages)
    <3>1. messages \in SUBSET ToSet(d.rows)
      BY DEF MessagesOf
    <3> QED BY <1>1, <3>1, FS_Subset
  <2> HIDE DEF messages
  <2>2. [row \in messages |-> MessageEventOf(row)] \in Surjection(messages, events)
    BY DEF Surjection
  <2>3. IsFiniteSet(events)
    BY <2>1, <2>2, FS_Surjection
  <2> HIDE DEF events
  <2>4. IsFiniteSet({ResetOf(d, c), SnapshotEventOf(d, c)})
    <3>1. IsFiniteSet({}) /\ IsFiniteSet({} \cup {ResetOf(d, c)})
          /\ IsFiniteSet(({} \cup {ResetOf(d, c)}) \cup {SnapshotEventOf(d, c)})
      BY FS_EmptySet, FS_AddElement
    <3>2. ({} \cup {ResetOf(d, c)}) \cup {SnapshotEventOf(d, c)}
            = {ResetOf(d, c), SnapshotEventOf(d, c)}
      OBVIOUS
    <3> QED BY <3>1, <3>2
  <2>5. StagedOf(d, c) = {ResetOf(d, c), SnapshotEventOf(d, c)} \cup events
    BY StagedOfIs DEF events, messages
  <2> QED BY <2>3, <2>4, <2>5, FS_Union
<1> DEFINE families == {StagedOf(d, c) : c \in ConnectionItems(d)}
<1>4. IsFiniteSet(families)
  <2>1. [c \in ConnectionItems(d) |-> StagedOf(d, c)]
          \in Surjection(ConnectionItems(d), families)
    BY DEF Surjection
  <2> HIDE DEF families
  <2> QED BY <1>2, <2>1, FS_Surjection
<1>5. \A T \in families : IsFiniteSet(T)
  BY <1>3
<1>6. AllStaged(d) = UNION families
  BY DEF AllStaged
<1> HIDE DEF families
<1> QED BY <1>4, <1>5, <1>6, FS_UNION

LEMMA StagedTypes ==
  ASSUME NEW d, Fit(d)
  PROVE  /\ StagedSound(AllStaged(d))
         /\ \A e \in AllStaged(d) : e.event \in Nat /\ e.receive \in Nat
<1>1. Delay \in Nat
  BY ReplayAssumption DEF load_historical_replay_config
<1>2. \A row \in ToSet(d.rows) :
        row.sequence \in Nat /\ row.record.event \in Nat /\ row.record.received \in Nat
  BY DEF Fit, RowsSound, Records
<1>3. ASSUME NEW e \in AllStaged(d)
      PROVE  /\ e.available \in Nat /\ e.sequence \in Nat /\ e.kind \in EventKinds
             /\ e.event \in Nat /\ e.receive \in Nat
  <2>1. PICK row \in ToSet(d.rows) : StagedFor(d, e, row)
    BY <1>3, StagedForRows
  <2>2. e.sequence \in Nat /\ e.kind \in EventKinds
    BY <1>2, <2>1 DEF StagedFor, EventKinds
  <2>3. PICK c \in ConnectionItems(d) : c = e.connection
    BY <2>1 DEF StagedFor
  <2>4. d.starts[c].started \in Nat /\ BridgeOf(d, c) \in ToSet(d.rows)
    BY <2>3, ConnectionFacts
  <2>5. CASE e = ResetOf(d, c)
    BY <2>2, <2>4, <2>5, ResetParts
  <2>6. CASE e = SnapshotEventOf(d, c)
    BY <1>1, <1>2, <2>2, <2>4, <2>6, SnapshotParts
  <2>7. CASE e = MessageEventOf(row)
    BY <1>1, <1>2, <2>1, <2>2, <2>7, MessageParts
  <2> QED BY <2>1, <2>3, <2>5, <2>6, <2>7 DEF StagedFor
<1>4. ASSUME NEW a \in AllStaged(d), NEW b \in AllStaged(d),
             a.kind = b.kind, a.sequence = b.sequence
      PROVE  a = b
  <2>1. PICK row \in ToSet(d.rows) : StagedFor(d, a, row)
    BY <1>4, StagedForRows
  <2>2. PICK q \in ToSet(d.rows) : StagedFor(d, b, q)
    BY <1>4, StagedForRows
  <2>3. row = q
    BY <1>4, <2>1, <2>2 DEF StagedFor, Fit, RowsSound
  <2>4. a.connection = b.connection
    BY <2>1, <2>2, <2>3 DEF StagedFor
  <2>5. a.kind \in {"depth", "trade"} => a = MessageEventOf(row) /\ b = MessageEventOf(q)
    BY <1>4, <2>1, <2>2 DEF StagedFor
  <2>6. a.kind = "reset" => a = ResetOf(d, a.connection) /\ b = ResetOf(d, b.connection)
    BY <1>4, <2>1, <2>2 DEF StagedFor
  <2>7. a.kind = "snapshot" =>
          a = SnapshotEventOf(d, a.connection) /\ b = SnapshotEventOf(d, b.connection)
    BY <1>4, <2>1, <2>2 DEF StagedFor
  <2>8. a.kind \in EventKinds
    BY <1>3
  <2> QED BY <2>3, <2>4, <2>5, <2>6, <2>7, <2>8 DEF EventKinds
<1> QED BY <1>3, <1>4 DEF StagedSound

-----------------------------------------------------------------------------
(***************************************************************************)
(* Playing the events.                                                     *)
(***************************************************************************)

\* f gives the replay after each of the events.
Plays(f, order, n) ==
  f = [k \in 0 .. n |-> IF k = 0 THEN EmptyReplay ELSE PlayEvent(f[k - 1], order[k])]

LEMMA PlaysExists ==
  ASSUME NEW order, NEW n \in Nat
  PROVE  \E f : Plays(f, order, n)
<1> DEFINE Good == {m \in Nat : \E f : Plays(f, order, m)}
<1>1. 0 \in Good
  <2>1. Plays([k \in 0 .. 0 |-> EmptyReplay], order, 0)
    BY DEF Plays
  <2> QED BY <2>1
<1>2. ASSUME NEW m \in Nat, m \in Good PROVE m + 1 \in Good
  <2>1. PICK f : Plays(f, order, m)
    BY <1>2
  <2> DEFINE g == [k \in 0 .. (m + 1) |-> IF k = 0 THEN EmptyReplay ELSE PlayEvent(f[k - 1], order[k])]
  <2>2. \A k \in 0 .. m : g[k] = f[k]
    BY <2>1 DEF Plays
  <2>3. \A k \in 0 .. (m + 1) : k # 0 => f[k - 1] = g[k - 1]
    <3> HIDE DEF g
    <3> QED BY <2>2
  <2>4. g = [k \in 0 .. (m + 1) |-> IF k = 0 THEN EmptyReplay ELSE PlayEvent(g[k - 1], order[k])]
    <3>1. \A k \in 0 .. (m + 1) :
            (IF k = 0 THEN EmptyReplay ELSE PlayEvent(f[k - 1], order[k]))
            = (IF k = 0 THEN EmptyReplay ELSE PlayEvent(g[k - 1], order[k]))
      <4> HIDE DEF g
      <4> QED BY <2>3
    <3> QED BY <3>1
  <2>5. Plays(g, order, m + 1)
    <3> HIDE DEF g
    <3> QED BY <2>4 DEF Plays
  <2> QED BY <2>5
<1>3. Nat \subseteq Good
  <2> HIDE DEF Good
  <2> QED BY <1>1, <1>2, NaturalInduction
<1> QED BY <1>3

\* What is built, if the dataset is not refused.
LEMMA ReplayOutcome ==
  ASSUME NEW d, RowsSound(d), NEW requireResearch, NEW r,
         r = build_historical_replay(d, requireResearch), r.ok,
         NEW order, order = InOrder(AllStaged(d)), Len(order) \in Nat
  PROVE  /\ Fit(d)
         /\ r.classification = d.classification
         /\ r.classification = "sample_only_non_research" => ~r.research
         /\ \E f : /\ Plays(f, order, Len(order)) /\ f[Len(order)].ok
                   /\ r.events = f[Len(order)].events
                   /\ r.observations = f[Len(order)].observations
<1>1. \A why : ~Refused(why).ok
  BY DEF Refused
<1>2. PICK g : Plays(g, order, Len(order))
  BY PlaysExists
<1> DEFINE staged == UNION {StagedOf(d, c) : c \in ConnectionItems(d)}
           sorted == InOrder(staged)
           f == CHOOSE f : f = [k \in 0 .. Len(sorted) |->
                  IF k = 0 THEN EmptyReplay ELSE PlayEvent(f[k - 1], sorted[k])]
           outcome == f[Len(sorted)]
           sample == d.classification = "sample_only_non_research"
<1>0. sorted = order
  BY DEF AllStaged
<1>3. Plays(f, sorted, Len(sorted))
  <2>1. Plays(g, sorted, Len(sorted))
    BY <1>0, <1>2, Zenon
  <2> HIDE DEF sorted
  <2> QED BY <2>1 DEF Plays
<1>4. r = IF requireResearch /\ ~d.research THEN Refused("not_research")
          ELSE IF ~sample /\ RequireExact THEN Refused("inexact_snapshot_time")
          ELSE IF \E c \in ConnectionItems(d) : Unfit(d, c) THEN Refused("unfit")
          ELSE IF ~outcome.ok THEN Refused(outcome.why)
          ELSE [ok |-> TRUE, research |-> d.research /\ ~sample,
                classification |-> d.classification,
                events |-> outcome.events, observations |-> outcome.observations]
  BY Zenon DEF build_historical_replay
<1> HIDE DEF f, sorted
<1>5. /\ ~\E c \in ConnectionItems(d) : Unfit(d, c)
      /\ outcome.ok
      /\ r = [ok |-> TRUE, research |-> d.research /\ ~sample,
              classification |-> d.classification,
              events |-> outcome.events, observations |-> outcome.observations]
  BY <1>1, <1>4, Zenon
<1>6. Fit(d)
  BY <1>5 DEF Fit
<1>7. /\ r.classification = d.classification
      /\ r.events = outcome.events /\ r.observations = outcome.observations
      /\ r.research = (d.research /\ ~sample)
  BY <1>5
<1> HIDE DEF outcome
<1>8. r.classification = "sample_only_non_research" => ~r.research
  BY <1>7
<1> QED BY <1>0, <1>3, <1>5, <1>6, <1>7, <1>8 DEF outcome

\* One more element of any sequence.
LEMMA OneMoreElement ==
  ASSUME NEW s, s \in Seq(ToSet(s)), NEW e
  PROVE  /\ Append(s, e) \in Seq(ToSet(Append(s, e)))
         /\ ToSet(Append(s, e)) = ToSet(s) \cup {e}
         /\ Len(Append(s, e)) = Len(s) + 1 /\ Len(s) \in Nat
         /\ \A k \in 1 .. Len(s) : Append(s, e)[k] = s[k]
         /\ Append(s, e)[Len(s) + 1] = e
<1>1. PICK S : S = ToSet(s) \cup {e}
  OBVIOUS
<1>2. s \in Seq(S) /\ e \in S
  <2>1. Len(s) \in Nat /\ s = [k \in 1 .. Len(s) |-> s[k]] /\ \A k \in 1 .. Len(s) : s[k] \in ToSet(s)
    OBVIOUS
  <2>2. \A k \in 1 .. Len(s) : s[k] \in S
    BY <1>1, <2>1
  <2> QED BY <1>1, <2>1, <2>2
<1>3. Append(s, e) \in Seq(S) /\ ToSet(Append(s, e)) = S
  BY <1>1, <1>2, AppendFacts
<1>4. /\ Len(Append(s, e)) = Len(s) + 1 /\ Len(s) \in Nat
      /\ \A k \in 1 .. Len(s) : Append(s, e)[k] = s[k]
      /\ Append(s, e)[Len(s) + 1] = e
  BY <1>2
<1> QED BY <1>1, <1>3, <1>4

LEMMA LargerFacts ==
  ASSUME NEW a \in Nat, NEW b \in Nat
  PROVE  /\ LargerOf(a, b) \in Nat /\ a <= LargerOf(a, b) /\ b <= LargerOf(a, b)
         /\ \A c \in Nat : LargerOf(a, b) <= c <=> a <= c /\ b <= c
BY DEF LargerOf

\* What has been delivered after the first k events of an order: a part of
\* them, in their order and causal, ...
EventsSound(r, order, k) ==
  /\ r.events \in Seq(ToSet(r.events))
  /\ \A e \in ToSet(r.events) :
       /\ e.event <= e.receive /\ e.receive <= e.available
       /\ \E j \in 1 .. k : e = order[j]
  /\ \A i, j \in 1 .. Len(r.events) : i < j => KeyBefore(r.events[i], r.events[j])

\* ... and nothing that is observed was available later, or could not be quoted.
ObservedSound(r, order, k) ==
  /\ r.maximumEvent \in Nat /\ r.maximumAvailable \in Nat
  /\ r.maximumEvent <= r.maximumAvailable
  /\ \A j \in (k + 1) .. Len(order) : r.maximumAvailable <= order[j].available
  /\ r.observations \in Seq(ToSet(r.observations))
  /\ \A o \in ToSet(r.observations) :
       o.maximumEvent <= o.maximumAvailable /\ o.maximumAvailable <= o.decision /\ ~Unquotable(o.book)

PlayedSound(r, order, k) ==
  /\ ReplayShape(r) /\ r.ok \in BOOLEAN
  /\ r.ok => EventsSound(r, order, k) /\ ObservedSound(r, order, k)

\* The events of an order.
Ordered(order, staged) ==
  /\ StagedSound(staged) /\ \A e \in staged : e.event \in Nat /\ e.receive \in Nat
  /\ order \in Seq(staged)
  /\ \A j, k \in 1 .. Len(order) : j < k => KeyBefore(order[j], order[k])

LEMMA OrderedFacts ==
  ASSUME NEW staged, NEW order, Ordered(order, staged)
  PROVE  /\ Len(order) \in Nat
         /\ \A j \in 1 .. Len(order) :
              /\ order[j] \in staged /\ order[j].kind \in EventKinds
              /\ order[j].available \in Nat /\ order[j].event \in Nat /\ order[j].receive \in Nat
         /\ \A j, k \in 1 .. Len(order) : j < k => order[j].available <= order[k].available
<1>1. /\ Len(order) \in Nat
      /\ \A j \in 1 .. Len(order) : order[j] \in staged
  BY DEF Ordered
<1>2. \A j \in 1 .. Len(order) :
        /\ order[j].kind \in EventKinds
        /\ order[j].available \in Nat /\ order[j].event \in Nat /\ order[j].receive \in Nat
  BY <1>1 DEF Ordered, StagedSound
<1>3. \A j, k \in 1 .. Len(order) : j < k => order[j].available <= order[k].available
  <2> SUFFICES ASSUME NEW j \in 1 .. Len(order), NEW k \in 1 .. Len(order), j < k
               PROVE  order[j].available <= order[k].available
    OBVIOUS
  <2>1. KeyBefore(order[j], order[k])
    BY DEF Ordered
  <2>2. order[j].available \in Nat /\ order[k].available \in Nat
    BY <1>2
  <2> QED BY <2>1, <2>2 DEF KeyBefore
<1> QED BY <1>1, <1>2, <1>3

LEMMA EmptySound ==
  ASSUME NEW staged, NEW order, Ordered(order, staged)
  PROVE  PlayedSound(EmptyReplay, order, 0)
<1>1. /\ EmptyReplay.ok /\ EmptyReplay.events = << >> /\ EmptyReplay.observations = << >>
      /\ EmptyReplay.maximumEvent = 0 /\ EmptyReplay.maximumAvailable = 0
      /\ ReplayShape(EmptyReplay)
  BY DEF EmptyReplay, ReplayShape
<1>2. ToSet(<< >>) = {} /\ << >> \in Seq({}) /\ Len(<< >>) = 0
  BY DEF ToSet
<1>3. EventsSound(EmptyReplay, order, 0)
  BY <1>1, <1>2 DEF EventsSound
<1>4. \A j \in (0 + 1) .. Len(order) : 0 <= order[j].available
  BY OrderedFacts
<1>5. ObservedSound(EmptyReplay, order, 0)
  BY <1>1, <1>2, <1>4 DEF ObservedSound
<1>6. EmptyReplay.ok \in BOOLEAN
  BY DEF EmptyReplay
<1> QED BY <1>1, <1>3, <1>5, <1>6 DEF PlayedSound

LEMMA PlayKeeps ==
  ASSUME NEW staged, NEW order, Ordered(order, staged),
         NEW k \in Nat, k + 1 <= Len(order), NEW r, PlayedSound(r, order, k)
  PROVE  PlayedSound(PlayEvent(r, order[k + 1]), order, k + 1)
<1>1. PICK e : e = order[k + 1]
  OBVIOUS
<1>2. PICK n : n = PlayEvent(r, e)
  OBVIOUS
<1>3. k + 1 \in 1 .. Len(order) /\ Len(order) \in Nat
  BY OrderedFacts
<1>4. /\ e.kind \in EventKinds
      /\ e.available \in Nat /\ e.event \in Nat /\ e.receive \in Nat
  BY <1>1, <1>3, OrderedFacts
<1>5. ReplayShape(r) /\ r.ok \in BOOLEAN
  BY DEF PlayedSound
<1>6. /\ ReplayShape(n) /\ n.ok \in BOOLEAN
      /\ n.ok => /\ r.ok
                 /\ e.kind = "reset" => ResetBy(r, n)
                 /\ e.kind # "reset" => DeliveredBy(r, e, n)
  BY <1>2, <1>4, <1>5, PlayCases
<1> SUFFICES ASSUME n.ok PROVE EventsSound(n, order, k + 1) /\ ObservedSound(n, order, k + 1)
  BY <1>1, <1>2, <1>6 DEF PlayedSound
<1>7. EventsSound(r, order, k) /\ ObservedSound(r, order, k)
  BY <1>6 DEF PlayedSound
<1>8. \A j \in 1 .. k : j \in 1 .. (k + 1)
  OBVIOUS
<1>9. \A j \in (k + 2) .. Len(order) :
        j \in (k + 1) .. Len(order) /\ e.available <= order[j].available /\ order[j].available \in Nat
  <2> SUFFICES ASSUME NEW j \in (k + 2) .. Len(order)
               PROVE  /\ j \in (k + 1) .. Len(order)
                      /\ e.available <= order[j].available /\ order[j].available \in Nat
    OBVIOUS
  <2>1. j \in 1 .. Len(order) /\ k + 1 < j /\ j \in (k + 1) .. Len(order)
    OBVIOUS
  <2> QED BY <1>1, <1>3, <2>1, OrderedFacts
<1>10. \A j \in ((k + 1) + 1) .. Len(order) : j \in (k + 2) .. Len(order)
  OBVIOUS
<1>11. CASE e.kind = "reset"
  <2>1. /\ n.maximumEvent = r.maximumEvent /\ n.maximumAvailable = r.maximumAvailable
        /\ n.events = r.events /\ n.observations = r.observations
    BY <1>6, <1>11 DEF ResetBy
  <2>2. EventsSound(n, order, k + 1)
    BY <1>7, <1>8, <2>1 DEF EventsSound
  <2>3. ObservedSound(n, order, k + 1)
    BY <1>7, <1>9, <1>10, <2>1 DEF ObservedSound
  <2> QED BY <2>2, <2>3
<1>12. CASE e.kind # "reset"
  <2>1. DeliveredBy(r, e, n)
    BY <1>6, <1>12
  <2>2. n.events = Append(r.events, e) /\ r.events \in Seq(ToSet(r.events))
    BY <1>7, <2>1 DEF DeliveredBy, EventsSound
  <2>3. PICK m \in Nat : m = Len(r.events)
    BY <2>2, OneMoreElement
  <2>4. /\ n.events \in Seq(ToSet(n.events)) /\ ToSet(n.events) = ToSet(r.events) \cup {e}
        /\ Len(n.events) = m + 1
        /\ \A i \in 1 .. m : n.events[i] = r.events[i] /\ r.events[i] \in ToSet(r.events)
        /\ n.events[m + 1] = e
    <3>1. \A i \in 1 .. m : r.events[i] \in ToSet(r.events)
      BY <2>2, <2>3
    <3> QED BY <2>2, <2>3, <3>1, OneMoreElement
  <2>5. \A x \in ToSet(r.events) : KeyBefore(x, e)
    <3> SUFFICES ASSUME NEW x \in ToSet(r.events) PROVE KeyBefore(x, e)
      OBVIOUS
    <3>1. PICK j \in 1 .. k : x = order[j]
      BY <1>7 DEF EventsSound
    <3>2. j \in 1 .. Len(order) /\ j < k + 1
      BY <1>3
    <3> QED BY <1>1, <1>3, <3>1, <3>2 DEF Ordered
  <2>6. EventsSound(n, order, k + 1)
    <3>1. e.event <= e.receive /\ e.receive <= e.available
      BY <2>1 DEF DeliveredBy
    <3>2. \A x \in ToSet(n.events) :
            /\ x.event <= x.receive /\ x.receive <= x.available
            /\ \E j \in 1 .. (k + 1) : x = order[j]
      <4>1. \E j \in 1 .. (k + 1) : e = order[j]
        BY <1>1
      <4>2. \A x \in ToSet(r.events) :
              /\ x.event <= x.receive /\ x.receive <= x.available
              /\ \E j \in 1 .. (k + 1) : x = order[j]
        BY <1>7, <1>8 DEF EventsSound
      <4> QED BY <2>4, <3>1, <4>1, <4>2
    <3>3. ASSUME NEW i \in 1 .. m + 1, NEW j \in 1 .. m + 1, i < j
          PROVE  KeyBefore(n.events[i], n.events[j])
      <4>1. i \in 1 .. m /\ (j \in 1 .. m \/ j = m + 1)
        BY <3>3
      <4>2. CASE j \in 1 .. m
        BY <1>7, <2>3, <2>4, <3>3, <4>1, <4>2 DEF EventsSound
      <4>3. CASE j = m + 1
        BY <2>4, <2>5, <4>1, <4>3
      <4> QED BY <4>1, <4>2, <4>3
    <3> QED BY <2>4, <3>2, <3>3 DEF EventsSound
  <2>7. /\ n.maximumEvent = LargerOf(r.maximumEvent, e.event)
        /\ n.maximumAvailable = LargerOf(r.maximumAvailable, e.available)
        /\ e.event <= e.available
    <3>1. e.event <= e.receive /\ e.receive <= e.available
      BY <2>1 DEF DeliveredBy
    <3>2. e.event <= e.available
      BY <1>4, <3>1
    <3>3. /\ n.maximumEvent = LargerOf(r.maximumEvent, e.event)
          /\ n.maximumAvailable = LargerOf(r.maximumAvailable, e.available)
      BY <2>1 DEF DeliveredBy
    <3> QED BY <3>2, <3>3
  <2>8. /\ r.maximumEvent \in Nat /\ r.maximumAvailable \in Nat
        /\ r.maximumEvent <= r.maximumAvailable
        /\ \A j \in (k + 1) .. Len(order) : r.maximumAvailable <= order[j].available
    BY <1>7 DEF ObservedSound
  <2>9. r.maximumAvailable <= e.available
    BY <1>1, <1>3, <2>8
  <2>10. /\ n.maximumEvent \in Nat /\ n.maximumAvailable \in Nat
         /\ n.maximumEvent <= n.maximumAvailable
         /\ n.maximumAvailable <= e.available
    BY <1>4, <2>7, <2>8, <2>9 DEF LargerOf
  <2>11. \A j \in (k + 2) .. Len(order) : n.maximumAvailable <= order[j].available
    <3>1. \A a \in Nat : e.available <= a => n.maximumAvailable <= a
      BY <1>4, <2>10
    <3> QED BY <1>9, <3>1
  <2>12. /\ n.observations \in Seq(ToSet(n.observations))
         /\ \A o \in ToSet(n.observations) :
              /\ o.maximumEvent <= o.maximumAvailable /\ o.maximumAvailable <= o.decision
              /\ ~Unquotable(o.book)
    <3>1. /\ r.observations \in Seq(ToSet(r.observations))
          /\ \A o \in ToSet(r.observations) :
               /\ o.maximumEvent <= o.maximumAvailable /\ o.maximumAvailable <= o.decision
               /\ ~Unquotable(o.book)
      BY <1>7 DEF ObservedSound
    <3>2. CASE ~n.synchronized
      <4>1. n.observations = r.observations
        BY <2>1, <3>2 DEF DeliveredBy
      <4> QED BY <3>1, <4>1
    <3>3. CASE n.synchronized
      <4>1. ~Unquotable(n.book) /\ n.observations = Append(r.observations, Observation(n, e))
        BY <2>1, <3>3 DEF DeliveredBy
      <4>2. PICK o : o = Observation(n, e)
        OBVIOUS
      <4>3. /\ o.maximumEvent = n.maximumEvent /\ o.maximumAvailable = n.maximumAvailable
            /\ o.decision = e.available /\ o.book = n.book
        BY <4>2 DEF Observation
      <4>4. /\ n.observations \in Seq(ToSet(n.observations))
            /\ ToSet(n.observations) = ToSet(r.observations) \cup {o}
        BY <3>1, <4>1, <4>2, OneMoreElement
      <4> QED BY <2>10, <3>1, <4>1, <4>3, <4>4
    <3> QED BY <3>2, <3>3
  <2>13. ObservedSound(n, order, k + 1)
    BY <1>10, <2>10, <2>11, <2>12 DEF ObservedSound
  <2> QED BY <2>6, <2>13
<1> QED BY <1>4, <1>11, <1>12

-----------------------------------------------------------------------------
(***************************************************************************)
(* What the builders write, the verifiers accept.                          *)
(***************************************************************************)

\* What was played after each event is sound.
LEMMA PlayedAlwaysSound ==
  ASSUME NEW staged, NEW order, Ordered(order, staged),
         NEW f, Plays(f, order, Len(order))
  PROVE  PlayedSound(f[Len(order)], order, Len(order))
<1>1. PICK n \in Nat : n = Len(order)
  BY OrderedFacts
<1>2. /\ f[0] = EmptyReplay
      /\ \A k \in 0 .. n : k # 0 => f[k] = PlayEvent(f[k - 1], order[k])
  <2>1. f = [k \in 0 .. n |-> IF k = 0 THEN EmptyReplay ELSE PlayEvent(f[k - 1], order[k])]
    BY <1>1 DEF Plays
  <2>2. \A k \in 0 .. n : f[k] = IF k = 0 THEN EmptyReplay ELSE PlayEvent(f[k - 1], order[k])
    BY <2>1
  <2>3. 0 \in 0 .. n
    BY <1>1
  <2> QED BY <2>2, <2>3
<1> DEFINE Good == {k \in Nat : k <= n => PlayedSound(f[k], order, k)}
<1>3. 0 \in Good
  <2>1. PlayedSound(f[0], order, 0)
    BY <1>2, EmptySound
  <2> QED BY <2>1
<1>4. ASSUME NEW k \in Nat, k \in Good PROVE k + 1 \in Good
  <2> SUFFICES ASSUME k + 1 <= n PROVE PlayedSound(f[k + 1], order, k + 1)
    OBVIOUS
  <2>1. PlayedSound(f[k], order, k)
    BY <1>1, <1>4
  <2>2. f[k + 1] = PlayEvent(f[k], order[k + 1])
    <3>1. k + 1 \in 0 .. n /\ k + 1 # 0 /\ (k + 1) - 1 = k
      BY <1>1
    <3> QED BY <1>2, <3>1
  <2>3. PICK r : r = f[k]
    OBVIOUS
  <2>4. PlayedSound(PlayEvent(r, order[k + 1]), order, k + 1)
    BY <1>1, <2>1, <2>3, PlayKeeps
  <2> QED BY <2>2, <2>3, <2>4
<1>5. n \in Good
  <2> HIDE DEF Good
  <2> QED BY <1>1, <1>3, <1>4, NaturalInduction
<1> QED BY <1>1, <1>5

\* The order in which the events of a fit dataset are played.
LEMMA OrderOfFit ==
  ASSUME NEW d, Fit(d)
  PROVE  Ordered(InOrder(AllStaged(d)), AllStaged(d))
<1>1. PICK staged : staged = AllStaged(d)
  OBVIOUS
<1>2. /\ IsFiniteSet(staged) /\ StagedSound(staged)
      /\ \A e \in staged : e.event \in Nat /\ e.receive \in Nat
  BY <1>1, StagedFinite, StagedTypes
<1>3. /\ InOrder(staged) \in Seq(staged)
      /\ \A j, k \in 1 .. Len(InOrder(staged)) :
           j < k => KeyBefore(InOrder(staged)[j], InOrder(staged)[k])
  BY <1>2, InOrderFacts
<1> QED BY <1>1, <1>2, <1>3 DEF Ordered

\* How the replay that was built came about.
LEMMA ReplayedPlays ==
  ASSUME TInv, Replayed
  PROVE  /\ Fit(dataset)
         /\ Ordered(InOrder(AllStaged(dataset)), AllStaged(dataset))
         /\ replay.classification = "sample_only_non_research" => ~replay.research
         /\ \E f : LET order == InOrder(AllStaged(dataset)) IN
              /\ Plays(f, order, Len(order)) /\ f[Len(order)].ok
              /\ replay.events = f[Len(order)].events
              /\ replay.observations = f[Len(order)].observations
<1>1. replay # NoResult /\ replay.ok
  BY DEF Replayed
<1>2. Built
  BY <1>1 DEF TInv, ReplayedIsBuilt
<1>3. PICK requireResearch \in {RequireExact, FALSE} :
        replay = build_historical_replay(dataset, requireResearch)
  BY <1>1 DEF TInv, IInv, StagesSound, ReplayedFrom
<1>4. RowsSound(dataset)
  BY <1>2, DatasetSound
<1>5. PICK order : order = InOrder(AllStaged(dataset))
  OBVIOUS
<1>6. ~\E c \in ConnectionItems(dataset) : Unfit(dataset, c)
  <2>1. \A why : ~Refused(why).ok
    BY DEF Refused
  <2> QED BY <1>1, <1>3, <2>1, Zenon DEF build_historical_replay
<1>7. Fit(dataset)
  BY <1>4, <1>6 DEF Fit
<1>8. Ordered(order, AllStaged(dataset)) /\ Len(order) \in Nat
  BY <1>5, <1>7, OrderOfFit, OrderedFacts
<1>9. /\ replay.classification = "sample_only_non_research" => ~replay.research
      /\ \E f : /\ Plays(f, order, Len(order)) /\ f[Len(order)].ok
                /\ replay.events = f[Len(order)].events
                /\ replay.observations = f[Len(order)].observations
  <2>1. PICK d, q : d = dataset /\ q = replay
    OBVIOUS
  <2>2. /\ RowsSound(d) /\ q = build_historical_replay(d, requireResearch) /\ q.ok
        /\ order = InOrder(AllStaged(d))
    BY <1>1, <1>3, <1>4, <1>5, <2>1
  <2>3. /\ q.classification = d.classification
        /\ q.classification = "sample_only_non_research" => ~q.research
        /\ \E f : /\ Plays(f, order, Len(order)) /\ f[Len(order)].ok
                  /\ q.events = f[Len(order)].events
                  /\ q.observations = f[Len(order)].observations
    BY <1>8, <2>2, ReplayOutcome
  <2> QED BY <2>1, <2>3
<1> QED BY <1>5, <1>7, <1>8, <1>9

LEMMA ReplayVerified ==
  ASSUME TInv, Replayed
  PROVE  verify_historical_replay(replay)
<1>1. PICK order : order = InOrder(AllStaged(dataset))
  OBVIOUS
<1>2. PICK staged : staged = AllStaged(dataset)
  OBVIOUS
<1>3. Ordered(order, staged) /\ Len(order) \in Nat
  BY <1>1, <1>2, ReplayedPlays, OrderedFacts
<1>4. PICK f : /\ Plays(f, order, Len(order)) /\ f[Len(order)].ok
               /\ replay.events = f[Len(order)].events
               /\ replay.observations = f[Len(order)].observations
  BY <1>1, ReplayedPlays
<1>5. PICK r : r = f[Len(order)]
  OBVIOUS
<1>6. EventsSound(r, order, Len(order)) /\ ObservedSound(r, order, Len(order))
  <2>1. PlayedSound(r, order, Len(order))
    BY <1>3, <1>4, <1>5, PlayedAlwaysSound
  <2> QED BY <1>4, <1>5, <2>1 DEF PlayedSound
<1>7. replay.events = r.events /\ replay.observations = r.observations
  BY <1>4, <1>5
<1>8. \A e \in ToSet(replay.events) : e.event <= e.receive /\ e.receive <= e.available
  BY <1>6, <1>7 DEF EventsSound
<1>9. ASSUME NEW k \in 1 .. (Len(replay.events) - 1)
      PROVE  ~KeyBefore(replay.events[k + 1], replay.events[k])
  <2>1. r.events \in Seq(ToSet(r.events))
    BY <1>6 DEF EventsSound
  <2>2. Len(r.events) \in Nat
    BY <2>1
  <2>3. k \in 1 .. Len(r.events) /\ k + 1 \in 1 .. Len(r.events) /\ k < k + 1
    BY <1>7, <1>9, <2>2
  <2>4. PICK a, b : a = r.events[k] /\ b = r.events[k + 1]
    OBVIOUS
  <2>5. KeyBefore(a, b)
    BY <1>6, <2>3, <2>4 DEF EventsSound
  <2>6. a \in staged /\ b \in staged
    <3>1. a \in ToSet(r.events) /\ b \in ToSet(r.events)
      BY <2>1, <2>3, <2>4
    <3>2. \A e \in ToSet(r.events) : \E j \in 1 .. Len(order) : e = order[j]
      BY <1>6 DEF EventsSound
    <3>3. \A j \in 1 .. Len(order) : order[j] \in staged
      BY <1>3, OrderedFacts
    <3> QED BY <3>1, <3>2, <3>3
  <2>7. StagedSound(staged)
    BY <1>3 DEF Ordered
  <2>8. /\ \A x \in staged : ~KeyBefore(x, x)
        /\ \A x, y, z \in staged : KeyBefore(x, y) /\ KeyBefore(y, z) => KeyBefore(x, z)
    BY <2>7, KeysOrder
  <2>9. ~KeyBefore(b, a)
    BY <2>5, <2>6, <2>8
  <2> QED BY <1>7, <2>4, <2>9
<1>10. \A o \in ToSet(replay.observations) :
         o.maximumEvent <= o.maximumAvailable /\ o.maximumAvailable <= o.decision /\ ~Unquotable(o.book)
  BY <1>6, <1>7 DEF ObservedSound
<1>11. replay.classification = "sample_only_non_research" => ~replay.research
  BY ReplayedPlays
<1> QED BY <1>8, <1>9, <1>10, <1>11 DEF verify_historical_replay

LEMMA CanonicalVerified ==
  ASSUME TInv, Built
  PROVE  verify_canonical_dataset(dataset)
<1>1. IInv /\ CaptureSound(capture)
  BY DEF TInv, IInv
<1>2. PICK days, kept :
        /\ kept = deduplicate(raw_records(capture, days)) /\ kept.ok
        /\ dataset.unique = Len(kept.unique) /\ dataset.dropped = Len(kept.duplicates)
        /\ dataset.rows = build_rows(kept.unique)
        /\ dataset.duplicates = kept.duplicates
        /\ dataset.research = (dataset.classification = "research_processed")
        /\ dataset.research => dataset.parquet
        /\ dataset.classification \in {"research_processed", "sample_only_non_research"}
  BY <1>1, BuiltFacts
<1>3. Deduplicated(kept, Records, ToSet(raw_records(capture, days)),
                   Len(raw_records(capture, days)))
  BY <1>1, <1>2, UniqueFacts
<1>4. kept.unique \in Seq(Records)
  BY <1>2, <1>3 DEF Deduplicated
<1>5. Len(dataset.rows) = Len(kept.unique)
  <2>1. PICK unique : unique = kept.unique
    OBVIOUS
  <2>2. unique \in Seq(Records) /\ dataset.rows = build_rows(unique)
    BY <1>2, <1>4, <2>1
  <2> QED BY <2>1, <2>2, RowsOf
<1> QED BY <1>2, <1>4, <1>5 DEF verify_canonical_dataset

\* Whatever was captured, the canonical dataset that is built agrees with its
\* counts and its classification; the replay that is built from it delivers
\* causal events in the order of their keys, and no observation of it knows an
\* event that was available only later or shows a book that cannot be quoted.
THEOREM ReplayAlwaysVerifies == Spec => []BuiltVerifies
<1>1. TInv => BuiltVerifies
  BY ReplayVerified, CanonicalVerified DEF BuiltVerifies
<1> QED BY <1>1, TimesInvariance, PTL

-----------------------------------------------------------------------------
(***************************************************************************)
(* What an observation shows, when messages are processed without delay.   *)
(***************************************************************************)

\* The connections of a fit dataset, and what its rows are about.
LEMMA RowTypes ==
  ASSUME NEW d, Fit(d), NEW row \in ToSet(d.rows)
  PROVE  /\ row.sequence \in Nat /\ row.record.received \in Nat
         /\ row.record.connection \in Nat /\ row.record.connection \in ConnectionItems(d)
         /\ row \in MessagesOf(d, row.record.connection)
         /\ row.record.kind \in {"depth", "trade"}
         /\ d.starts[row.record.connection].started \in Nat
         /\ d.starts[row.record.connection].started <= row.record.received
         /\ \A q \in ToSet(d.rows) :
              /\ row.sequence = q.sequence => row = q
              /\ row.sequence < q.sequence => row.record.received <= q.record.received
              /\ row.record.connection < q.record.connection =>
                   row.record.received < d.starts[q.record.connection].started
<1>1. RowsSound(d)
  BY DEF Fit
<1>2. /\ row.sequence \in Nat /\ row.record \in Records
      /\ row.record.kind \in {"depth", "trade"}
      /\ d.starts[row.record.connection].started \in Nat
      /\ d.starts[row.record.connection].started <= row.record.received
  BY <1>1 DEF RowsSound
<1>3. row.record.received \in Nat /\ row.record.connection \in Nat
  BY <1>2 DEF Records
<1>4. row.record.connection \in ConnectionItems(d) /\ row \in MessagesOf(d, row.record.connection)
  BY DEF ConnectionItems, MessagesOf
<1>5. \A q \in ToSet(d.rows) :
        /\ row.sequence = q.sequence => row = q
        /\ row.sequence < q.sequence => row.record.received <= q.record.received
        /\ row.record.connection < q.record.connection =>
             row.record.received < d.starts[q.record.connection].started
  BY <1>1 DEF RowsSound, NotAfter
<1> QED BY <1>2, <1>3, <1>4, <1>5

\* The updates of a depth message and of a snapshot.
LEMMA UpdateTypes ==
  ASSUME NEW d, Fit(d), QuantitiesSound(d)
  PROVE  /\ \A row \in ToSet(d.rows) : row.record.kind = "depth" =>
              /\ row.record.data \in Feed /\ row.record.data.first \in Nat
              /\ row.record.data.final \in Nat /\ row.record.data.final \in 0 .. LastId
              /\ DOMAIN row.deltas = DOMAIN Changes(row.record.data)
         /\ \A c \in ConnectionItems(d) : SnapshotOf(d, c).last \in Nat
<1>1. LastId \in Nat
  BY SynchronizerAssumption
<1>2. ASSUME NEW row \in ToSet(d.rows), row.record.kind = "depth"
      PROVE  /\ row.record.data \in Feed /\ row.record.data.first \in Nat
             /\ row.record.data.final \in Nat /\ row.record.data.final \in 0 .. LastId
             /\ DOMAIN row.deltas = DOMAIN Changes(row.record.data)
  <2>1. row.record.data \in Feed /\ DOMAIN row.deltas = DOMAIN Changes(row.record.data)
    BY <1>2 DEF Fit, RowsSound
  <2>2. row.record.data \in Update /\ row.record.data.final \in 0 .. LastId
    BY <2>1, ChangesFacts
  <2>3. row.record.data.first \in Nat /\ row.record.data.final \in Nat
    BY <1>1, <2>2 DEF Update
  <2> QED BY <2>1, <2>2, <2>3
<1>3. ASSUME NEW c \in ConnectionItems(d) PROVE SnapshotOf(d, c).last \in Nat
  BY <1>1, <1>3, ConnectionFacts DEF QuantitiesSound
<1> QED BY <1>2, <1>3

\* The first depth message of a connection is the bridge of its snapshot.
LEMMA BridgeIsFirst ==
  ASSUME NEW d, Fit(d), QuantitiesSound(d), NEW c \in ConnectionItems(d),
         NEW row \in MessagesOf(d, c), row.record.kind = "depth"
  PROVE  HasLevels(row) /\ BridgeOf(d, c).sequence <= row.sequence
<1> DEFINE messages == MessagesOf(d, c)
           last == SnapshotOf(d, c).last
           depths == {q \in messages : HasLevels(q)}
<1>1. /\ ~\E q \in messages : q.record.kind = "depth" /\ ~HasLevels(q)
      /\ Continuous(messages, last)
  BY DEF Fit, Unfit
<1>2. row \in depths
  BY <1>1
<1>3. \A q \in depths : q.sequence \in Nat /\ q \in ToSet(d.rows)
  <2>1. messages \subseteq ToSet(d.rows)
    BY ConnectionFacts
  <2> QED BY <2>1, RowTypes
<1>4. PICK first : first = FirstOf(depths)
  OBVIOUS
<1>5. first \in depths /\ \A q \in depths : first.sequence <= q.sequence
  <2> HIDE DEF depths
  <2> QED BY <1>2, <1>3, <1>4, FirstOfFacts
<1>6. {q \in messages : HasLevels(q) /\ q.sequence < first.sequence} = {}
  BY <1>3, <1>5
<1>7. first.record.data.final > last /\ first.record.data.first <= last + 1
  <2> HIDE DEF messages, last
  <2>1. first \in messages /\ HasLevels(first)
    BY <1>5
  <2> QED BY <1>1, <1>6, <2>1 DEF Continuous
<1>8. last + 1 <= first.record.data.final
  <2>1. last \in Nat
    BY UpdateTypes
  <2>2. first.record.kind = "depth" /\ first \in ToSet(d.rows)
    BY <1>3, <1>5 DEF HasLevels
  <2>3. first.record.data.final \in Nat
    BY <2>2, UpdateTypes
  <2> HIDE DEF last
  <2> QED BY <1>7, <2>1, <2>3
<1>9. first \in Bridges(messages, last)
  BY <1>5, <1>7, <1>8 DEF Bridges
<1>10. BridgeOf(d, c).sequence <= first.sequence
  BY <1>9, ConnectionFacts
<1>11. BridgeOf(d, c).sequence \in Nat
  <2>1. BridgeOf(d, c) \in ToSet(d.rows)
    BY ConnectionFacts
  <2> QED BY <2>1, RowTypes
<1> QED BY <1>1, <1>2, <1>3, <1>5, <1>10, <1>11

\* Without a delay, every event of a connection is played while the connection
\* is the newest one, ...
LEMMA StagedBetween ==
  ASSUME Delay = 0, NEW d, Fit(d), NEW e \in AllStaged(d)
  PROVE  /\ e.connection \in ConnectionItems(d) /\ e.connection \in Nat
         /\ e.available \in Nat /\ d.starts[e.connection].started \in Nat
         /\ d.starts[e.connection].started <= e.available
         /\ \A q \in ToSet(d.rows) : e.connection < q.record.connection =>
              e.available < d.starts[q.record.connection].started
         /\ e.kind # "reset" => \E x \in ToSet(d.rows) :
              x.record.connection = e.connection /\ e.available = x.record.received
<1>1. PICK row \in ToSet(d.rows) : StagedFor(d, e, row)
  BY StagedForRows
<1>2. PICK c \in ConnectionItems(d) : c = e.connection
  BY <1>1 DEF StagedFor
<1>3. c = row.record.connection /\ c \in Nat
  BY <1>1, <1>2, RowTypes DEF StagedFor
<1>4. e.available \in Nat
  BY StagedTypes DEF StagedSound
<1>5. ASSUME NEW x \in ToSet(d.rows), x.record.connection = c, e.available = x.record.received
      PROVE  /\ d.starts[c].started \in Nat /\ d.starts[c].started <= e.available
             /\ \A q \in ToSet(d.rows) : c < q.record.connection =>
                  e.available < d.starts[q.record.connection].started
  BY <1>5, RowTypes
<1>6. CASE e = ResetOf(d, c) /\ e.kind = "reset"
  <2>1. e.available = d.starts[c].started
    BY <1>6, ResetParts
  <2>2. /\ d.starts[c].started \in Nat /\ d.starts[c].started <= row.record.received
        /\ row.record.received \in Nat
        /\ \A q \in ToSet(d.rows) : c < q.record.connection =>
             row.record.received < d.starts[q.record.connection].started
    BY <1>3, RowTypes
  <2>3. ASSUME NEW q \in ToSet(d.rows), c < q.record.connection
        PROVE  e.available < d.starts[q.record.connection].started
    <3>1. d.starts[q.record.connection].started \in Nat
      BY RowTypes
    <3> QED BY <2>1, <2>2, <2>3, <3>1
  <2> QED BY <1>2, <1>3, <1>4, <1>6, <2>1, <2>2, <2>3
<1>7. CASE e = SnapshotEventOf(d, c)
  <2>1. BridgeOf(d, c) \in ToSet(d.rows) /\ BridgeOf(d, c).record.connection = c
    BY ConnectionFacts
  <2>2. e.available = BridgeOf(d, c).record.received
    <3>1. BridgeOf(d, c).record.received \in Nat
      BY <2>1, RowTypes
    <3> QED BY <1>7, <3>1, SnapshotParts
  <2> QED BY <1>2, <1>3, <1>4, <1>5, <2>1, <2>2
<1>8. CASE e = MessageEventOf(row)
  <2>1. e.available = row.record.received
    <3>1. row.record.received \in Nat
      BY RowTypes
    <3> QED BY <1>8, <3>1, MessageParts
  <2> QED BY <1>2, <1>3, <1>4, <1>5, <2>1
<1> QED BY <1>1, <1>2, <1>6, <1>7, <1>8 DEF StagedFor

LEMMA ConnectionsApart ==
  ASSUME Delay = 0, NEW d, Fit(d), NEW a \in AllStaged(d), NEW b \in AllStaged(d),
         a.connection < b.connection
  PROVE  KeyBefore(a, b)
<1>1. PICK q \in ToSet(d.rows) : q.record.connection = b.connection
  <2>1. b.connection \in ConnectionItems(d)
    BY StagedBetween
  <2> QED BY <2>1 DEF ConnectionItems
<1>2. a.available < d.starts[b.connection].started
  BY <1>1, StagedBetween
<1>3. /\ a.available \in Nat /\ b.available \in Nat /\ d.starts[b.connection].started \in Nat
      /\ d.starts[b.connection].started <= b.available
  BY StagedBetween
<1>4. a.available < b.available
  BY <1>2, <1>3
<1> QED BY <1>4 DEF KeyBefore

\* ... the reset of a connection before the others, ...
LEMMA ResetFirst ==
  ASSUME Delay = 0, NEW d, Fit(d), NEW e \in AllStaged(d), e.kind # "reset"
  PROVE  /\ ResetOf(d, e.connection) \in AllStaged(d)
         /\ KeyBefore(ResetOf(d, e.connection), e)
<1>1. PICK c \in ConnectionItems(d) : c = e.connection
  BY StagedBetween
<1>2. ResetOf(d, c) \in AllStaged(d)
  <2>1. ResetOf(d, c) \in StagedOf(d, c)
    BY StagedOfIs
  <2> QED BY <2>1 DEF AllStaged
<1>3. /\ ResetOf(d, c).available = d.starts[c].started /\ ResetOf(d, c).kind = "reset"
      /\ d.starts[c].started \in Nat /\ e.available \in Nat
      /\ d.starts[c].started <= e.available
  BY <1>1, StagedBetween, ResetParts
<1>4. e.kind \in EventKinds
  BY StagedTypes DEF StagedSound
<1>5. Priority["reset"] < Priority[e.kind]
  BY <1>4, PriorityFacts DEF EventKinds
<1>6. KeyBefore(ResetOf(d, c), e)
  <2>1. PICK x : x = ResetOf(d, c)
    OBVIOUS
  <2> QED BY <1>3, <1>5, <2>1 DEF KeyBefore
<1> QED BY <1>1, <1>2, <1>6

\* ... the snapshot before the depth messages, ...
LEMMA SnapshotBeforeDepth ==
  ASSUME Delay = 0, NEW d, Fit(d), QuantitiesSound(d), NEW e \in AllStaged(d), e.kind = "depth"
  PROVE  /\ SnapshotEventOf(d, e.connection) \in AllStaged(d)
         /\ KeyBefore(SnapshotEventOf(d, e.connection), e)
<1>1. PICK row \in ToSet(d.rows) : StagedFor(d, e, row)
  BY StagedForRows
<1>2. PICK c \in ConnectionItems(d) : c = e.connection
  BY StagedBetween
<1>3. PICK s : s = SnapshotEventOf(d, c)
  OBVIOUS
<1>4. s \in AllStaged(d)
  <2>1. s \in StagedOf(d, c)
    BY <1>3, StagedOfIs
  <2> QED BY <2>1 DEF AllStaged
<1>5. e = MessageEventOf(row) /\ row.record.kind = "depth" /\ row.record.connection = c
  BY <1>1, <1>2 DEF StagedFor
<1>6. PICK bridge : bridge = BridgeOf(d, c)
  OBVIOUS
<1>7. bridge.sequence <= row.sequence /\ bridge \in ToSet(d.rows)
  <2>1. row \in MessagesOf(d, c)
    BY <1>5, RowTypes
  <2> QED BY <1>5, <1>6, <2>1, BridgeIsFirst, ConnectionFacts
<1>8. bridge.record.received <= row.record.received
  <2>1. bridge.sequence \in Nat /\ row.sequence \in Nat /\ row.record.received \in Nat
    BY <1>7, RowTypes
  <2>2. CASE bridge.sequence = row.sequence
    <3>1. bridge = row
      BY <1>7, <2>2, RowTypes
    <3> QED BY <2>1, <3>1
  <2>3. CASE bridge.sequence < row.sequence
    BY <1>7, <2>3, RowTypes
  <2> QED BY <1>7, <2>1, <2>2, <2>3
<1>9. /\ s.available = bridge.record.received /\ e.available = row.record.received
      /\ s.kind = "snapshot" /\ bridge.record.received \in Nat /\ row.record.received \in Nat
  <2>1. bridge.record.received \in Nat /\ row.record.received \in Nat
    BY <1>7, RowTypes
  <2> QED BY <1>3, <1>5, <1>6, <2>1, SnapshotParts, MessageParts
<1>10. KeyBefore(s, e)
  BY <1>8, <1>9, PriorityFacts DEF KeyBefore
<1> QED BY <1>2, <1>3, <1>4, <1>10

\* ... and these as they were received.
LEMMA DepthsAsReceived ==
  ASSUME Delay = 0, NEW d, Fit(d), NEW a \in AllStaged(d), NEW b \in AllStaged(d),
         a.kind = "depth", b.kind = "depth"
  PROVE  KeyBefore(a, b) <=> a.sequence < b.sequence
<1>1. PICK row \in ToSet(d.rows) : StagedFor(d, a, row)
  BY StagedForRows
<1>2. PICK q \in ToSet(d.rows) : StagedFor(d, b, q)
  BY StagedForRows
<1>3. a = MessageEventOf(row) /\ b = MessageEventOf(q)
  BY <1>1, <1>2 DEF StagedFor
<1>4. /\ row.sequence \in Nat /\ q.sequence \in Nat
      /\ row.record.received \in Nat /\ q.record.received \in Nat
      /\ row.sequence = q.sequence => row = q
      /\ row.sequence < q.sequence => row.record.received <= q.record.received
      /\ q.sequence < row.sequence => q.record.received <= row.record.received
  BY RowTypes
<1>5. /\ a.sequence = row.sequence /\ b.sequence = q.sequence
      /\ a.available = row.record.received /\ b.available = q.record.received
  BY <1>3, <1>4, MessageParts
<1> QED BY <1>4, <1>5, PriorityFacts DEF KeyBefore

-----------------------------------------------------------------------------
(* Positions in the order of the replay.                                   *)

Complete(order, staged) == \A e \in staged : \E k \in 1 .. Len(order) : order[k] = e

\* A fit dataset, and its events in the order of the replay.
InReplay(d, order) ==
  /\ Delay = 0 /\ Fit(d) /\ QuantitiesSound(d)
  /\ Ordered(order, AllStaged(d)) /\ Complete(order, AllStaged(d))

LEMMA Positions ==
  ASSUME NEW staged, NEW order, Ordered(order, staged), Complete(order, staged),
         NEW k \in 1 .. Len(order)
  PROVE  /\ \A j \in 1 .. Len(order) : KeyBefore(order[j], order[k]) <=> j < k
         /\ \A e \in staged : KeyBefore(e, order[k]) =>
              \E j \in 1 .. Len(order) : j < k /\ order[j] = e
<1>1. /\ Len(order) \in Nat /\ \A j \in 1 .. Len(order) : order[j] \in staged
      /\ StagedSound(staged)
      /\ \A i, j \in 1 .. Len(order) : i < j => KeyBefore(order[i], order[j])
  BY OrderedFacts DEF Ordered
<1>2. /\ \A a \in staged : ~KeyBefore(a, a)
      /\ \A a, b, c \in staged : KeyBefore(a, b) /\ KeyBefore(b, c) => KeyBefore(a, c)
  BY <1>1, KeysOrder
<1>3. ASSUME NEW j \in 1 .. Len(order), KeyBefore(order[j], order[k]) PROVE j < k
  <2>1. order[j] \in staged /\ order[k] \in staged
    BY <1>1
  <2>2. ~KeyBefore(order[k], order[j]) /\ ~KeyBefore(order[k], order[k])
    BY <1>2, <1>3, <2>1
  <2>3. ~(k < j) /\ k # j
    BY <1>1, <1>3, <2>2
  <2> QED BY <2>3
<1>4. ASSUME NEW e \in staged, KeyBefore(e, order[k])
      PROVE  \E j \in 1 .. Len(order) : j < k /\ order[j] = e
  <2>1. PICK j \in 1 .. Len(order) : order[j] = e
    BY DEF Complete
  <2> QED BY <1>3, <1>4, <2>1
<1> QED BY <1>1, <1>3, <1>4

\* Only a reset begins another connection.
LEMMA SameConnection ==
  ASSUME NEW d, NEW order, InReplay(d, order),
         NEW k \in Nat, k + 1 \in 1 .. Len(order), order[k + 1].kind # "reset"
  PROVE  k \in 1 .. Len(order) /\ order[k].connection = order[k + 1].connection
<1>1. /\ Delay = 0 /\ Fit(d) /\ Ordered(order, AllStaged(d)) /\ Complete(order, AllStaged(d))
      /\ Len(order) \in Nat /\ \A j \in 1 .. Len(order) : order[j] \in AllStaged(d)
  BY OrderedFacts DEF InReplay
<1>2. PICK e \in AllStaged(d) : e = order[k + 1]
  BY <1>1
<1>3. PICK reset : reset = ResetOf(d, e.connection)
  OBVIOUS
<1>4. reset \in AllStaged(d) /\ KeyBefore(reset, e) /\ reset.connection = e.connection
  BY <1>1, <1>2, <1>3, ResetFirst, ResetParts
<1>5. PICK j \in 1 .. Len(order) : j < k + 1 /\ order[j] = reset
  BY <1>1, <1>2, <1>4, Positions
<1>6. k \in 1 .. Len(order) /\ j <= k
  BY <1>1, <1>5
<1>7. PICK x \in AllStaged(d) : x = order[k]
  BY <1>1, <1>6
<1>8. x.connection \in Nat /\ e.connection \in Nat
  BY <1>1, StagedBetween
<1>9. ~(x.connection < e.connection)
  <2> SUFFICES ASSUME x.connection < e.connection PROVE FALSE
    OBVIOUS
  <2>1. KeyBefore(order[k], order[j])
    BY <1>1, <1>4, <1>5, <1>7, ConnectionsApart
  <2>2. k < j
    BY <1>1, <1>6, <2>1, Positions
  <2> QED BY <1>6, <2>2
<1>10. ~(e.connection < x.connection)
  <2> SUFFICES ASSUME e.connection < x.connection PROVE FALSE
    OBVIOUS
  <2>1. KeyBefore(order[k + 1], order[k])
    BY <1>1, <1>2, <1>7, ConnectionsApart
  <2>2. k + 1 < k
    BY <1>1, <1>6, <2>1, Positions
  <2> QED BY <2>2
<1> QED BY <1>2, <1>6, <1>7, <1>8, <1>9, <1>10

-----------------------------------------------------------------------------
(* The book.                                                               *)

\* The book is that of the exchange after an update.
BookAt(book, update) == \A l \in Level : book[l] * Increment = Truth[update][l]

\* A depth message that continues a book brings it to its last update.
LEMMA DepthContinues ==
  ASSUME NEW d, Fit(d), QuantitiesSound(d),
         NEW row \in ToSet(d.rows), row.record.kind = "depth",
         NEW b \in Nat, row.record.data.final > b, row.record.data.first <= b + 1,
         NEW book, BookAt(book, b)
  PROVE  BookAt(Overridden(book, row.deltas), row.record.data.final)
<1>1. PICK u \in Feed : u = row.record.data
  BY UpdateTypes
<1>2. /\ u.first \in Nat /\ u.final \in Nat /\ DOMAIN row.deltas = DOMAIN Changes(u)
  BY <1>1, UpdateTypes
<1>3. b \in (u.first - 1) .. u.final
  BY <1>1, <1>2
<1>4. \A l \in Level : l \notin DOMAIN Changes(u) => Truth[b][l] = Truth[u.final][l]
  BY <1>3 DEF Changes
<1>5. \A l \in DOMAIN row.deltas : row.deltas[l] * Increment = Truth[u.final][l]
  BY <1>1 DEF QuantitiesSound
<1>6. \A l \in Level :
        Overridden(book, row.deltas)[l] = IF l \in DOMAIN row.deltas THEN row.deltas[l] ELSE book[l]
  BY DEF Overridden
<1>7. \A l \in Level : book[l] * Increment = Truth[b][l]
  BY DEF BookAt
<1>8. ASSUME NEW l \in Level
      PROVE  Overridden(book, row.deltas)[l] * Increment = Truth[u.final][l]
  <2>1. CASE l \in DOMAIN row.deltas
    BY <1>5, <1>6, <2>1
  <2>2. CASE l \notin DOMAIN row.deltas
    BY <1>2, <1>4, <1>6, <1>7, <2>2
  <2> QED BY <2>1, <2>2
<1> QED BY <1>1, <1>8 DEF BookAt

\* The newest trades are trades.
LEMMA NewestFacts ==
  ASSUME NEW S, NEW trades \in Seq(S), Len(trades) > 0
  PROVE  Newest(trades) \in Seq(S)
<1>1. RecentTrades \in Nat \ {0}
  BY ReplayAssumption DEF load_historical_replay_config
<1>2. PICK a : a = LargerOf(1, Len(trades) - RecentTrades + 1)
  OBVIOUS
<1>3. a \in 1 .. Len(trades)
  <2>1. Len(trades) - RecentTrades + 1 \in Int /\ Len(trades) - RecentTrades + 1 <= Len(trades)
    BY <1>1
  <2> QED BY <1>2, <2>1 DEF LargerOf
<1>4. SubSeq(trades, a, Len(trades)) \in Seq(S)
  BY <1>3
<1> QED BY <1>2, <1>4 DEF Newest

-----------------------------------------------------------------------------
(* The invariant of the observations.                                      *)

OfConnection(d, c) == {e \in AllStaged(d) : e.connection = c}

\* After the first m events, the newest depth message among them is row.
NewestDelivered(events, m, row) ==
  \E i \in 1 .. m :
    /\ events[i] = MessageEventOf(row)
    /\ \A j \in (i + 1) .. m : events[j].kind = "trade"

\* What is observed of a connection c after the first m events.
Shown(d, events, m, book, c) ==
  \E row \in ToSet(d.rows) :
    /\ row.record.kind = "depth" /\ row.record.connection = c
    /\ NewestDelivered(events, m, row) /\ BookAt(book, row.record.data.final)

ObservedFaithfully(d, events, o) ==
  /\ o.delivered \in Nat /\ o.delivered <= Len(events)
  /\ \E c : /\ Shown(d, events, o.delivered, o.book, c)
            /\ o.trades \in Seq(OfConnection(d, c))

\* Of the connection c that is the newest after k events, no depth message has
\* been played: the book is not ready, and that of the snapshot at most.
Waits(d, order, k, r, c) ==
  /\ r.synchronized = FALSE
  /\ \A j \in 1 .. k : ~(order[j].kind = "depth" /\ order[j].connection = c)
  /\ (\E j \in 1 .. k : order[j].kind = "snapshot" /\ order[j].connection = c) =>
       r.book = SnapshotOf(d, c).book

\* Or one has, and the book is that of the newest.
Follows(d, order, k, r, c) ==
  \E row \in ToSet(d.rows) :
    /\ row.record.kind = "depth" /\ row.record.connection = c
    /\ \E j \in 1 .. k : order[j] = MessageEventOf(row)
    /\ \A j \in 1 .. k : order[j].kind = "depth" /\ order[j].connection = c =>
         order[j].sequence <= row.sequence
    /\ NewestDelivered(r.events, Len(r.events), row)
    /\ BookAt(r.book, row.record.data.final)

FollowsOrWaits(d, order, k, r, c) == Waits(d, order, k, r, c) \/ Follows(d, order, k, r, c)

Faithful(d, order, k, r) ==
  /\ \A o \in ToSet(r.observations) : ObservedFaithfully(d, r.events, o)
  /\ k > 0 => /\ r.recent \in Seq(OfConnection(d, order[k].connection))
              /\ FollowsOrWaits(d, order, k, r, order[k].connection)

\* What was observed stays true when more is delivered.
LEMMA StaysFaithful ==
  ASSUME NEW d, NEW events, events \in Seq(ToSet(events)), NEW e, NEW o, ObservedFaithfully(d, events, o)
  PROVE  ObservedFaithfully(d, Append(events, e), o)
<1>1. PICK next : next = Append(events, e)
  OBVIOUS
<1>2. /\ Len(events) \in Nat /\ Len(next) = Len(events) + 1
      /\ \A j \in 1 .. Len(events) : next[j] = events[j]
  BY <1>1, OneMoreElement
<1>3. PICK m \in Nat : m = o.delivered /\ m <= Len(events)
  BY DEF ObservedFaithfully
<1>4. PICK c : Shown(d, events, m, o.book, c) /\ o.trades \in Seq(OfConnection(d, c))
  BY <1>3 DEF ObservedFaithfully
<1>5. PICK row \in ToSet(d.rows) :
        /\ row.record.kind = "depth" /\ row.record.connection = c
        /\ NewestDelivered(events, m, row) /\ BookAt(o.book, row.record.data.final)
  BY <1>4 DEF Shown
<1>6. NewestDelivered(next, m, row)
  <2>1. PICK i \in 1 .. m : /\ events[i] = MessageEventOf(row)
                            /\ \A j \in (i + 1) .. m : events[j].kind = "trade"
    BY <1>5 DEF NewestDelivered
  <2>2. next[i] = events[i] /\ \A j \in (i + 1) .. m : next[j] = events[j]
    <3>1. PICK n \in Nat : n = Len(events)
      BY <1>2
    <3>2. m <= n
      BY <1>3, <3>1
    <3>3. i \in 1 .. n /\ \A j \in (i + 1) .. m : j \in 1 .. n
      BY <3>2
    <3> QED BY <1>2, <3>1, <3>3
  <2> QED BY <2>1, <2>2 DEF NewestDelivered
<1>7. Shown(d, next, m, o.book, c)
  BY <1>5, <1>6 DEF Shown
<1>8. m <= Len(next)
  BY <1>2, <1>3
<1> QED BY <1>1, <1>3, <1>4, <1>7, <1>8 DEF ObservedFaithfully

\* The observation of a book that follows is faithful.
LEMMA FollowingObserved ==
  ASSUME NEW d, NEW order, NEW k, NEW r, NEW c, NEW e,
         Follows(d, order, k, r, c), r.recent \in Seq(OfConnection(d, c)),
         r.events \in Seq(ToSet(r.events))
  PROVE  ObservedFaithfully(d, r.events, Observation(r, e))
<1>1. PICK o : o = Observation(r, e)
  OBVIOUS
<1>2. o.delivered = Len(r.events) /\ o.book = r.book /\ o.trades = r.recent
  BY <1>1 DEF Observation
<1>3. Len(r.events) \in Nat
  OBVIOUS
<1>4. Shown(d, r.events, Len(r.events), r.book, c)
  BY DEF Follows, Shown
<1> QED BY <1>1, <1>2, <1>3, <1>4 DEF ObservedFaithfully

\* A reset: the new connection waits.
LEMMA ResetFaithful ==
  ASSUME NEW d, NEW order, InReplay(d, order),
         NEW k \in Nat, k + 1 \in 1 .. Len(order), order[k + 1].kind = "reset",
         NEW r, Faithful(d, order, k, r), NEW n, ResetBy(r, n)
  PROVE  Faithful(d, order, k + 1, n)
<1>1. /\ Delay = 0 /\ Fit(d) /\ QuantitiesSound(d)
      /\ Ordered(order, AllStaged(d)) /\ Complete(order, AllStaged(d))
      /\ Len(order) \in Nat /\ \A j \in 1 .. Len(order) : order[j] \in AllStaged(d)
  BY OrderedFacts DEF InReplay
<1>2. PICK e \in AllStaged(d) : e = order[k + 1]
  BY <1>1
<1>3. e = ResetOf(d, e.connection)
  <2>1. PICK row \in ToSet(d.rows) : StagedFor(d, e, row)
    BY <1>1, StagedForRows
  <2> QED BY <1>2, <2>1 DEF StagedFor
<1>4. ASSUME NEW j \in 1 .. k + 1, order[j].connection = e.connection
      PROVE  order[j].kind = "reset"
  <2> SUFFICES ASSUME order[j].kind # "reset" PROVE FALSE
    OBVIOUS
  <2>1. j \in 1 .. Len(order)
    BY <1>1
  <2>2. PICK x \in AllStaged(d) : x = order[j]
    BY <1>1, <2>1
  <2>3. KeyBefore(order[k + 1], order[j])
    BY <1>1, <1>2, <1>3, <1>4, <2>2, ResetFirst
  <2>4. k + 1 < j
    BY <1>1, <2>1, <2>3, Positions
  <2> QED BY <2>4
<1>5. n.synchronized = FALSE /\ n.recent = << >> /\ n.events = r.events
      /\ n.observations = r.observations
  BY DEF ResetBy
<1>6. Waits(d, order, k + 1, n, e.connection)
  BY <1>4, <1>5 DEF Waits
<1>7. n.recent \in Seq(OfConnection(d, e.connection))
  BY <1>5
<1>8. \A o \in ToSet(n.observations) : ObservedFaithfully(d, n.events, o)
  BY <1>5 DEF Faithful
<1> QED BY <1>2, <1>6, <1>7, <1>8 DEF Faithful, FollowsOrWaits

\* What is delivered, as far as it is observed.
Delivering(r, e, n) ==
  /\ n.events = Append(r.events, e)
  /\ IF n.synchronized THEN n.observations = Append(r.observations, Observation(n, e))
                       ELSE n.observations = r.observations

\* A connection whose book waits or follows is observed faithfully.
LEMMA DeliveredFaithful ==
  ASSUME NEW d, NEW order, NEW k \in Nat, NEW r, Faithful(d, order, k, r),
         r.events \in Seq(ToSet(r.events)), r.observations \in Seq(ToSet(r.observations)),
         NEW e, e = order[k + 1], NEW n, Delivering(r, e, n),
         n.recent \in Seq(OfConnection(d, e.connection)),
         FollowsOrWaits(d, order, k + 1, n, e.connection)
  PROVE  Faithful(d, order, k + 1, n)
<1>1. n.events \in Seq(ToSet(n.events))
  <2>1. n.events = Append(r.events, e)
    BY DEF Delivering
  <2> QED BY <2>1, OneMoreElement
<1>2. \A o \in ToSet(r.observations) : ObservedFaithfully(d, n.events, o)
  <2>1. PICK events : events = r.events
    OBVIOUS
  <2>2. \A o \in ToSet(r.observations) : ObservedFaithfully(d, events, o)
    BY <2>1 DEF Faithful
  <2>3. \A o \in ToSet(r.observations) : ObservedFaithfully(d, Append(events, e), o)
    BY <2>1, <2>2, StaysFaithful
  <2> QED BY <2>1, <2>3 DEF Delivering
<1>3. \A o \in ToSet(n.observations) : ObservedFaithfully(d, n.events, o)
  <2>1. CASE ~n.synchronized
    BY <1>2, <2>1 DEF Delivering
  <2>2. CASE n.synchronized
    <3>1. Follows(d, order, k + 1, n, e.connection)
      BY <2>2 DEF FollowsOrWaits, Waits
    <3>2. PICK o : o = Observation(n, e)
      OBVIOUS
    <3>3. ObservedFaithfully(d, n.events, o)
      BY <1>1, <3>1, <3>2, FollowingObserved
    <3>4. ToSet(n.observations) = ToSet(r.observations) \cup {o}
      <4>1. n.observations = Append(r.observations, o)
        BY <2>2, <3>2 DEF Delivering
      <4> QED BY <4>1, OneMoreElement
    <3> QED BY <1>2, <3>3, <3>4
  <2> QED BY <2>1, <2>2
<1> QED BY <1>3 DEF Faithful

\* A snapshot: the connection still waits, with its book.
LEMMA SnapshotWaits ==
  ASSUME NEW d, NEW order, InReplay(d, order),
         NEW k \in Nat, k + 1 \in 1 .. Len(order), order[k + 1].kind = "snapshot",
         NEW n, n.synchronized = FALSE, n.book = order[k + 1].payload
  PROVE  Waits(d, order, k + 1, n, order[k + 1].connection)
<1>1. /\ Delay = 0 /\ Fit(d) /\ QuantitiesSound(d)
      /\ Ordered(order, AllStaged(d)) /\ Complete(order, AllStaged(d))
      /\ Len(order) \in Nat /\ \A j \in 1 .. Len(order) : order[j] \in AllStaged(d)
  BY OrderedFacts DEF InReplay
<1>2. PICK e \in AllStaged(d) : e = order[k + 1]
  BY <1>1
<1>3. e = SnapshotEventOf(d, e.connection)
  <2>1. PICK row \in ToSet(d.rows) : StagedFor(d, e, row)
    BY <1>1, StagedForRows
  <2> QED BY <1>2, <2>1 DEF StagedFor
<1>4. ASSUME NEW j \in 1 .. k + 1, order[j].connection = e.connection
      PROVE  order[j].kind # "depth"
  <2> SUFFICES ASSUME order[j].kind = "depth" PROVE FALSE
    OBVIOUS
  <2>1. j \in 1 .. Len(order)
    BY <1>1
  <2>2. PICK x \in AllStaged(d) : x = order[j]
    BY <1>1, <2>1
  <2>3. KeyBefore(order[k + 1], order[j])
    BY <1>1, <1>2, <1>3, <1>4, <2>2, SnapshotBeforeDepth
  <2>4. k + 1 < j
    BY <1>1, <2>1, <2>3, Positions
  <2> QED BY <2>4
<1>5. n.book = SnapshotOf(d, e.connection).book
  BY <1>2, <1>3, SnapshotParts
<1> QED BY <1>2, <1>4, <1>5 DEF Waits

\* A trade changes neither.
LEMMA TradeKeeps ==
  ASSUME NEW d, NEW order, NEW k \in Nat, order[k + 1].kind = "trade",
         NEW r, NEW c, FollowsOrWaits(d, order, k, r, c), r.events \in Seq(ToSet(r.events)),
         NEW n, n.synchronized = r.synchronized, n.book = r.book,
         n.events = Append(r.events, order[k + 1])
  PROVE  FollowsOrWaits(d, order, k + 1, n, c)
<1>1. \A j \in 1 .. k + 1 : j \in 1 .. k \/ j = k + 1
  OBVIOUS
<1>2. CASE Waits(d, order, k, r, c)
  <2>1. /\ n.synchronized = FALSE
        /\ \A j \in 1 .. k + 1 : ~(order[j].kind = "depth" /\ order[j].connection = c)
        /\ \A j \in 1 .. k + 1 :
             order[j].kind = "snapshot" /\ order[j].connection = c => j \in 1 .. k
    BY <1>1, <1>2 DEF Waits
  <2>2. Waits(d, order, k + 1, n, c)
    BY <1>2, <2>1 DEF Waits
  <2> QED BY <2>2 DEF FollowsOrWaits
<1>3. CASE Follows(d, order, k, r, c)
  <2>1. PICK row \in ToSet(d.rows) :
          /\ row.record.kind = "depth" /\ row.record.connection = c
          /\ \E j \in 1 .. k : order[j] = MessageEventOf(row)
          /\ \A j \in 1 .. k : order[j].kind = "depth" /\ order[j].connection = c =>
               order[j].sequence <= row.sequence
          /\ NewestDelivered(r.events, Len(r.events), row)
          /\ BookAt(r.book, row.record.data.final)
    BY <1>3 DEF Follows
  <2>2. \E j \in 1 .. k + 1 : order[j] = MessageEventOf(row)
    BY <2>1
  <2>3. \A j \in 1 .. k + 1 : order[j].kind = "depth" /\ order[j].connection = c =>
          order[j].sequence <= row.sequence
    BY <1>1, <2>1
  <2>4. NewestDelivered(n.events, Len(n.events), row)
    <3>1. PICK m \in Nat : m = Len(r.events)
      OBVIOUS
    <3>2. /\ Len(n.events) = m + 1 /\ n.events[m + 1] = order[k + 1]
          /\ \A j \in 1 .. m : n.events[j] = r.events[j]
      BY <3>1, OneMoreElement
    <3>3. PICK i \in 1 .. m : /\ r.events[i] = MessageEventOf(row)
                              /\ \A j \in (i + 1) .. m : r.events[j].kind = "trade"
      BY <2>1, <3>1 DEF NewestDelivered
    <3>4. /\ i \in 1 .. m + 1
          /\ \A j \in (i + 1) .. (m + 1) : j = m + 1 \/ (j \in (i + 1) .. m /\ j \in 1 .. m)
      OBVIOUS
    <3>5. \A j \in (i + 1) .. (m + 1) : n.events[j].kind = "trade"
      BY <3>2, <3>3, <3>4
    <3> QED BY <3>2, <3>3, <3>4, <3>5 DEF NewestDelivered
  <2>5. Follows(d, order, k + 1, n, c)
    BY <2>1, <2>2, <2>3, <2>4 DEF Follows
  <2> QED BY <2>5 DEF FollowsOrWaits
<1> QED BY <1>2, <1>3 DEF FollowsOrWaits

LEMMA LastOfFacts ==
  ASSUME NEW rows, rows # {}, \A q \in rows : q.sequence \in Nat,
         NEW n \in Nat, \A q \in rows : q.sequence <= n
  PROVE  LastOf(rows) \in rows /\ \A q \in rows : q.sequence <= LastOf(rows).sequence
<1> DEFINE distances == {n - q.sequence : q \in rows}
<1>1. distances # {} /\ distances \in SUBSET Nat
  OBVIOUS
<1>2. PICK m \in distances : \A x \in distances : m <= x
  <2> HIDE DEF distances
  <2> QED BY <1>1, LeastNatural
<1>3. PICK r \in rows : m = n - r.sequence
  OBVIOUS
<1>4. \A q \in rows : n - r.sequence <= n - q.sequence
  BY <1>2, <1>3
<1>5. \A q \in rows : q.sequence <= r.sequence
  BY <1>4
<1>6. \E x \in rows : \A q \in rows : q.sequence <= x.sequence
  BY <1>5
<1> QED BY <1>6 DEF LastOf

\* The depth messages of a connection before one of them.
DepthsBefore(d, row) ==
  {q \in MessagesOf(d, row.record.connection) : HasLevels(q) /\ q.sequence < row.sequence}

\* A depth message continues the one before it, or the snapshot.
LEMMA DepthContinuesLast ==
  ASSUME NEW d, Fit(d), QuantitiesSound(d),
         NEW row \in ToSet(d.rows), row.record.kind = "depth",
         NEW c, c = row.record.connection
  PROVE  /\ DepthsBefore(d, row) = {} =>
              /\ row.record.data.final > SnapshotOf(d, c).last
              /\ row.record.data.first <= SnapshotOf(d, c).last + 1
         /\ DepthsBefore(d, row) # {} =>
              \E q \in DepthsBefore(d, row) :
                /\ \A x \in DepthsBefore(d, row) : x.sequence <= q.sequence
                /\ row.record.data.final > q.record.data.final
                /\ row.record.data.first <= q.record.data.final + 1
<1> DEFINE messages == MessagesOf(d, c)
           last == SnapshotOf(d, c).last
<1>1. row \in messages /\ c \in ConnectionItems(d) /\ row.sequence \in Nat
  BY RowTypes
<1>2. HasLevels(row) /\ Continuous(messages, last)
  BY <1>1, BridgeIsFirst DEF Fit, Unfit
<1>3. PICK earlier : earlier = {q \in messages : HasLevels(q) /\ q.sequence < row.sequence}
  OBVIOUS
<1>4. earlier = DepthsBefore(d, row)
  BY <1>3 DEF DepthsBefore
<1>5. PICK b : b = IF earlier = {} THEN last ELSE LastOf(earlier).record.data.final
  OBVIOUS
<1>6. row.record.data.final > b /\ row.record.data.first <= b + 1
  <2> HIDE DEF messages, last
  <2> QED BY <1>1, <1>2, <1>3, <1>5 DEF Continuous
<1>7. ASSUME earlier # {}
      PROVE  /\ LastOf(earlier) \in earlier
             /\ \A x \in earlier : x.sequence <= LastOf(earlier).sequence
  <2>1. \A q \in earlier : q \in ToSet(d.rows) /\ q.sequence < row.sequence
    BY <1>3 DEF MessagesOf
  <2>2. \A q \in earlier : q.sequence \in Nat
    BY <2>1, RowTypes
  <2>3. \A q \in earlier : q.sequence <= row.sequence
    BY <1>1, <2>1, <2>2
  <2> QED BY <1>1, <1>7, <2>2, <2>3, LastOfFacts
<1> QED BY <1>4, <1>5, <1>6, <1>7

\* A depth event: the book follows it.
LEMMA DepthFollows ==
  ASSUME NEW d, NEW order, InReplay(d, order),
         NEW k \in Nat, k + 1 \in 1 .. Len(order), order[k + 1].kind = "depth",
         NEW c, c = order[k + 1].connection,
         NEW r, FollowsOrWaits(d, order, k, r, c), r.events \in Seq(ToSet(r.events)),
         NEW n, n.book = Overridden(r.book, order[k + 1].payload),
         n.events = Append(r.events, order[k + 1])
  PROVE  Follows(d, order, k + 1, n, c)
<1>1. /\ Delay = 0 /\ Fit(d) /\ QuantitiesSound(d)
      /\ Ordered(order, AllStaged(d)) /\ Complete(order, AllStaged(d))
      /\ Len(order) \in Nat /\ \A j \in 1 .. Len(order) : order[j] \in AllStaged(d)
  BY OrderedFacts DEF InReplay
<1>2. PICK e \in AllStaged(d) : e = order[k + 1]
  BY <1>1
<1>3. PICK row \in ToSet(d.rows) : StagedFor(d, e, row)
  BY <1>1, StagedForRows
<1>4. /\ e = MessageEventOf(row) /\ row.record.kind = "depth" /\ row.record.connection = c
      /\ e.payload = row.deltas /\ e.sequence = row.sequence
  <2>1. e = MessageEventOf(row) /\ row.record.kind = "depth" /\ row.record.connection = c
    BY <1>2, <1>3 DEF StagedFor
  <2> QED BY <2>1, MessageParts
<1>5. row.sequence \in Nat
  BY <1>1, RowTypes
<1>6. \A j \in 1 .. k + 1 : j \in 1 .. k \/ j = k + 1
  OBVIOUS
<1>7. ASSUME NEW j \in 1 .. k, order[j].kind = "depth"
      PROVE  order[j].sequence < row.sequence
  <2>1. j \in 1 .. Len(order) /\ j < k + 1
    BY <1>1
  <2>2. KeyBefore(order[j], order[k + 1])
    BY <1>1, <2>1, Positions
  <2>3. PICK x \in AllStaged(d) : x = order[j]
    BY <1>1, <2>1
  <2> QED BY <1>1, <1>2, <1>4, <1>7, <2>2, <2>3, DepthsAsReceived
<1>8. ASSUME NEW q \in DepthsBefore(d, row)
      PROVE  \E j \in 1 .. k : order[j] = MessageEventOf(q) /\ order[j].kind = "depth"
                               /\ order[j].connection = c /\ order[j].sequence = q.sequence
  <2>1. /\ q \in MessagesOf(d, c) /\ q \in ToSet(d.rows) /\ q.record.connection = c
        /\ q.record.kind = "depth" /\ q.sequence < row.sequence
    BY <1>4 DEF DepthsBefore, MessagesOf, HasLevels
  <2>2. PICK x : x = MessageEventOf(q)
    OBVIOUS
  <2>3. x.kind = "depth" /\ x.connection = c /\ x.sequence = q.sequence
    BY <2>1, <2>2, MessageParts
  <2>4. x \in AllStaged(d)
    <3>1. c \in ConnectionItems(d)
      BY <1>1, <2>1, RowTypes
    <3>2. x \in StagedOf(d, c)
      BY <2>1, <2>2, StagedOfIs
    <3> QED BY <3>1, <3>2 DEF AllStaged
  <2>5. KeyBefore(x, e)
    BY <1>1, <1>2, <1>4, <2>1, <2>3, <2>4, DepthsAsReceived
  <2>6. PICK j \in 1 .. Len(order) : j < k + 1 /\ order[j] = x
    BY <1>1, <1>2, <2>4, <2>5, Positions
  <2>7. j \in 1 .. k
    BY <1>1, <2>6
  <2> QED BY <2>2, <2>3, <2>6, <2>7
<1>9. ASSUME NEW q \in ToSet(d.rows), q.record.kind = "depth", q.record.connection = c,
             NEW j \in 1 .. k, order[j] = MessageEventOf(q)
      PROVE  q \in DepthsBefore(d, row)
  <2>1. order[j].kind = "depth" /\ order[j].sequence = q.sequence
    BY <1>9, MessageParts
  <2>2. q.sequence < row.sequence
    BY <1>7, <2>1
  <2>3. q \in MessagesOf(d, c) /\ c \in ConnectionItems(d)
    BY <1>1, <1>9, RowTypes
  <2>4. HasLevels(q)
    BY <1>1, <1>9, <2>3, BridgeIsFirst
  <2> QED BY <1>4, <2>2, <2>3, <2>4 DEF DepthsBefore
<1>10. BookAt(n.book, row.record.data.final)
  <2>1. CASE DepthsBefore(d, row) = {}
    <3>1. Waits(d, order, k, r, c)
      BY <1>9, <2>1 DEF FollowsOrWaits, Follows
    <3>2. PICK s : s = SnapshotEventOf(d, c)
      OBVIOUS
    <3>3. s \in AllStaged(d) /\ KeyBefore(s, e)
      BY <1>1, <1>2, <3>2, SnapshotBeforeDepth
    <3>4. PICK j \in 1 .. Len(order) : j < k + 1 /\ order[j] = s
      BY <1>1, <1>2, <3>3, Positions
    <3>5. j \in 1 .. k /\ order[j].kind = "snapshot" /\ order[j].connection = c
      BY <1>1, <3>2, <3>4, SnapshotParts
    <3>6. r.book = SnapshotOf(d, c).book
      BY <3>1, <3>5 DEF Waits
    <3>7. c \in ConnectionItems(d)
      BY <1>1, <1>4, RowTypes
    <3>8. SnapshotOf(d, c) \in d.snapshots /\ SnapshotOf(d, c).last \in Nat
      BY <1>1, <3>7, ConnectionFacts, UpdateTypes
    <3>9. BookAt(r.book, SnapshotOf(d, c).last)
      BY <1>1, <3>6, <3>8 DEF QuantitiesSound, BookAt
    <3>10. /\ row.record.data.final > SnapshotOf(d, c).last
           /\ row.record.data.first <= SnapshotOf(d, c).last + 1
      BY <1>1, <1>4, <2>1, DepthContinuesLast
    <3>11. BookAt(Overridden(r.book, row.deltas), row.record.data.final)
      BY <1>1, <1>4, <3>8, <3>9, <3>10, DepthContinues
    <3> QED BY <1>2, <1>4, <3>11
  <2>2. CASE DepthsBefore(d, row) # {}
    <3>1. PICK q \in DepthsBefore(d, row) :
            /\ \A x \in DepthsBefore(d, row) : x.sequence <= q.sequence
            /\ row.record.data.final > q.record.data.final
            /\ row.record.data.first <= q.record.data.final + 1
      BY <1>1, <1>4, <2>2, DepthContinuesLast
    <3>2. PICK j \in 1 .. k : order[j].kind = "depth" /\ order[j].connection = c
                              /\ order[j].sequence = q.sequence
      BY <1>8
    <3>3. Follows(d, order, k, r, c)
      BY <3>2 DEF FollowsOrWaits, Waits
    <3>4. PICK p \in ToSet(d.rows) :
            /\ p.record.kind = "depth" /\ p.record.connection = c
            /\ \E i \in 1 .. k : order[i] = MessageEventOf(p)
            /\ order[j].sequence <= p.sequence
            /\ BookAt(r.book, p.record.data.final)
      BY <3>2, <3>3 DEF Follows
    <3>5. p \in DepthsBefore(d, row)
      BY <1>9, <3>4
    <3>6. q \in ToSet(d.rows) /\ q.record.kind = "depth"
      BY DEF DepthsBefore, MessagesOf, HasLevels
    <3>7. p = q
      <4>1. p.sequence <= q.sequence /\ q.sequence <= p.sequence
        BY <3>1, <3>2, <3>4, <3>5
      <4>2. p.sequence \in Nat /\ q.sequence \in Nat
        BY <1>1, <3>4, <3>6, RowTypes
      <4>3. p.sequence = q.sequence
        BY <4>1, <4>2
      <4> QED BY <1>1, <3>4, <3>6, <4>3, RowTypes
    <3>8. q.record.data.final \in Nat
      BY <1>1, <3>6, UpdateTypes
    <3>9. BookAt(Overridden(r.book, row.deltas), row.record.data.final)
      BY <1>1, <1>4, <3>1, <3>4, <3>7, <3>8, DepthContinues
    <3> QED BY <1>2, <1>4, <3>9
  <2> QED BY <2>1, <2>2
<1>11. \A j \in 1 .. k + 1 : order[j].kind = "depth" /\ order[j].connection = c =>
         order[j].sequence <= row.sequence
  <2> SUFFICES ASSUME NEW j \in 1 .. k + 1, order[j].kind = "depth"
               PROVE  order[j].sequence <= row.sequence
    OBVIOUS
  <2>0. \A x, y \in Nat : x = y \/ x < y => x <= y
    OBVIOUS
  <2>1. CASE j = k + 1
    <3>1. order[j].sequence = row.sequence
      BY <1>2, <1>4, <2>1
    <3> QED BY <1>5, <2>0, <3>1, Zenon
  <2>2. CASE j \in 1 .. k
    <3>1. order[j].sequence \in Nat
      BY <1>1, <2>2, StagedTypes DEF StagedSound
    <3>2. order[j].sequence < row.sequence
      BY <1>7, <2>2
    <3> QED BY <1>5, <2>0, <3>1, <3>2, Zenon
  <2> QED BY <1>6, <2>1, <2>2
<1>12. NewestDelivered(n.events, Len(n.events), row)
  <2>1. PICK m \in Nat : m = Len(r.events)
    OBVIOUS
  <2>2. Len(n.events) = m + 1 /\ n.events[m + 1] = order[k + 1]
    BY <2>1, OneMoreElement
  <2>3. PICK i \in Nat \ {0} : i = m + 1
    OBVIOUS
  <2>4. i \in 1 .. i /\ \A j \in (i + 1) .. i : FALSE
    OBVIOUS
  <2> QED BY <1>2, <1>4, <2>2, <2>3, <2>4 DEF NewestDelivered
<1>13. \E j \in 1 .. k + 1 : order[j] = MessageEventOf(row)
  <2>1. k + 1 \in 1 .. k + 1
    OBVIOUS
  <2> QED BY <1>2, <1>4, <2>1
<1> QED BY <1>4, <1>10, <1>11, <1>12, <1>13 DEF Follows

\* One more event keeps the observations faithful.
LEMMA PlayFaithful ==
  ASSUME NEW d, NEW order, InReplay(d, order),
         NEW k \in Nat, k + 1 \in 1 .. Len(order),
         NEW r, PlayedSound(r, order, k), r.ok => Faithful(d, order, k, r),
         PlayEvent(r, order[k + 1]).ok
  PROVE  Faithful(d, order, k + 1, PlayEvent(r, order[k + 1]))
<1>1. Ordered(order, AllStaged(d))
  BY DEF InReplay
<1>2. PICK e : e = order[k + 1]
  OBVIOUS
<1>3. PICK n : n = PlayEvent(r, e)
  OBVIOUS
<1>4. /\ e \in AllStaged(d) /\ e.kind \in EventKinds
      /\ e.available \in Nat /\ e.event \in Nat /\ e.receive \in Nat
  BY <1>1, <1>2, OrderedFacts
<1>5. ReplayShape(r) /\ r.ok \in BOOLEAN /\ n.ok
  BY <1>2, <1>3 DEF PlayedSound
<1>6. /\ r.ok
      /\ e.kind = "reset" => ResetBy(r, n)
      /\ e.kind # "reset" => DeliveredBy(r, e, n)
  BY <1>3, <1>4, <1>5, PlayCases
<1>7. Faithful(d, order, k, r)
  BY <1>6
<1>8. CASE e.kind = "reset"
  BY <1>2, <1>3, <1>6, <1>7, <1>8, ResetFaithful
<1>9. CASE e.kind # "reset"
  <2>1. DeliveredBy(r, e, n)
    BY <1>6, <1>9
  <2>2. Delivering(r, e, n)
    BY <2>1 DEF DeliveredBy, Delivering
  <2>3. n.events = Append(r.events, e)
    BY <2>2 DEF Delivering
  <2>4. r.events \in Seq(ToSet(r.events)) /\ r.observations \in Seq(ToSet(r.observations))
    BY <1>6 DEF PlayedSound, EventsSound, ObservedSound
  <2>5. PICK c : c = e.connection
    OBVIOUS
  <2>6. k \in 1 .. Len(order) /\ order[k].connection = c
    BY <1>2, <1>9, <2>5, SameConnection
  <2>7. r.recent \in Seq(OfConnection(d, c)) /\ FollowsOrWaits(d, order, k, r, c)
    <3>1. k > 0
      BY <2>6
    <3> QED BY <1>7, <2>6, <3>1 DEF Faithful
  <2>8. e.kind \in {"snapshot", "depth", "trade"}
    BY <1>4, <1>9 DEF EventKinds
  <2>9. PICK x : x = Deliver(r, e)
    OBVIOUS
  <2>10. Delivers(r, e, x)
    BY <1>5, <2>8, <2>9, DeliverFacts
  <2>11. n.book = x.book /\ n.recent = x.recent /\ n.synchronized = x.synchronized
    BY <2>1, <2>9 DEF DeliveredBy
  <2>12. CASE e.kind = "snapshot"
    <3>1. n.book = e.payload /\ n.synchronized = FALSE /\ n.recent = r.recent
      BY <2>10, <2>11, <2>12 DEF Delivers
    <3>2. FollowsOrWaits(d, order, k + 1, n, c)
      BY <1>2, <2>5, <2>12, <3>1, SnapshotWaits DEF FollowsOrWaits
    <3> QED BY <1>2, <1>3, <1>7, <2>2, <2>4, <2>5, <2>7, <3>1, <3>2, DeliveredFaithful
  <2>13. CASE e.kind = "depth"
    <3>1. n.book = Overridden(r.book, e.payload) /\ n.recent = r.recent
      BY <2>10, <2>11, <2>13 DEF Delivers
    <3>2. Follows(d, order, k + 1, n, c)
      BY <1>2, <2>3, <2>4, <2>5, <2>7, <2>13, <3>1, DepthFollows
    <3>3. FollowsOrWaits(d, order, k + 1, n, c)
      BY <3>2 DEF FollowsOrWaits
    <3> QED BY <1>2, <1>3, <1>7, <2>2, <2>4, <2>5, <2>7, <3>1, <3>3, DeliveredFaithful
  <2>14. CASE e.kind = "trade"
    <3>1. /\ n.book = r.book /\ n.synchronized = r.synchronized
          /\ n.recent = Newest(Append(r.recent, e))
      BY <2>10, <2>11, <2>14 DEF Delivers
    <3>2. FollowsOrWaits(d, order, k + 1, n, c)
      BY <1>2, <2>3, <2>4, <2>7, <2>14, <3>1, TradeKeeps
    <3>3. n.recent \in Seq(OfConnection(d, c))
      <4>1. e \in OfConnection(d, c)
        BY <1>4, <2>5 DEF OfConnection
      <4>2. Append(r.recent, e) \in Seq(OfConnection(d, c)) /\ Len(Append(r.recent, e)) > 0
        BY <2>7, <4>1
      <4> QED BY <3>1, <4>2, NewestFacts
    <3> QED BY <1>2, <1>3, <1>7, <2>2, <2>4, <2>5, <3>2, <3>3, DeliveredFaithful
  <2> QED BY <2>8, <2>12, <2>13, <2>14
<1> QED BY <1>8, <1>9

\* What was played at last is observed faithfully.
LEMMA PlayedFaithfully ==
  ASSUME NEW d, NEW order, InReplay(d, order), NEW f, Plays(f, order, Len(order))
  PROVE  f[Len(order)].ok => Faithful(d, order, Len(order), f[Len(order)])
<1>1. Ordered(order, AllStaged(d))
  BY DEF InReplay
<1>2. PICK n \in Nat : n = Len(order)
  BY <1>1, OrderedFacts
<1>3. /\ f[0] = EmptyReplay
      /\ \A k \in 0 .. n : k # 0 => f[k] = PlayEvent(f[k - 1], order[k])
  <2>1. f = [k \in 0 .. n |-> IF k = 0 THEN EmptyReplay ELSE PlayEvent(f[k - 1], order[k])]
    BY <1>2 DEF Plays
  <2>2. \A k \in 0 .. n : f[k] = IF k = 0 THEN EmptyReplay ELSE PlayEvent(f[k - 1], order[k])
    BY <2>1
  <2>3. 0 \in 0 .. n
    OBVIOUS
  <2> QED BY <2>2, <2>3
<1> DEFINE Good == {k \in Nat : k <= n =>
                      /\ PlayedSound(f[k], order, k)
                      /\ f[k].ok => Faithful(d, order, k, f[k])}
<1>4. 0 \in Good
  <2>1. PlayedSound(f[0], order, 0)
    BY <1>1, <1>3, EmptySound
  <2>2. Faithful(d, order, 0, f[0])
    <3>1. ToSet(EmptyReplay.observations) = {}
      BY DEF EmptyReplay, ToSet
    <3> QED BY <1>3, <3>1 DEF Faithful
  <2> QED BY <2>1, <2>2
<1>5. ASSUME NEW k \in Nat, k \in Good PROVE k + 1 \in Good
  <2> SUFFICES ASSUME k + 1 <= n
               PROVE  /\ PlayedSound(f[k + 1], order, k + 1)
                      /\ f[k + 1].ok => Faithful(d, order, k + 1, f[k + 1])
    OBVIOUS
  <2>1. PICK r : r = f[k]
    OBVIOUS
  <2>2. PlayedSound(r, order, k) /\ (r.ok => Faithful(d, order, k, r))
    BY <1>5, <2>1
  <2>3. f[k + 1] = PlayEvent(r, order[k + 1])
    <3>1. k + 1 \in 0 .. n /\ k + 1 # 0 /\ (k + 1) - 1 = k
      OBVIOUS
    <3> QED BY <1>3, <2>1, <3>1
  <2>4. k + 1 \in 1 .. Len(order) /\ k + 1 <= Len(order)
    BY <1>2
  <2>5. PlayedSound(PlayEvent(r, order[k + 1]), order, k + 1)
    BY <1>1, <2>2, <2>4, PlayKeeps
  <2>6. PlayEvent(r, order[k + 1]).ok => Faithful(d, order, k + 1, PlayEvent(r, order[k + 1]))
    BY <2>2, <2>4, PlayFaithful
  <2> QED BY <2>3, <2>5, <2>6
<1>6. n \in Good
  <2> HIDE DEF Good
  <2> QED BY <1>4, <1>5, NaturalInduction
<1> QED BY <1>2, <1>6

\* Without a processing delay, what is observed is the book of the exchange as
\* of the newest depth event delivered, and trades of that event's connection.
THEOREM ObservedWithoutDelay ==
  ASSUME Delay = 0
  PROVE  Spec => []ObservationsFaithful
<1>1. TInv => ObservationsFaithful
  <2> SUFFICES ASSUME TInv, Replayed, NEW o \in ToSet(replay.observations)
               PROVE  \E k \in 1 .. o.delivered :
                        /\ replay.events[k].kind = "depth"
                        /\ \A j \in (k + 1) .. o.delivered : replay.events[j].kind = "trade"
                        /\ \E row \in ToSet(dataset.rows) :
                             /\ row.sequence = replay.events[k].sequence
                             /\ \A l \in Level : o.book[l] * Increment = Truth[row.record.data.final][l]
                        /\ \A e \in ToSet(o.trades) : e.connection = replay.events[k].connection
    BY DEF ObservationsFaithful
  <2>1. PICK d : d = dataset
    OBVIOUS
  <2>2. PICK order : order = InOrder(AllStaged(d))
    OBVIOUS
  <2>3. InReplay(d, order)
    <3>1. Fit(d) /\ Ordered(order, AllStaged(d))
      BY <2>1, <2>2, ReplayedPlays
    <3>2. QuantitiesSound(d)
      <4>1. Built
        BY DEF TInv, ReplayedIsBuilt, Replayed
      <4> QED BY <2>1, <4>1, DatasetSound
    <3>3. Complete(order, AllStaged(d))
      <4>1. IsFiniteSet(AllStaged(d)) /\ StagedSound(AllStaged(d))
        BY <3>1, StagedFinite, StagedTypes
      <4> QED BY <2>2, <4>1, InOrderFacts DEF Complete
    <3> QED BY <3>1, <3>2, <3>3 DEF InReplay
  <2>4. PICK f : /\ Plays(f, order, Len(order)) /\ f[Len(order)].ok
                 /\ replay.events = f[Len(order)].events
                 /\ replay.observations = f[Len(order)].observations
    BY <2>1, <2>2, ReplayedPlays
  <2>5. Faithful(d, order, Len(order), f[Len(order)])
    BY <2>3, <2>4, PlayedFaithfully
  <2>6. ObservedFaithfully(d, replay.events, o)
    BY <2>4, <2>5 DEF Faithful
  <2>7. PICK c : Shown(d, replay.events, o.delivered, o.book, c)
                 /\ o.trades \in Seq(OfConnection(d, c))
    BY <2>6 DEF ObservedFaithfully
  <2>8. PICK row \in ToSet(d.rows) :
          /\ row.record.kind = "depth" /\ row.record.connection = c
          /\ NewestDelivered(replay.events, o.delivered, row)
          /\ BookAt(o.book, row.record.data.final)
    BY <2>7 DEF Shown
  <2>9. PICK k \in 1 .. o.delivered :
          /\ replay.events[k] = MessageEventOf(row)
          /\ \A j \in (k + 1) .. o.delivered : replay.events[j].kind = "trade"
    BY <2>8 DEF NewestDelivered
  <2>10. /\ replay.events[k].kind = "depth" /\ replay.events[k].connection = c
         /\ replay.events[k].sequence = row.sequence
    BY <2>8, <2>9, MessageParts
  <2>11. \A e \in ToSet(o.trades) : e.connection = c
    BY <2>7, ToSetElements DEF OfConnection
  <2>12. \A l \in Level : o.book[l] * Increment = Truth[row.record.data.final][l]
    BY <2>8 DEF BookAt
  <2> QED BY <2>1, <2>9, <2>10, <2>11, <2>12
<1> QED BY <1>1, TimesInvariance, PTL
=============================================================================
