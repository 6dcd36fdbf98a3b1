------------------------- MODULE FrameDecode_proofs -------------------------
(***************************************************************************)
(* Device info is announced and snapshots catch up with their events, for  *)
(* every set of ticks and every number of frames.                          *)
(***************************************************************************)
EXTENDS FrameDecode, SequenceTheorems, TLAPS

USE DEF vars, reader, Snapshots, Numbers, Halves
USE DecodeAssumption

\* The four kinds of a frame that matter to its handler.
LEMMA FrameKinds ==
    ASSUME NEW f \in Frame
    PROVE  /\ f.type \in {"imu", "notify", "log", "ignored", "info"}
           /\ f.type = "info" => f.tick \in Ticks
           /\ Dispatch(f) = IF f.type \in {"imu", "info"} THEN "store"
                            ELSE IF f.type = "ignored" THEN "idle" ELSE "emit"
BY DEF Frame, Dispatch

\* Which frame a handler past its dispatch is working on.
HandlerInv ==
    /\ wpc \in {"store", "half"} => frame.type \in Snapshots
    /\ wpc = "emit" => frame.type \in {"imu", "info", "notify", "log"}
    /\ wpc # "idle" => handled > 0

\* A store of one half leaves the other half, and the other snapshot, alone.
LEMMA HalfStored ==
    ASSUME NEW l \in [Snapshots -> Halves], NEW s \in Snapshots, NEW n \in Numbers,
           NEW k \in {1, 2}
    PROVE  /\ [l EXCEPT ![s][k] = n] \in [Snapshots -> Halves]
           /\ [l EXCEPT ![s][k] = n][s][k] = n
           /\ \A j \in {1, 2} : j # k => [l EXCEPT ![s][k] = n][s][j] = l[s][j]
           /\ \A o \in Snapshots : o # s => [l EXCEPT ![s][k] = n][o] = l[o]
<1> DEFINE h == [l[s] EXCEPT ![k] = n]
<1>1. l[s] \in Halves
  OBVIOUS
<1>2. h \in Halves /\ h[k] = n /\ \A j \in {1, 2} : j # k => h[j] = l[s][j]
  BY <1>1
<1>3. [l EXCEPT ![s][k] = n] = [l EXCEPT ![s] = h]
  OBVIOUS
<1> HIDE DEF h
<1> QED BY <1>2, <1>3

\* Every step keeps the types.
LEMMA TypeStep ==
    ASSUME TypeOK, HandlerInv, [Next]_vars
    PROVE  TypeOK' /\ HandlerInv'
<1> USE DEF TypeOK, HandlerInv
<1>1. ASSUME NEW f \in Frame, Receive(f) PROVE TypeOK' /\ HandlerInv'
  BY <1>1, FrameKinds DEF Receive
<1>2. CASE StoreImu
  <2>1. last' \in [Snapshots -> Halves]
    BY <1>2, HalfStored DEF StoreImu
  <2> QED BY <1>2, <2>1 DEF StoreImu
<1>3. CASE StoreInfo
  <2>1. frame.tick \in Ticks /\ announce' \in BOOLEAN
    BY <1>3, FrameKinds DEF StoreInfo
  <2>2. last' \in [Snapshots -> Halves]
    BY <1>3, HalfStored DEF StoreInfo
  <2>3. /\ known' \in Ticks \union {NoTick} /\ wpc' = "half"
        /\ frame' = frame /\ frame.type \in Snapshots /\ handled' > 0
    BY <1>3, <2>1 DEF StoreInfo
  <2>4. UNCHANGED <<handled, frame, events, told, reader>>
    BY <1>3 DEF StoreInfo
  <2> QED BY <2>1, <2>2, <2>3, <2>4
<1>4. CASE StoreRest
  <2>1. last' \in [Snapshots -> Halves]
    BY <1>4, HalfStored DEF StoreRest
  <2> QED BY <1>4, <2>1 DEF StoreRest
<1>5. CASE Emit
  <2>1. [type |-> frame.type, number |-> handled] \in Event
    BY <1>5 DEF Emit, Event
  <2>2. events' \in Seq(Event)
    BY <1>5, <2>1, AppendProperties DEF Emit
  <2>3. told' \in Ticks \union {NoTick}
    BY <1>5, FrameKinds DEF Emit
  <2> QED BY <1>5, <2>2, <2>3 DEF Emit
<1>6. CASE Poll
  <2>1. Head(events) \in Event /\ events' \in Seq(Event)
    BY <1>6, HeadTailProperties DEF Poll
  <2> QED BY <1>6, <2>1 DEF Poll, Event
<1>7. ASSUME NEW s \in Snapshots, GetFirst(s) PROVE TypeOK' /\ HandlerInv'
  BY <1>7 DEF GetFirst
<1>8. CASE GetRest
  <2>1. PICK h \in Numbers : h = last[getting][2]
    BY <1>8 DEF GetRest
  <2>2. [copy.body EXCEPT ![2] = h] \in Halves
    OBVIOUS
  <2>3. copy' = [copy EXCEPT !.body = [copy.body EXCEPT ![2] = h]]
    BY <1>8, <2>1 DEF GetRest
  <2>4. copy' \in [of : Snapshots, since : Numbers, body : Halves]
    BY <2>2, <2>3
  <2> QED BY <1>8, <2>4 DEF GetRest
<1>9. CASE UNCHANGED vars
  BY <1>9
<1> QED BY <1>1, <1>2, <1>3, <1>4, <1>5, <1>6, <1>7, <1>8, <1>9 DEF Next

\* Every state has its types, and its handler a frame to work on.
LEMMA HandlerTyped == Spec => [](TypeOK /\ HandlerInv)
<1>1. Init => TypeOK /\ HandlerInv
  <2> SUFFICES ASSUME Init PROVE TypeOK /\ HandlerInv
    OBVIOUS
  <2>1. frame \in Frame /\ events \in Seq(Event)
    BY DEF Init, Frame
  <2>2. /\ last \in [Snapshots -> Halves] /\ seen \in [Snapshots -> Numbers]
        /\ copy \in [of : Snapshots, since : Numbers, body : Halves]
    BY DEF Init
  <2> QED BY <2>1, <2>2 DEF Init, TypeOK, HandlerInv
<1>2. TypeOK /\ HandlerInv /\ [Next]_vars => TypeOK' /\ HandlerInv'
  BY TypeStep
<1> QED BY <1>1, <1>2, PTL DEF Spec

\* Every field keeps its type.
THEOREM TypeCorrect == Spec => []TypeOK
BY HandlerTyped, PTL

----------------------------------------------------------------------------
(* Announcing *)

\* A reply's tick is known from the moment it is stored; until its event is out,
\* the last event is about the tick before.
AnnounceInv ==
    /\ wpc \in {"idle", "store"} => told = known
    /\ wpc = "store" => announce
    /\ wpc = "half" /\ frame.type = "imu" => announce /\ told = known
    /\ wpc = "half" /\ frame.type = "info" =>
         known = frame.tick /\ (announce <=> told # known)
    /\ wpc = "emit" /\ frame.type = "info" => known = frame.tick /\ told # known
    /\ wpc = "emit" /\ frame.type # "info" => told = known

\* Device info with a new tick is never stored silently and none is announced
\* twice, whatever frames come between.
THEOREM Announced == Spec => []InfoAnnounced
<1>1. Init => AnnounceInv
  BY DEF Init, AnnounceInv
<1>2. TypeOK /\ HandlerInv /\ AnnounceInv /\ [Next]_vars => AnnounceInv'
  <2> SUFFICES ASSUME TypeOK, HandlerInv, AnnounceInv, [Next]_vars
               PROVE  AnnounceInv'
    OBVIOUS
  <2> USE DEF AnnounceInv, HandlerInv
  <2>1. ASSUME NEW f \in Frame, Receive(f) PROVE AnnounceInv'
    BY <2>1, FrameKinds DEF Receive
  <2>2. CASE StoreImu
    BY <2>2 DEF StoreImu
  <2>3. CASE StoreInfo
    <3>1. announce' <=> told' # known'
      BY <2>3 DEF StoreInfo
    <3> QED BY <2>3, <3>1 DEF StoreInfo
  <2>4. CASE StoreRest
    <3>1. CASE announce
      BY <2>4, <3>1 DEF StoreRest
    <3>2. CASE ~announce
      BY <2>4, <3>2 DEF StoreRest
    <3> QED BY <3>1, <3>2
  <2>5. CASE Emit
    BY <2>5 DEF Emit
  <2>6. CASE UNCHANGED <<frame, wpc, announce, known, told>>
    BY <2>6
  <2>7. Poll \/ (\E s \in Snapshots : GetFirst(s)) \/ GetRest =>
          UNCHANGED <<frame, wpc, announce, known, told>>
    BY DEF Poll, GetFirst, GetRest
  <2> QED BY <2>1, <2>2, <2>3, <2>4, <2>5, <2>6, <2>7 DEF Next
<1>3. AnnounceInv => InfoAnnounced
  BY DEF AnnounceInv, InfoAnnounced
<1> QED BY <1>1, <1>2, <1>3, HandlerTyped, PTL DEF Spec

----------------------------------------------------------------------------
(* Catching up *)

\* A snapshot's halves never go back: the first is the newer one, and both are
\* at least as new as every event about that snapshot, queued or polled.
StoredInv ==
    \A s \in Snapshots :
        /\ last[s][2] <= last[s][1] /\ last[s][1] <= handled
        /\ seen[s] <= last[s][2]
        /\ \A i \in 1 .. Len(events) :
             events[i].type = s => events[i].number <= last[s][2]
        /\ wpc = "half" /\ frame.type = s => last[s][1] = handled
        /\ wpc = "emit" /\ frame.type = s => last[s][2] = handled

\* A getter under way looks for a frame the snapshot already holds.
ReadInv ==
    /\ copy.since <= copy.body[1]
    /\ getting = "none" => copy.since <= copy.body[2]
    /\ getting # "none" => getting = copy.of /\ copy.since <= last[copy.of][2]

\* What StoredInv compares are numbers.
LEMMA HalvesAreNumbers ==
    ASSUME TypeOK
    PROVE  /\ handled \in Nat
           /\ \A s \in Snapshots :
                last[s][1] \in Nat /\ last[s][2] \in Nat /\ seen[s] \in Nat
           /\ Len(events) \in Nat
           /\ \A i \in 1 .. Len(events) : events[i] \in Event /\ events[i].number \in Nat
<1>1. /\ handled \in Nat
      /\ \A s \in Snapshots :
           last[s][1] \in Nat /\ last[s][2] \in Nat /\ seen[s] \in Nat
  BY DEF TypeOK
<1>2. events \in Seq(Event) /\ Len(events) \in Nat
  BY DEF TypeOK
<1>3. ASSUME NEW i \in 1 .. Len(events) PROVE events[i] \in Event
  BY <1>2, ElementOfSeq
<1>4. \A e \in Event : e.number \in Nat
  BY DEF Event
<1> QED BY <1>1, <1>2, <1>3, <1>4

\* Halves only grow, and StoredInv is kept.
LEMMA StoredStep ==
    ASSUME TypeOK, HandlerInv, StoredInv, [Next]_vars
    PROVE  StoredInv' /\ \A s \in Snapshots : last[s][2] <= last'[s][2]
<1> USE DEF TypeOK, HandlerInv, StoredInv
<1>1. ASSUME NEW f \in Frame, Receive(f)
      PROVE  StoredInv' /\ \A s \in Snapshots : last[s][2] <= last'[s][2]
  BY <1>1, FrameKinds DEF Receive
<1> DEFINE Begun(s) ==
      /\ frame.type = s /\ wpc' = "half" /\ last'[s][1] = handled
      /\ last'[s][2] = last[s][2]
      /\ \A o \in Snapshots : o # s => last'[o] = last[o]
      /\ UNCHANGED <<handled, frame, events, seen>>
<1>2. ASSUME NEW s \in Snapshots, Begun(s)
      PROVE  StoredInv' /\ \A o \in Snapshots : last[o][2] <= last'[o][2]
  <2>1. \A o \in Snapshots : last'[o][2] = last[o][2]
    BY <1>2
  <2>2. \A o \in Snapshots : last[o][2] <= last'[o][1] /\ last'[o][1] <= handled
    BY <1>2, HalvesAreNumbers
  <2> QED BY <1>2, <2>1, <2>2, HalvesAreNumbers
<1>3. StoreImu \/ StoreInfo => \E s \in Snapshots : Begun(s)
  <2>1. StoreImu => Begun("imu")
    BY HalfStored DEF StoreImu
  <2>2. StoreInfo => Begun("info")
    BY HalfStored DEF StoreInfo
  <2> QED BY <2>1, <2>2
<1> HIDE DEF Begun
<1>4. CASE StoreRest
  <2>1. /\ last'[frame.type][1] = last[frame.type][1]
        /\ last'[frame.type][2] = handled
        /\ \A s \in Snapshots \ {frame.type} : last'[s] = last[s]
    BY <1>4, HalfStored DEF StoreRest
  <2>2. UNCHANGED <<handled, frame, events, seen>> /\ wpc' # "half"
    BY <1>4 DEF StoreRest
  <2>3. last[frame.type][1] = handled
    BY <1>4 DEF StoreRest
  <2>4. ASSUME NEW s \in Snapshots, s # frame.type
        PROVE  last'[s] = last[s] /\ ~(wpc' = "emit" /\ frame'.type = s)
    BY <2>1, <2>2, <2>4
  <2> frame.type \in Snapshots
    BY <1>4 DEF StoreRest
  <2>5. last[frame.type][2] <= handled
    BY <2>3, HalvesAreNumbers
  <2>6. ASSUME NEW i \in 1 .. Len(events), events[i].type = frame.type
        PROVE  events[i].number <= handled
    <3>1. events[i].number <= last[frame.type][2]
      BY <2>6
    <3> HIDE DEF TypeOK, HandlerInv, StoredInv
    <3> QED BY <2>5, <3>1, HalvesAreNumbers
  <2>7. seen[frame.type] <= handled
    <3>1. seen[frame.type] <= last[frame.type][2]
      OBVIOUS
    <3> HIDE DEF TypeOK, HandlerInv, StoredInv
    <3> QED BY <2>5, <3>1, HalvesAreNumbers
  <2>8. ASSUME NEW s \in Snapshots
        PROVE  /\ last[s][2] <= last'[s][2]
               /\ last'[s][2] <= last'[s][1] /\ last'[s][1] <= handled'
               /\ seen'[s] <= last'[s][2]
               /\ \A i \in 1 .. Len(events') :
                    events'[i].type = s => events'[i].number <= last'[s][2]
               /\ wpc' = "emit" /\ frame'.type = s => last'[s][2] = handled'
    <3>1. CASE s = frame.type
      BY <2>1, <2>2, <2>3, <2>5, <2>6, <2>7, <3>1, HalvesAreNumbers
    <3>2. CASE s # frame.type
      <4>1. /\ last'[s] = last[s] /\ ~(wpc' = "emit" /\ frame'.type = s)
            /\ UNCHANGED <<handled, events, seen>>
        BY <2>2, <2>4, <3>2
      <4>2. last[s][2] <= last[s][2]
        BY HalvesAreNumbers
      <4> QED BY <4>1, <4>2
    <3> QED BY <3>1, <3>2
  <2> QED BY <2>2, <2>8
<1>5. CASE Emit
  <2>1. [type |-> frame.type, number |-> handled] \in Event
    BY <1>5 DEF Emit, Event
  <2>2. /\ Len(events') = Len(events) + 1 /\ Len(events) \in Nat
        /\ \A i \in 1 .. Len(events) : events'[i] = events[i]
        /\ events'[Len(events) + 1] = [type |-> frame.type, number |-> handled]
    BY <1>5, <2>1, AppendProperties, LenProperties DEF Emit
  <2> QED BY <1>5, <2>2 DEF Emit
<1>6. CASE Poll
  <2>1. /\ Len(events') = Len(events) - 1 /\ Len(events) \in Nat \ {0}
        /\ Head(events) = events[1]
        /\ \A i \in 1 .. Len(events') : events'[i] = events[i + 1]
    BY <1>6, HeadTailProperties, EmptySeq DEF Poll
  <2>2. UNCHANGED <<handled, frame, wpc, last>>
    BY <1>6 DEF Poll
  <2>3. ASSUME NEW i \in 1 .. Len(events')
        PROVE  i + 1 \in 1 .. Len(events) /\ events'[i] = events[i + 1]
    BY <2>1
  <2>4. ASSUME NEW s \in Snapshots PROVE seen'[s] <= last[s][2]
    <3>1. 1 \in 1 .. Len(events)
      BY <2>1
    <3> QED BY <1>6, <2>1, <3>1 DEF Poll
  <2>5. ASSUME NEW s \in Snapshots, NEW i \in 1 .. Len(events'), events'[i].type = s
        PROVE  events'[i].number <= last[s][2]
    BY <2>3, <2>5
  <2>6. StoredInv'
    BY <2>2, <2>4, <2>5
  <2> QED BY <2>2, <2>6, HalvesAreNumbers
<1>7. CASE UNCHANGED <<handled, frame, wpc, last, events, seen>>
  BY <1>7
<1>8. (\E s \in Snapshots : GetFirst(s)) \/ GetRest =>
        UNCHANGED <<handled, frame, wpc, last, events, seen>>
  BY DEF GetFirst, GetRest
<1> QED BY <1>1, <1>2, <1>3, <1>4, <1>5, <1>6, <1>7, <1>8 DEF Next

\* Who has polled an event and then asks for its snapshot gets nothing older.
THEOREM CatchesUp == Spec => []SnapshotCatchesUp
<1>1. Init => StoredInv /\ ReadInv
  BY DEF Init, StoredInv, ReadInv
<1>2. TypeOK /\ HandlerInv /\ StoredInv /\ ReadInv /\ [Next]_vars =>
        StoredInv' /\ ReadInv'
  <2> SUFFICES ASSUME TypeOK, HandlerInv, StoredInv, ReadInv, [Next]_vars
               PROVE  ReadInv'
    BY StoredStep
  <2> USE DEF TypeOK, ReadInv
  <2>1. ASSUME NEW s \in Snapshots, GetFirst(s) PROVE ReadInv'
    BY <2>1 DEF GetFirst, StoredInv
  <2>2. CASE GetRest
    BY <2>2 DEF GetRest, StoredInv
  <2>3. CASE UNCHANGED <<getting, copy>>
    <3>1. TypeOK'
      BY TypeStep
    <3>2. copy.since \in Nat /\ copy.of \in Snapshots
      OBVIOUS
    <3>3. last[copy.of][2] <= last'[copy.of][2]
      BY <3>2, StoredStep
    <3>4. last[copy.of] \in Halves /\ last'[copy.of] \in Halves
      BY <3>1, <3>2
    <3>5. getting # "none" => copy.since <= last'[copy.of][2]
      BY <3>2, <3>3, <3>4
    <3> QED BY <2>3, <3>5
  <2>4. StoreImu \/ StoreInfo \/ StoreRest \/ Emit \/ Poll
          \/ (\E f \in Frame : Receive(f)) => UNCHANGED <<getting, copy>>
    BY DEF StoreImu, StoreInfo, StoreRest, Emit, Poll, Receive
  <2> QED BY <2>1, <2>2, <2>3, <2>4 DEF Next
<1>3. ReadInv /\ TypeOK => SnapshotCatchesUp
  BY DEF ReadInv, SnapshotCatchesUp, TypeOK
<1> QED BY <1>1, <1>2, <1>3, HandlerTyped, PTL DEF Spec
=============================================================================
