------------------------ MODULE StreamPipelineProofs ------------------------
(***************************************************************************)
(* What the goroutines of one streamer never do, for any number of         *)
(* generations, handlers, sessions, subscribers and frames: no channel     *)
(* above its capacity, no two readers of the device, no key frame that     *)
(* finds no room or is drained away, no channel closed twice or sent to    *)
(* when closed.                                                            *)
(***************************************************************************)
EXTENDS StreamPipeline, TLAPS, SequenceTheorems

(* The types *)

LEMMA GenFacts ==
  /\ Gens \subseteq Nat \ {0} /\ Subs \subseteq Nat \ {0} /\ NoGen \notin Gens /\ NoSub \notin Subs
  /\ \A b \in Budgets : /\ 1 .. b.gens \subseteq Gens /\ 1 .. b.subs \subseteq Subs
                        /\ b.reads \in Nat
BY PipelineAssumption DEF Gens, Subs, NoGen, NoSub

LEMMA OpenPipelineOK ==
  ASSUME TypeOK, NEW g \in Gens, NEW gated \in BOOLEAN, OpenPipeline(g, gated)
  PROVE  reading' \in BOOLEAN /\ frameChan' \in Gens /\ streamCtrl' \in Gens /\ CoordsOK' /\ OrchsOK'
<1>1. /\ frameChan' = g /\ streamCtrl' = g /\ reading' = TRUE
      /\ coord' = [coord EXCEPT ![g].at = IF gated THEN "gate" ELSE "select", ![g].stop = readStop]
      /\ orch' = [orch EXCEPT ![g].at = "loop"]
  BY DEF OpenPipeline
<1>3. CoordsOK'
  <2>1. PICK at \in CoordPcs :
          coord' = [coord EXCEPT ![g].at = at, ![g].stop = readStop]
    BY <1>1 DEF CoordPcs
  <2> QED BY <2>1 DEF TypeOK, FieldsOK, CoordsOK, Coordinator
<1>4. OrchsOK'
  <2>1. orch[g] \in Orchestrator
    BY DEF TypeOK, OrchsOK
  <2>2. [orch[g] EXCEPT !.at = "loop"] \in Orchestrator
    BY <2>1 DEF Orchestrator, OrchPcs
  <2> QED BY <1>1, <2>2 DEF TypeOK, OrchsOK
<1> QED BY <1>1, <1>3, <1>4

LEMMA StartStepOK ==
  ASSUME TypeOK, NEW k \in Sups, StartBegin(k) \/ StartStep(k)
  PROVE  TypeOK'
<1>1. CASE StartBegin(k)
  <2>1. FieldsOK'
    BY <1>1 DEF StartBegin, TypeOK, FieldsOK, flags, stops, fields, video, device, starts, sups
  <2>2. OthersOK'
    BY <1>1 DEF StartBegin, TypeOK, OthersOK, flags, stops, fields, video, device, starts, sups,
          Starter, StarterPcs, StarterMoves
  <2>3. ChannelsOK' /\ CoordsOK' /\ OrchsOK' /\ SupsOK'
    BY <1>1 DEF StartBegin, TypeOK, ChannelsOK, CoordsOK, OrchsOK, SupsOK, flags, stops,
          fields, video, device, starts, sups
  <2> QED BY <2>1, <2>2, <2>3 DEF TypeOK
<1>2. CASE StartConnect(k)
  <2>1. FieldsOK'
    BY <1>2 DEF StartConnect, TypeOK, FieldsOK, flags, stops, fields, video, device, starts, sups
  <2>2. OthersOK'
    <3>1. up' \in BOOLEAN /\ \E at \in StarterPcs : StarterMoves(k, at)
      BY <1>2 DEF StartConnect, TypeOK, OthersOK, StarterPcs
    <3>2. starter' \in [Sups -> Starter]
      BY <3>1 DEF TypeOK, OthersOK, Starter, StarterMoves
    <3> QED BY <1>2, <3>1, <3>2 DEF StartConnect, TypeOK, OthersOK
  <2>3. ChannelsOK' /\ CoordsOK' /\ OrchsOK' /\ SupsOK'
    BY <1>2 DEF StartConnect, TypeOK, ChannelsOK, CoordsOK, OrchsOK, SupsOK, flags, stops,
          fields, video, device, starts, sups
  <2> QED BY <2>1, <2>2, <2>3 DEF TypeOK
<1>3. CASE StartPipeline(k)
  <2>1. ASSUME NEW g \in Gens, OpenPipeline(g, TRUE),
               starter' = [starter EXCEPT ![k] = [at |-> "piped", gen |-> g]]
        PROVE  TypeOK'
    <3>1. OthersOK'
      BY <1>3, <2>1 DEF StartPipeline, TypeOK, OthersOK, Starter, StarterPcs, device
    <3> QED BY <1>3, <2>1, <3>1, OpenPipelineOK DEF StartPipeline, TypeOK, FieldsOK, ChannelsOK,
              SupsOK, stops, fields, video, sups
  <2>2. CASE UNCHANGED <<reading, fields, coord, orch>> /\ StarterMoves(k, "failed")
    <3>1. OthersOK'
      BY <1>3, <2>2 DEF StartPipeline, TypeOK, OthersOK, Starter, StarterPcs, StarterMoves, device
    <3> QED BY <1>3, <2>2, <3>1 DEF StartPipeline, TypeOK, FieldsOK, ChannelsOK, CoordsOK, OrchsOK,
              SupsOK, stops, fields, video, sups
  <2> QED BY <1>3, <2>1, <2>2 DEF StartPipeline
<1>4. CASE StartOpenGate(k)
  <2>1. FieldsOK'
    BY <1>4 DEF StartOpenGate, TypeOK, FieldsOK, flags, stops, fields, video, device, starts, sups
  <2>2. OthersOK'
    BY <1>4 DEF StartOpenGate, TypeOK, OthersOK, flags, stops, fields, video, device, starts, sups,
          Starter, StarterPcs, StarterMoves
  <2>3. ChannelsOK' /\ CoordsOK' /\ OrchsOK' /\ SupsOK'
    BY <1>4 DEF StartOpenGate, TypeOK, ChannelsOK, CoordsOK, OrchsOK, SupsOK, flags, stops,
          fields, video, device, starts, sups
  <2> QED BY <2>1, <2>2, <2>3 DEF TypeOK
<1>5. CASE StartFinish(k)
  <2>1. FieldsOK'
    BY <1>5 DEF StartFinish, TypeOK, FieldsOK, flags, stops, fields, video, device, starts, sups
  <2>2. OthersOK'
    BY <1>5 DEF StartFinish, TypeOK, OthersOK, flags, stops, fields, video, device, starts, sups,
          Starter, StarterPcs, StarterMoves
  <2>3. ChannelsOK' /\ CoordsOK' /\ OrchsOK' /\ SupsOK'
    BY <1>5 DEF StartFinish, TypeOK, ChannelsOK, CoordsOK, OrchsOK, SupsOK, flags, stops,
          fields, video, device, starts, sups
  <2> QED BY <2>1, <2>2, <2>3 DEF TypeOK
<1>6. CASE StartReturn(k)
  <2>1. FieldsOK'
    BY <1>6 DEF StartReturn, TypeOK, FieldsOK, flags, stops, fields, video, device, starts, sups
  <2>2. OthersOK'
    BY <1>6 DEF StartReturn, TypeOK, OthersOK, flags, stops, fields, video, device, starts, sups,
          Starter, StarterPcs, StarterMoves
  <2>3. ChannelsOK' /\ CoordsOK' /\ OrchsOK' /\ SupsOK'
    BY <1>6 DEF StartReturn, TypeOK, ChannelsOK, CoordsOK, OrchsOK, SupsOK, flags, stops,
          fields, video, device, starts, sups
  <2> QED BY <2>1, <2>2, <2>3 DEF TypeOK
<1> QED BY <1>1, <1>2, <1>3, <1>4, <1>5, <1>6 DEF StartStep

LEMMA ReaderStepOK == ASSUME TypeOK, NEW r \in Readers, ReaderStep(r) PROVE TypeOK'
<1>1. CASE ReaderCheck(r)
  <2>1. OthersOK'
    BY <1>1 DEF ReaderCheck, TypeOK, OthersOK, flags, stops, fields, video, device, starts, sups
  <2>2. FieldsOK' /\ ChannelsOK' /\ CoordsOK' /\ OrchsOK' /\ SupsOK'
    BY <1>1 DEF ReaderCheck, TypeOK, FieldsOK, ChannelsOK, CoordsOK, OrchsOK, SupsOK,
          flags, stops, fields, video, device, starts, sups
  <2> QED BY <2>1, <2>2 DEF TypeOK
<1>2. CASE ReaderPipeline(r)
  <2>1. ASSUME NEW g \in Gens, OpenPipeline(g, FALSE) PROVE TypeOK'
    BY <1>2, <2>1, OpenPipelineOK DEF ReaderPipeline, TypeOK, FieldsOK, ChannelsOK, SupsOK,
          OthersOK, stops, fields, video, device, starts, sups
  <2>2. CASE UNCHANGED <<reading, fields, coord, orch>>
    BY <1>2, <2>2 DEF ReaderPipeline, TypeOK, FieldsOK, ChannelsOK, CoordsOK, OrchsOK, SupsOK,
          OthersOK, stops, fields, video, device, starts, sups
  <2> QED BY <1>2, <2>1, <2>2 DEF ReaderPipeline
<1> QED BY <1>1, <1>2 DEF ReaderStep

LEMMA EmptyOK == \A S : <<>> \in Seq(S) /\ Len(<<>>) = 0
OBVIOUS

LEMMA CoordUpdateOK ==
  ASSUME CoordsOK, NEW g \in Gens, NEW c \in Coordinator, Len(c.hold) <= 1,
         coord' = [coord EXCEPT ![g] = c]
  PROVE  CoordsOK'
BY DEF CoordsOK

LEMMA QueueUpdateOK ==
  ASSUME ChannelsOK, NEW g \in Gens, NEW q \in Seq(Frame), Len(q) <= FrameCap,
         queue' = [queue EXCEPT ![g] = q]
  PROVE  queue' \in [Gens -> Seq(Frame)] /\ \A h \in Gens : Len(queue'[h]) <= FrameCap
BY DEF ChannelsOK

\* What a channel holds.
LEMMA QueueFacts ==
  ASSUME TypeOK, NEW c \in Gens
  PROVE  /\ queue[c] \in Seq(Frame)
         /\ Len(queue[c]) \in Nat /\ Len(queue[c]) <= FrameCap
         /\ queue[c] # <<>> =>
              /\ Head(queue[c]) \in Frame /\ Tail(queue[c]) \in Seq(Frame)
              /\ Len(Tail(queue[c])) <= FrameCap
<1>1. queue[c] \in Seq(Frame) /\ Len(queue[c]) <= FrameCap
  BY DEF TypeOK, ChannelsOK
<1>2. FrameCap \in Nat
  BY PipelineAssumption
<1> QED BY <1>1, <1>2

LEMMA CoordMovesOK ==
  ASSUME CoordsOK, NEW g \in Gens, NEW at \in CoordPcs, CoordMoves(g, at)
  PROVE  CoordsOK'
BY DEF CoordsOK, CoordMoves, Coordinator

LEMMA CoordSelectsOK ==
  ASSUME CoordsOK, readStop \in Nat, NEW g \in Gens, CoordSelects(g)
  PROVE  CoordsOK'
<1> DEFINE c == [coord[g] EXCEPT !.at = "select", !.stop = readStop, !.on = NoGen, !.hold = <<>>]
<1>1. c \in Coordinator /\ c.hold = <<>>
  BY EmptyOK DEF CoordsOK, Coordinator, CoordPcs
<1>2. coord' = [coord EXCEPT ![g] = c]
  BY DEF CoordSelects
<1>3. Len(c.hold) <= 1
  BY <1>1, EmptyOK
<1> HIDE DEF c
<1> QED BY <1>1, <1>2, <1>3, CoordUpdateOK

LEMMA LastKeptOK ==
  ASSUME NEW kept \in Seq(Frame)
  PROVE  LastKept(kept) \in Seq(Frame) /\ Len(LastKept(kept)) <= KeepFrames
<1>1. Len(kept) \in Nat /\ KeepFrames \in Nat
  BY PipelineAssumption
<1>2. CASE Len(kept) > KeepFrames
  <2>1. SubSeq(kept, Len(kept) - KeepFrames + 1, Len(kept)) \in Seq(Frame)
    BY <1>1, <1>2
  <2>2. Len(SubSeq(kept, Len(kept) - KeepFrames + 1, Len(kept))) = KeepFrames
    BY <1>1, <1>2
  <2> QED BY <1>2, <2>1, <2>2, <1>1 DEF LastKept
<1> QED BY <1>1, <1>2 DEF LastKept

LEMMA CoordStepOK == ASSUME TypeOK, NEW g \in Gens, CoordStep(g) PROVE TypeOK'
<1>1. CASE CoordGate(g)
  <2>1. CoordsOK'
    BY <1>1, CoordSelectsOK DEF CoordGate, TypeOK, CoordsOK, flags, stops, fields, video,
          device, starts, sups, FieldsOK
  <2>2. FieldsOK' /\ ChannelsOK' /\ OrchsOK' /\ SupsOK' /\ OthersOK'
    BY <1>1 DEF CoordGate, TypeOK, FieldsOK, ChannelsOK, OrchsOK, SupsOK, OthersOK, flags,
          stops, fields, video, device, starts, sups
  <2> QED BY <2>1, <2>2 DEF TypeOK
<1>2. CASE CoordStopped(g)
  <2>1. CoordsOK'
    BY <1>2, CoordMovesOK DEF CoordStopped, TypeOK, CoordsOK, flags, stops, fields, video,
          device, starts, sups, CoordPcs
  <2>2. FieldsOK' /\ ChannelsOK' /\ OrchsOK' /\ SupsOK' /\ OthersOK'
    BY <1>2 DEF CoordStopped, TypeOK, FieldsOK, ChannelsOK, OrchsOK, SupsOK, OthersOK,
          flags, stops, fields, video, device, starts, sups
  <2> QED BY <2>1, <2>2 DEF TypeOK
<1>3. CASE CoordEnd(g)
  <2>1. CoordsOK'
    BY <1>3, CoordMovesOK DEF CoordEnd, TypeOK, CoordsOK, flags, stops, fields, video,
          device, starts, sups, CoordPcs
  <2>2. OthersOK'
    BY <1>3 DEF CoordEnd, TypeOK, OthersOK, flags, stops, fields, video, device, starts, sups
  <2>3. FieldsOK' /\ ChannelsOK' /\ OrchsOK' /\ SupsOK'
    BY <1>3 DEF CoordEnd, TypeOK, FieldsOK, ChannelsOK, OrchsOK, SupsOK, flags, stops,
          fields, video, device, starts, sups
  <2> QED BY <2>1, <2>2, <2>3 DEF TypeOK
<1>4. CASE CoordDrop(g)
  <2>1. CoordsOK'
    BY <1>4, CoordSelectsOK DEF CoordDrop, TypeOK, CoordsOK, flags, stops, fields, video,
          device, starts, sups, FieldsOK
  <2>2. FieldsOK' /\ ChannelsOK' /\ OrchsOK' /\ SupsOK' /\ OthersOK'
    BY <1>4 DEF CoordDrop, TypeOK, FieldsOK, ChannelsOK, OrchsOK, SupsOK, OthersOK, flags,
          stops, fields, video, device, starts, sups
  <2> QED BY <2>1, <2>2 DEF TypeOK
<1>5. CASE CoordRead(g)
  <2>1. CoordsOK'
    <3>1. PICK k \in Kinds, at \in CoordPcs :
            coord' = [coord EXCEPT ![g].hold = <<[kind |-> k, id |-> reads + 1]>>, ![g].at = at]
      <4>1. PICK k \in Kinds :
              coord' = [coord EXCEPT ![g].hold = <<[kind |-> k, id |-> reads + 1]>>,
                                     ![g].at = CASE k = "key"    -> "drain"
                                                 [] k = "config" -> "send"
                                                 [] k = "delta"  -> "try"]
        BY <1>5 DEF CoordRead
      <4>2. (CASE k = "key" -> "drain" [] k = "config" -> "send" [] k = "delta" -> "try") \in CoordPcs
        BY DEF Kinds, CoordPcs
      <4> QED BY <4>1, <4>2
    <3> DEFINE f == [kind |-> k, id |-> reads + 1]
               c == [coord[g] EXCEPT !.hold = <<f>>, !.at = at]
    <3>2. f \in Frame
      BY DEF TypeOK, OthersOK, Frame
    <3>3. <<f>> \in Seq(Frame) /\ Len(<<f>>) = 1
      BY <3>2
    <3>4. c \in Coordinator /\ c.hold = <<f>>
      BY <3>3 DEF TypeOK, CoordsOK, Coordinator
    <3>5. coord' = [coord EXCEPT ![g] = c]
      BY <3>1
    <3>6. Len(c.hold) <= 1
      BY <3>3, <3>4
    <3>7. CoordsOK
      BY DEF TypeOK
    <3> HIDE DEF c, f
    <3> QED BY <3>4, <3>5, <3>6, <3>7, CoordUpdateOK
  <2>2. OthersOK'
    BY <1>5 DEF CoordRead, TypeOK, OthersOK, flags, stops, fields, video, device, starts, sups
  <2>3. FieldsOK' /\ ChannelsOK' /\ OrchsOK' /\ SupsOK'
    BY <1>5 DEF CoordRead, TypeOK, FieldsOK, ChannelsOK, OrchsOK, SupsOK, flags, stops,
          fields, video, device, starts, sups
  <2> QED BY <2>1, <2>2, <2>3 DEF TypeOK
<1>6. CASE CoordDrain(g)
  <2>0. frameChan \in Gens
    BY <1>6 DEF CoordDrain, TypeOK, FieldsOK
  <2>1. CASE queue[frameChan] # <<>> /\ UNCHANGED panicked
             /\ queue' = [queue EXCEPT ![frameChan] = Tail(@)]
             /\ coord' = [coord EXCEPT ![g].kept =
                            IF Head(queue[frameChan]).kind = "delta" THEN @
                            ELSE Append(@, Head(queue[frameChan]))]
    <3>1. CoordsOK'
      <4> DEFINE q == queue[frameChan]
                 c == [coord[g] EXCEPT !.kept =
                         IF Head(q).kind = "delta" THEN @ ELSE Append(@, Head(q))]
      <4>1. Head(q) \in Frame
        BY <2>0, <2>1, QueueFacts
      <4>2. coord[g] \in Coordinator /\ Len(coord[g].hold) <= 1
        BY DEF TypeOK, CoordsOK
      <4>3. Append(coord[g].kept, Head(q)) \in Seq(Frame)
        BY <4>1, <4>2 DEF Coordinator
      <4>4. c \in Coordinator /\ c.hold = coord[g].hold
        BY <4>2, <4>3 DEF Coordinator
      <4>5. coord' = [coord EXCEPT ![g] = c]
        BY <2>1
      <4> QED BY <4>2, <4>4, <4>5, CoordUpdateOK DEF TypeOK
    <3>2. ChannelsOK'
      BY <1>6, <2>0, <2>1, QueueFacts, QueueUpdateOK DEF CoordDrain, TypeOK, ChannelsOK
    <3> QED BY <1>6, <3>1, <3>2 DEF CoordDrain, TypeOK, FieldsOK, OrchsOK, SupsOK, OthersOK, flags,
              stops, fields, device, starts, sups
  <2>2. CASE panicked' = TRUE /\ UNCHANGED <<queue, coord>>
    BY <1>6, <2>2 DEF CoordDrain, TypeOK, FieldsOK, ChannelsOK, CoordsOK, OrchsOK, SupsOK, OthersOK,
       flags, stops, fields, device, starts, sups
  <2> QED BY <1>6, <2>1, <2>2 DEF CoordDrain
<1>7. CASE CoordDrained(g)
  <2>1. CoordsOK'
    <3>1. PICK kept \in Seq(Frame), at \in CoordPcs :
            coord' = [coord EXCEPT ![g].kept = kept, ![g].at = at]
      <4>1. coord[g].kept \in Seq(Frame)
        BY DEF TypeOK, CoordsOK, Coordinator
      <4>2. LastKept(coord[g].kept) \in Seq(Frame)
        BY <4>1, LastKeptOK
      <4> QED BY <1>7, <4>2 DEF CoordDrained, AfterDrain, CoordPcs
    <3> QED BY <3>1 DEF TypeOK, CoordsOK, Coordinator
  <2>2. FieldsOK' /\ ChannelsOK' /\ OrchsOK' /\ SupsOK' /\ OthersOK'
    BY <1>7 DEF CoordDrained, TypeOK, FieldsOK, ChannelsOK, OrchsOK, SupsOK, OthersOK, flags,
          stops, fields, video, device, starts, sups
  <2> QED BY <2>1, <2>2 DEF TypeOK
<1>8. CASE CoordRefill(g)
  <2>0. frameChan \in Gens
    BY <1>8 DEF CoordRefill, TypeOK, FieldsOK
  <2>a. coord[g].kept \in Seq(Frame) /\ coord[g].kept # <<>>
    BY <1>8 DEF CoordRefill, TypeOK, CoordsOK, Coordinator
  <2>b. Tail(coord[g].kept) \in Seq(Frame) /\ Head(coord[g].kept) \in Frame
    BY <2>a
  <2>1. CoordsOK'
    <3>1. PICK kept \in Seq(Frame), at \in CoordPcs :
            coord' = [coord EXCEPT ![g].kept = kept, ![g].at = at]
      BY <1>8, <2>b DEF CoordRefill, AfterDrain, CoordPcs
    <3> QED BY <3>1 DEF TypeOK, CoordsOK, Coordinator
  <2>2. ChannelsOK'
    <3>1. CASE UNCHANGED queue
      BY <1>8, <3>1 DEF CoordRefill, TypeOK, ChannelsOK
    <3>2. CASE /\ Len(queue[frameChan]) # FrameCap
               /\ queue' = [queue EXCEPT ![frameChan] = Append(@, Head(coord[g].kept))]
      <4>1. PICK q \in Seq(Frame) : q = queue[frameChan] /\ Len(q) <= FrameCap
        BY <2>0, QueueFacts
      <4>2. Append(q, Head(coord[g].kept)) \in Seq(Frame)
            /\ Len(Append(q, Head(coord[g].kept))) <= FrameCap
        BY <2>b, <3>2, <4>1, PipelineAssumption
      <4> QED BY <1>8, <2>0, <3>2, <4>1, <4>2, QueueUpdateOK DEF CoordRefill, TypeOK, ChannelsOK
    <3> QED BY <1>8, <3>1, <3>2 DEF CoordRefill
  <2>3. FieldsOK' /\ OrchsOK' /\ SupsOK' /\ OthersOK'
    BY <1>8 DEF CoordRefill, TypeOK, FieldsOK, OrchsOK, SupsOK, OthersOK, flags, stops,
          fields, video, device, starts, sups
  <2> QED BY <2>1, <2>2, <2>3 DEF TypeOK
<1>9. CASE CoordEnter(g)
  <2>1. CoordsOK'
    BY <1>9 DEF CoordEnter, TypeOK, FieldsOK, CoordsOK, Coordinator
  <2>2. FieldsOK' /\ ChannelsOK' /\ OrchsOK' /\ SupsOK' /\ OthersOK'
    BY <1>9 DEF CoordEnter, TypeOK, FieldsOK, ChannelsOK, OrchsOK, SupsOK, OthersOK, flags,
          stops, fields, video, device, starts, sups
  <2> QED BY <2>1, <2>2 DEF TypeOK
<1>10. CASE CoordSend(g)
  <2>0. PICK c \in Gens : c = coord[g].on
    BY <1>10 DEF CoordSend, TypeOK, CoordsOK, Coordinator
  <2>1. CoordsOK'
    BY <1>10, CoordSelectsOK DEF CoordSend, TypeOK, CoordsOK, flags, stops, fields, video,
          device, starts, sups, FieldsOK
  <2>2. ChannelsOK'
    <3>1. coord[g].hold \in Seq(Frame) /\ Len(coord[g].hold) <= 1
      BY DEF TypeOK, CoordsOK, Coordinator
    <3>2. CASE c \in closed
      BY <1>10, <2>0, <3>2 DEF CoordSend, TypeOK, ChannelsOK
    <3>3. CASE c \notin closed
      <4> DEFINE q == queue[c] \o coord[g].hold
      <4>1. queue[c] \in Seq(Frame) /\ Len(queue[c]) < FrameCap
        BY <1>10, <2>0, <3>3, QueueFacts DEF CoordSend
      <4>2. q \in Seq(Frame) /\ Len(q) = Len(queue[c]) + Len(coord[g].hold)
        BY <3>1, <4>1
      <4>3. Len(queue[c]) \in Nat /\ Len(coord[g].hold) \in Nat /\ FrameCap \in Nat
        BY <3>1, <4>1, PipelineAssumption
      <4>4. Len(q) <= FrameCap
        <5>1. \A a, b, d \in Nat : a < d /\ b <= 1 => a + b <= d
          OBVIOUS
        <5>2. Len(queue[c]) + Len(coord[g].hold) <= FrameCap
          BY <3>1, <4>1, <4>3, <5>1
        <5> QED BY <4>2, <5>2
      <4>5. queue' = [queue EXCEPT ![c] = q]
        BY <1>10, <2>0, <3>3 DEF CoordSend
      <4> QED BY <1>10, <4>2, <4>4, <4>5, QueueUpdateOK DEF CoordSend, TypeOK, ChannelsOK
    <3> QED BY <3>2, <3>3
  <2>3. FieldsOK' /\ OrchsOK' /\ SupsOK' /\ OthersOK'
    BY <1>10 DEF CoordSend, TypeOK, FieldsOK, OrchsOK, SupsOK, OthersOK, flags, stops,
          fields, video, device, starts, sups
  <2> QED BY <2>1, <2>2, <2>3 DEF TypeOK
<1>11. CASE CoordGiveUp(g)
  <2>1. CoordsOK'
    BY <1>11, CoordSelectsOK DEF CoordGiveUp, TypeOK, CoordsOK, flags, stops, fields,
          video, device, starts, sups, FieldsOK
  <2>2. FieldsOK' /\ ChannelsOK' /\ OrchsOK' /\ SupsOK' /\ OthersOK'
    BY <1>11 DEF CoordGiveUp, TypeOK, FieldsOK, ChannelsOK, OrchsOK, SupsOK, OthersOK,
          flags, stops, fields, video, device, starts, sups
  <2> QED BY <2>1, <2>2 DEF TypeOK
<1>12. CASE CoordClose(g)
  <2>1. CoordsOK'
    BY <1>12, CoordMovesOK DEF CoordClose, TypeOK, CoordsOK, flags, stops, fields, video,
          device, starts, sups, CoordPcs
  <2>2. ChannelsOK'
    BY <1>12 DEF CoordClose, TypeOK, ChannelsOK, flags, stops, fields, video, device, starts, sups,
          FieldsOK
  <2>3. FieldsOK' /\ OrchsOK' /\ SupsOK' /\ OthersOK'
    BY <1>12 DEF CoordClose, TypeOK, FieldsOK, OrchsOK, SupsOK, OthersOK, flags, stops,
          fields, video, device, starts, sups
  <2> QED BY <2>1, <2>2, <2>3 DEF TypeOK
<1>13. CASE CoordExit(g)
  <2>1. CoordsOK'
    <3>1. [IdleCoord EXCEPT !.at = "done"] \in Coordinator
      BY EmptyOK DEF IdleCoord, Coordinator, CoordPcs
    <3>2. Len([IdleCoord EXCEPT !.at = "done"].hold) <= 1
      BY EmptyOK DEF IdleCoord
    <3> QED BY <1>13, <3>1, <3>2, CoordUpdateOK DEF CoordExit, TypeOK
  <2>2. FieldsOK'
    BY <1>13 DEF CoordExit, TypeOK, FieldsOK, flags, stops, fields, video, device, starts, sups
  <2>3. ChannelsOK' /\ OrchsOK' /\ SupsOK' /\ OthersOK'
    BY <1>13 DEF CoordExit, TypeOK, ChannelsOK, OrchsOK, SupsOK, OthersOK, flags, stops,
          fields, video, device, starts, sups
  <2> QED BY <2>1, <2>2, <2>3 DEF TypeOK
<1> QED
  BY <1>1, <1>2, <1>3, <1>4, <1>5, <1>6, <1>7, <1>8, <1>9, <1>10, <1>11, <1>12, <1>13 DEF CoordStep

LEMMA OrchUpdateOK ==
  ASSUME OrchsOK, NEW g \in Gens, NEW o \in Orchestrator, orch' = [orch EXCEPT ![g] = o]
  PROVE  OrchsOK'
BY DEF OrchsOK

\* Taking the head of a generation's mailbox.
LEMMA MailFacts ==
  ASSUME TypeOK, NEW g \in Gens, mailbox[g] # <<>>
  PROVE  /\ Head(mailbox[g]) \in Msg
         /\ [mailbox EXCEPT ![g] = Tail(@)] \in [Gens -> Seq(Msg)]
<1>1. mailbox[g] \in Seq(Msg)
  BY DEF TypeOK, ChannelsOK
<1>2. Head(mailbox[g]) \in Msg /\ Tail(mailbox[g]) \in Seq(Msg)
  BY <1>1
<1> QED BY <1>2 DEF TypeOK, ChannelsOK

LEMMA HandledOK ==
  ASSUME TypeOK, NEW g \in Gens, NEW o \in Orchestrator, mailbox[g] # <<>>, Handled(g, o)
  PROVE  OrchsOK' /\ consumers' \in {0, 1} /\ mailbox' \in [Gens -> Seq(Msg)]
<1>1. [o EXCEPT !.at = "loop", !.on = NoGen] \in Orchestrator
  BY DEF Orchestrator, OrchPcs
<1>2. OrchsOK'
  BY <1>1, OrchUpdateOK DEF Handled, TypeOK
<1> QED BY <1>2, MailFacts DEF Handled, Recalc

LEMMA AnsweredOK == ASSUME SupsOK, NEW k \in Sups, Answered(k) PROVE SupsOK'
BY DEF Answered, SupsOK, Supervisor

LEMMA OrchStepOK == ASSUME TypeOK, NEW g \in Gens, OrchStep(g) PROVE TypeOK'
<1>0. orch[g] \in Orchestrator
  BY DEF TypeOK, OrchsOK
<1>1. CASE OrchWait(g)
  <2>1. OrchsOK'
    <3> DEFINE o == [orch[g] EXCEPT !.at = "select", !.on = frameChan]
    <3>1. o \in Orchestrator
      BY <1>0 DEF Orchestrator, OrchPcs, TypeOK, FieldsOK
    <3>2. orch' = [orch EXCEPT ![g] = o]
      BY <1>1 DEF OrchWait
    <3> QED BY <3>1, <3>2, OrchUpdateOK DEF TypeOK
  <2>2. FieldsOK' /\ ChannelsOK' /\ CoordsOK' /\ SupsOK' /\ OthersOK'
    BY <1>1 DEF OrchWait, TypeOK, FieldsOK, ChannelsOK, CoordsOK, SupsOK, OthersOK, flags,
       stops, fields, video, device, starts, sups
  <2> QED BY <2>1, <2>2 DEF TypeOK
<1>2. CASE OrchAdd(g)
  <2>1. mailbox[g] # <<>> /\ Head(mailbox[g]) \in Msg
    BY <1>2, MailFacts DEF OrchAdd
  <2> DEFINE m == Head(mailbox[g])
             o == [orch[g] EXCEPT !.subs[m.session] = m.sub]
  <2>2. o \in Orchestrator
    BY <1>0, <1>2, <2>1 DEF OrchAdd, Orchestrator, Msg, Subs, NoSub
  <2>3. Handled(g, o)
    BY <1>2 DEF OrchAdd
  <2> HIDE DEF o
  <2>4. OrchsOK' /\ SupsOK' /\ consumers' \in {0, 1} /\ mailbox' \in [Gens -> Seq(Msg)]
    <3>1. Head(mailbox[g]).by \in Sups /\ Answered(Head(mailbox[g]).by)
      BY <1>2, <2>1 DEF OrchAdd, Msg
    <3> QED BY <2>1, <2>2, <2>3, <3>1, HandledOK, AnsweredOK DEF TypeOK
  <2>5. subState' \in [Subs -> {"unused", "made", "open", "closed"}] /\ panicked' \in BOOLEAN
    BY <1>2 DEF OrchAdd, TypeOK, ChannelsOK
  <2>6. FieldsOK'
    BY <1>2, <2>4 DEF OrchAdd, TypeOK, FieldsOK, flags, stops, fields
  <2>7. ChannelsOK'
    BY <1>2, <2>4, <2>5 DEF OrchAdd, TypeOK, ChannelsOK, video
  <2>8. CoordsOK' /\ OthersOK'
    BY <1>2 DEF OrchAdd, TypeOK, CoordsOK, OthersOK, device, starts, sups
  <2> QED BY <2>4, <2>6, <2>7, <2>8 DEF TypeOK
<1>3. CASE OrchRemove(g)
  <2>1. mailbox[g] # <<>> /\ Head(mailbox[g]) \in Msg
    BY <1>3, MailFacts DEF OrchRemove
  <2> DEFINE m == Head(mailbox[g])
             o == [orch[g] EXCEPT !.subs[m.session] = NoSub]
  <2>2. o \in Orchestrator
    BY <1>0, <1>3, <2>1 DEF OrchRemove, Orchestrator, Msg, Subs, NoSub
  <2>3. Handled(g, o)
    BY <1>3 DEF OrchRemove
  <2> HIDE DEF o
  <2>4. OrchsOK' /\ SupsOK' /\ consumers' \in {0, 1} /\ mailbox' \in [Gens -> Seq(Msg)]
    <3>1. Head(mailbox[g]).by \in Sups /\ Answered(Head(mailbox[g]).by)
      BY <1>3, <2>1 DEF OrchRemove, Msg
    <3> QED BY <2>1, <2>2, <2>3, <3>1, HandledOK, AnsweredOK DEF TypeOK
  <2>5. subState' \in [Subs -> {"unused", "made", "open", "closed"}] /\ panicked' \in BOOLEAN
    BY <1>3 DEF OrchRemove, TypeOK, ChannelsOK, CloseSubs
  <2>6. FieldsOK'
    BY <1>3, <2>4 DEF OrchRemove, TypeOK, FieldsOK, flags, stops, fields
  <2>7. ChannelsOK'
    BY <1>3, <2>4, <2>5 DEF OrchRemove, TypeOK, ChannelsOK, video
  <2>8. CoordsOK' /\ OthersOK'
    BY <1>3 DEF OrchRemove, TypeOK, CoordsOK, OthersOK, device, starts, sups
  <2> QED BY <2>4, <2>6, <2>7, <2>8 DEF TypeOK
<1>4. CASE OrchActive(g)
  <2>1. mailbox[g] # <<>> /\ Head(mailbox[g]) \in Msg
    BY <1>4, MailFacts DEF OrchActive
  <2> DEFINE m == Head(mailbox[g])
             o == [orch[g] EXCEPT !.active = m.on]
  <2>2. o \in Orchestrator
    BY <1>0, <1>4, <2>1 DEF OrchActive, Orchestrator, Msg, Subs, NoSub
  <2>3. Handled(g, o)
    BY <1>4 DEF OrchActive
  <2> HIDE DEF o
  <2>4. OrchsOK' /\ SupsOK' /\ consumers' \in {0, 1} /\ mailbox' \in [Gens -> Seq(Msg)]
    BY <1>4, <2>1, <2>2, <2>3, HandledOK DEF OrchActive, TypeOK, SupsOK, sups
  <2>5. subState' \in [Subs -> {"unused", "made", "open", "closed"}] /\ panicked' \in BOOLEAN
    BY <1>4 DEF OrchActive, TypeOK, ChannelsOK
  <2>6. FieldsOK'
    BY <1>4, <2>4 DEF OrchActive, TypeOK, FieldsOK, flags, stops, fields
  <2>7. ChannelsOK'
    BY <1>4, <2>4, <2>5 DEF OrchActive, TypeOK, ChannelsOK, video
  <2>8. CoordsOK' /\ OthersOK'
    BY <1>4 DEF OrchActive, TypeOK, CoordsOK, OthersOK, device, starts, sups
  <2> QED BY <2>4, <2>6, <2>7, <2>8 DEF TypeOK
<1>5. CASE OrchFrame(g)
  <2>1. OrchsOK'
    <3> DEFINE o == [orch[g] EXCEPT !.at = "loop", !.on = NoGen]
    <3>1. o \in Orchestrator
      BY <1>0 DEF Orchestrator, OrchPcs
    <3>2. orch' = [orch EXCEPT ![g] = o]
      BY <1>5 DEF OrchFrame
    <3> QED BY <3>1, <3>2, OrchUpdateOK DEF TypeOK
  <2>2. ChannelsOK'
    <3> DEFINE h == orch[g].on
    <3>1. /\ h \in Gens /\ queue[h] \in Seq(Frame) /\ queue[h] # <<>>
          /\ Len(queue[h]) <= FrameCap /\ FrameCap \in Nat
      BY <1>5, PipelineAssumption DEF OrchFrame, TypeOK, ChannelsOK
    <3>2. Tail(queue[h]) \in Seq(Frame) /\ Len(Tail(queue[h])) <= FrameCap
      BY <3>1
    <3>3. queue' = [queue EXCEPT ![h] = Tail(queue[h])]
      BY <1>5 DEF OrchFrame
    <3>4. panicked' \in BOOLEAN
      BY <1>5 DEF OrchFrame, TypeOK, ChannelsOK
    <3> HIDE DEF h
    <3> QED BY <1>5, <3>1, <3>2, <3>3, <3>4, QueueUpdateOK DEF OrchFrame, TypeOK, ChannelsOK
  <2>3. OthersOK'
    BY <1>5 DEF OrchFrame, TypeOK, OthersOK, device, starts, sups
  <2>4. FieldsOK' /\ CoordsOK' /\ SupsOK'
    BY <1>5 DEF OrchFrame, TypeOK, FieldsOK, CoordsOK, SupsOK, flags, stops, fields, sups
  <2> QED BY <2>1, <2>2, <2>3, <2>4 DEF TypeOK
<1>6. CASE OrchClosed(g)
  <2>1. OrchsOK'
    <3> DEFINE o == [IdleOrch EXCEPT !.at = "released"]
    <3>1. o \in Orchestrator
      BY DEF IdleOrch, Orchestrator, OrchPcs
    <3>2. orch' = [orch EXCEPT ![g] = o]
      BY <1>6 DEF OrchClosed
    <3> QED BY <3>1, <3>2, OrchUpdateOK DEF TypeOK
  <2>2. ChannelsOK'
    BY <1>6 DEF OrchClosed, CloseSubs, TypeOK, ChannelsOK, video
  <2>3. FieldsOK'
    BY <1>6 DEF OrchClosed, TypeOK, FieldsOK, flags, stops, fields
  <2>4. CoordsOK' /\ SupsOK' /\ OthersOK'
    BY <1>6 DEF OrchClosed, TypeOK, CoordsOK, SupsOK, OthersOK, device, starts, sups
  <2> QED BY <2>1, <2>2, <2>3, <2>4 DEF TypeOK
<1>7. CASE OrchExit(g)
  <2>1. OrchsOK'
    <3> DEFINE o == [orch[g] EXCEPT !.at = "done"]
    <3>1. o \in Orchestrator
      BY <1>0 DEF Orchestrator, OrchPcs
    <3>2. orch' = [orch EXCEPT ![g] = o]
      BY <1>7 DEF OrchExit
    <3> QED BY <3>1, <3>2, OrchUpdateOK DEF TypeOK
  <2>2. FieldsOK'
    BY <1>7 DEF OrchExit, TypeOK, FieldsOK, flags, stops
  <2>3. ChannelsOK' /\ CoordsOK' /\ SupsOK' /\ OthersOK'
    BY <1>7 DEF OrchExit, TypeOK, ChannelsOK, CoordsOK, SupsOK, OthersOK, video, device, starts, sups
  <2> QED BY <2>1, <2>2, <2>3 DEF TypeOK
<1> QED
  BY <1>1, <1>2, <1>3, <1>4, <1>5, <1>6, <1>7 DEF OrchStep

\* What the steps of a supervisor leave alone, but for Start, the peers and Stop.
LEMMA SupKeepsOK ==
  ASSUME TypeOK, SupsOK', UNCHANGED <<consumers, video, mailbox, panicked, coord, orch, gateOpen, again,
                                      reader, reads, newestKey, budget, keyTaken, fields>>,
         subState' \in [Subs -> {"unused", "made", "open", "closed"}],
         starter' \in [Sups -> Starter], up' \in BOOLEAN,
         running' \in BOOLEAN, starting' \in BOOLEAN, reading' \in BOOLEAN,
         cancelled' \in BOOLEAN, readStop' \in Nat
  PROVE  TypeOK'
<1>1. FieldsOK'
  BY DEF TypeOK, FieldsOK, fields
<1>2. ChannelsOK'
  BY DEF TypeOK, ChannelsOK, video
<1>3. CoordsOK' /\ OrchsOK' /\ OthersOK'
  BY DEF TypeOK, CoordsOK, OrchsOK, OthersOK
<1> QED BY <1>1, <1>2, <1>3 DEF TypeOK

\* The steps that move a supervisor and nothing else.
LEMMA SupMovesOK ==
  ASSUME TypeOK, SupsOK', UNCHANGED <<flags, stops, fields, consumers, video, mailbox, subState, panicked,
                                      starts, gateOpen, reader, coord, orch, device, keyTaken>>
  PROVE  TypeOK'
<1>1. /\ UNCHANGED <<consumers, video, mailbox, panicked, coord, orch, gateOpen, again,
                     reader, reads, newestKey, budget, keyTaken, fields>>
      /\ UNCHANGED <<subState, starter, up, running, starting, reading, cancelled, readStop>>
  BY DEF flags, stops, starts, device
<1>2. /\ subState \in [Subs -> {"unused", "made", "open", "closed"}]
      /\ starter \in [Sups -> Starter] /\ up \in BOOLEAN
      /\ running \in BOOLEAN /\ starting \in BOOLEAN /\ reading \in BOOLEAN
      /\ cancelled \in BOOLEAN /\ readStop \in Nat
  BY DEF TypeOK, FieldsOK, ChannelsOK, OthersOK
<1> QED BY <1>1, <1>2, SupKeepsOK

LEMMA SupRecordOK ==
  ASSUME SupsOK, NEW k \in Sups, NEW r \in Supervisor, sup' = [sup EXCEPT ![k] = r],
         r.at # "idle" => r.to \in Gens /\ r.todo # <<>>
  PROVE  SupsOK'
BY DEF SupsOK

LEMMA MsgsOK ==
  /\ \A k \in Sups, s \in Sessions, c \in Subs : AddMsg(k, s, c) \in Msg
  /\ \A k \in Sups, s \in Sessions : RemoveMsg(k, s) \in Msg
  /\ \A on \in BOOLEAN : ActiveMsg(on) \in Msg
BY DEF AddMsg, RemoveMsg, ActiveMsg, Msg

LEMMA SeqsOK ==
  /\ <<>> \in Seq(Msg)
  /\ \A a \in Msg : <<a>> \in Seq(Msg)
  /\ \A q \in Seq(Msg), a \in Msg : Append(q, a) \in Seq(Msg)
  /\ \A q \in Seq(Msg) : q # <<>> => Head(q) \in Msg /\ Tail(q) \in Seq(Msg)
OBVIOUS

LEMMA TakeoutOK ==
  ASSUME NEW k \in Sups, NEW s \in Sessions
  PROVE  Takeout(k, s) \in Seq(Msg)
BY MsgsOK, SeqsOK DEF Takeout

LEMMA SupGoesOnOK ==
  ASSUME SupsOK, NEW k \in Sups, sup[k].todo # <<>>, SupGoesOn(k)
  PROVE  SupsOK'
<1> DEFINE r == [sup[k] EXCEPT !.todo = Tail(@), !.at = "idle", !.to = NoGen, !.acked = FALSE]
<1>1. Tail(sup[k].todo) \in Seq(Msg)
  BY SeqsOK DEF SupsOK, Supervisor
<1>2. r \in Supervisor /\ r.at = "idle"
  BY <1>1 DEF SupsOK, Supervisor
<1>3. sup' = [sup EXCEPT ![k] = r]
  BY DEF SupGoesOn
<1> QED BY <1>2, <1>3, SupRecordOK

LEMMA SupStepOK == ASSUME TypeOK, NEW k \in Sups, SupStep(k) PROVE TypeOK'
<1>0. /\ SupsOK /\ sup[k] \in Supervisor
      /\ (sup[k].at # "idle" => sup[k].to \in Gens /\ sup[k].todo # <<>>)
      /\ sup[k].todo \in Seq(Msg) /\ sup[k].peers \subseteq Sessions
      /\ \A j \in Sups : sup[j].peers \subseteq Sessions
  BY DEF TypeOK, SupsOK, Supervisor
<1>a. ASSUME NEW stage \in SupStages, sup' = [sup EXCEPT ![k].stage = stage]
      PROVE  SupsOK'
  BY <1>0, <1>a DEF SupsOK, Supervisor
<1>1. CASE SupReserve(k)
  <2>1. <<ActiveMsg(TRUE)>> \in Seq(Msg)
    BY MsgsOK, SeqsOK
  <2>2. SupsOK'
    BY <1>0, <1>1, <2>1 DEF SupReserve, Ready, SupsOK, Supervisor, SupStages
  <2> QED BY <1>1, <2>2, SupMovesOK DEF SupReserve
<1>2. CASE SupReserved(k)
  <2>1. SupsOK'
    BY <1>2, <1>a DEF SupReserved, SupStages
  <2>2. starter' \in [Sups -> Starter]
    BY <1>2 DEF SupReserved, TypeOK, OthersOK, Starter, StarterPcs
  <2> QED BY <1>2, <2>1, <2>2, SupKeepsOK DEF SupReserved, flags, stops, device, TypeOK, FieldsOK,
          ChannelsOK, OthersOK
<1>3. CASE SupStartDone(k)
  <2>1. SupsOK'
    BY <1>0, <1>3 DEF SupStartDone, sups, SupsOK
  <2>2. starter' \in [Sups -> Starter]
    BY <1>3 DEF SupStartDone, StarterMoves, TypeOK, OthersOK, Starter, StarterPcs
  <2> QED BY <1>3, <2>1, <2>2, SupKeepsOK DEF SupStartDone, flags, stops, device, TypeOK, FieldsOK,
          ChannelsOK, OthersOK
<1>4. CASE SupRegister(k)
  <2>1. PICK s \in Sessions, c \in 1 .. budget.subs :
          /\ sup' = [sup EXCEPT ![k].todo = Append(Takeout(k, s), AddMsg(k, s, c)),
                                ![k].peers = @ \cup {s}]
          /\ subState' = [subState EXCEPT ![c] = "made"]
    BY <1>4 DEF SupRegister
  <2>2. c \in Subs
    BY GenFacts DEF TypeOK, OthersOK
  <2>3. Append(Takeout(k, s), AddMsg(k, s, c)) \in Seq(Msg)
    BY <2>2, MsgsOK, SeqsOK, TakeoutOK
  <2>4. SupsOK'
    BY <1>0, <1>4, <2>1, <2>3 DEF SupRegister, Ready, SupsOK, Supervisor
  <2>5. subState' \in [Subs -> {"unused", "made", "open", "closed"}]
    BY <2>1, <2>2 DEF TypeOK, ChannelsOK
  <2> QED BY <1>4, <2>4, <2>5, SupKeepsOK DEF SupRegister, flags, stops, starts, device, TypeOK,
          FieldsOK, OthersOK
<1>5. CASE SupPeerClose(k) \/ SupClear(k)
  <2>1. PICK s \in UNION {sup[j].peers : j \in Sups} :
          sup' = [sup EXCEPT ![k].todo = Takeout(k, s), ![k].peers = @ \ {s}]
    BY <1>5 DEF SupPeerClose, SupClear
  <2>2. s \in Sessions
    BY <1>0, <2>1
  <2>3. Takeout(k, s) \in Seq(Msg)
    BY <2>2, TakeoutOK
  <2>4. SupsOK'
    <3> DEFINE r == [sup[k] EXCEPT !.todo = Takeout(k, s), !.peers = @ \ {s}]
    <3>1. sup' = [sup EXCEPT ![k] = r]
      BY <2>1
    <3>2. r \in Supervisor /\ r.at = sup[k].at
      BY <1>0, <2>3 DEF Supervisor
    <3>3. sup[k].at = "idle"
      BY <1>5 DEF SupPeerClose, SupClear, Ready
    <3> HIDE DEF r
    <3> QED BY <1>0, <3>1, <3>2, <3>3, SupRecordOK
  <2> QED BY <1>5, <2>4, SupMovesOK DEF SupPeerClose, SupClear
<1>6. CASE SupTeardown(k)
  <2>1. SupsOK'
    BY <1>6, <1>a DEF SupTeardown, SupStages
  <2> QED BY <1>6, <2>1, SupMovesOK DEF SupTeardown
<1>7. CASE SupUnlist(k)
  <2>1. <<ActiveMsg(FALSE)>> \in Seq(Msg)
    BY MsgsOK, SeqsOK
  <2>2. CASE sup' = [sup EXCEPT ![k].stage = "stop", ![k].todo = <<ActiveMsg(FALSE)>>]
    <3>1. SupsOK'
      <4> DEFINE r == [sup[k] EXCEPT !.stage = "stop", !.todo = <<ActiveMsg(FALSE)>>]
      <4>1. sup' = [sup EXCEPT ![k] = r]
        BY <2>2
      <4>2. r \in Supervisor /\ r.at = sup[k].at
        BY <1>0, <2>1 DEF Supervisor, SupStages
      <4>3. sup[k].at = "idle"
        BY <1>7 DEF SupUnlist, Ready
      <4> HIDE DEF r
      <4> QED BY <1>0, <4>1, <4>2, <4>3, SupRecordOK
    <3> QED BY <1>7, <3>1, SupMovesOK DEF SupUnlist
  <2>3. CASE sup' = [sup EXCEPT ![k].stage = "drain"]
    <3>1. SupsOK'
      BY <2>3, <1>a DEF SupStages
    <3> QED BY <1>7, <3>1, SupMovesOK DEF SupUnlist
  <2> QED BY <1>7, <2>2, <2>3 DEF SupUnlist
<1>8. CASE SupLook(k)
  <2>1. SupsOK'
    <3>1. Tail(sup[k].todo) \in Seq(Msg) /\ streamCtrl \in Gens \cup {NoGen}
      BY <1>0, <1>8, SeqsOK DEF SupLook, TypeOK, FieldsOK
    <3> QED BY <1>0, <1>8, <3>1 DEF SupLook, SupsOK, Supervisor
  <2> QED BY <1>8, <2>1, SupMovesOK DEF SupLook
<1>9. CASE SupPost(k)
  <2>1. sup[k].to \in Gens /\ sup[k].todo # <<>> /\ Head(sup[k].todo) \in Msg
    BY <1>0, <1>9, SeqsOK DEF SupPost
  <2>2. SupsOK'
    <3>1. CASE SupGoesOn(k)
      BY <1>0, <2>1, <3>1, SupGoesOnOK
    <3>2. CASE sup' = [sup EXCEPT ![k].at = "wait"]
      BY <1>0, <2>1, <3>2 DEF SupsOK, Supervisor
    <3> QED BY <1>9, <3>1, <3>2 DEF SupPost
  <2>3. mailbox' \in [Gens -> Seq(Msg)]
    <3>1. mailbox[sup[k].to] \in Seq(Msg)
      BY <2>1 DEF TypeOK, ChannelsOK
    <3>2. Append(mailbox[sup[k].to], Head(sup[k].todo)) \in Seq(Msg)
      BY <2>1, <3>1
    <3> QED BY <1>9, <3>2 DEF SupPost, TypeOK, ChannelsOK
  <2>4. ChannelsOK'
    BY <1>9, <2>3 DEF SupPost, TypeOK, ChannelsOK, video
  <2>5. FieldsOK' /\ CoordsOK' /\ OrchsOK' /\ OthersOK'
    BY <1>9 DEF SupPost, TypeOK, FieldsOK, CoordsOK, OrchsOK, OthersOK, flags, stops, fields, device,
       starts
  <2> QED BY <2>2, <2>4, <2>5 DEF TypeOK
<1>10. CASE SupPostTimeout(k) \/ SupAcked(k)
  <2>1. SupsOK'
    BY <1>0, <1>10, SupGoesOnOK DEF SupPostTimeout, SupAcked
  <2> QED BY <1>10, <2>1, SupMovesOK DEF SupPostTimeout, SupAcked
<1>11. CASE SupStop(k)
  <2>1. CASE UNCHANGED <<flags, stops>> /\ sup' = [sup EXCEPT ![k].stage = "drain"]
    <3>1. SupsOK'
      BY <2>1, <1>a DEF SupStages
    <3> QED BY <1>11, <2>1, <3>1, SupMovesOK DEF SupStop
  <2>2. CASE /\ running' = FALSE /\ starting' = FALSE /\ reading' = FALSE /\ cancelled' = TRUE
             /\ readStop' = IF reading THEN readStop + 1 ELSE readStop
             /\ sup' = [sup EXCEPT ![k].stage = IF reading THEN "wait" ELSE "end"]
    <3>1. readStop' \in Nat
      BY <2>2 DEF TypeOK, FieldsOK
    <3>2. SupsOK'
      BY <2>2, <1>a DEF SupStages
    <3> QED BY <1>11, <2>2, <3>1, <3>2, SupKeepsOK DEF SupStop, starts, device, TypeOK, ChannelsOK,
            OthersOK
  <2> QED BY <1>11, <2>1, <2>2 DEF SupStop
<1>12. CASE SupWaited(k)
  <2>1. SupsOK'
    BY <1>12, <1>a DEF SupWaited, SupStages
  <2> QED BY <1>12, <2>1, SupMovesOK DEF SupWaited
<1>13. CASE SupStopped(k)
  <2>1. SupsOK'
    BY <1>13, <1>a DEF SupStopped, SupStages
  <2> QED BY <1>13, <2>1, SupKeepsOK DEF SupStopped, flags, stops, starts, TypeOK, FieldsOK,
          ChannelsOK, OthersOK
<1> QED
  BY <1>1, <1>2, <1>3, <1>4, <1>5, <1>6, <1>7, <1>8, <1>9, <1>10, <1>11, <1>12, <1>13
  DEF SupStep, SupFinishes

LEMMA DeviceEndsOK == ASSUME TypeOK, DeviceEnds PROVE TypeOK'
<1>1. FieldsOK' /\ ChannelsOK' /\ CoordsOK'
  BY DEF DeviceEnds, TypeOK, FieldsOK, ChannelsOK, CoordsOK, flags, stops, fields, video
<1>2. OrchsOK' /\ SupsOK' /\ OthersOK'
  BY DEF DeviceEnds, TypeOK, OrchsOK, SupsOK, OthersOK, starts, sups
<1> QED BY <1>1, <1>2 DEF TypeOK

LEMMA InitTypeOK == Init => TypeOK
<1> SUFFICES ASSUME Init PROVE TypeOK
  OBVIOUS
<1>1. FieldsOK /\ OthersOK
  BY DEF Init, FieldsOK, OthersOK, Starter, StarterPcs
<1>2. ChannelsOK
  <2>1. Len(<<>>) <= FrameCap /\ <<>> \in Seq(Frame) /\ <<>> \in Seq(Msg)
    BY EmptyOK, PipelineAssumption
  <2> QED BY <2>1 DEF Init, ChannelsOK
<1>3. CoordsOK
  BY EmptyOK DEF Init, CoordsOK, IdleCoord, Coordinator, CoordPcs
<1>4. OrchsOK
  BY DEF Init, OrchsOK, IdleOrch, Orchestrator, OrchPcs
<1>5. SupsOK
  <2>1. IdleSup \in Supervisor /\ IdleSup.at = "idle"
    BY EmptyOK DEF IdleSup, Supervisor, SupStages
  <2>2. PICK stage \in SupStages : sup = [[k \in Sups |-> IdleSup] EXCEPT ![1].stage = stage]
    BY DEF Init, SupStages
  <2>3. \A k \in Sups : sup[k] = IdleSup \/ sup[k] = [IdleSup EXCEPT !.stage = stage]
    BY <2>2
  <2>4. \A k \in Sups : sup[k] \in Supervisor /\ sup[k].at = "idle"
    BY <2>1, <2>3 DEF Supervisor
  <2>5. sup = [k \in Sups |-> sup[k]]
    BY <2>2
  <2> QED BY <2>4, <2>5 DEF SupsOK
<1> QED BY <1>1, <1>2, <1>3, <1>4, <1>5 DEF TypeOK

LEMMA StepTypeOK == TypeOK /\ [Next]_vars => TypeOK'
<1> SUFFICES ASSUME TypeOK, [Next]_vars PROVE TypeOK'
  OBVIOUS
<1>1. CASE UNCHANGED vars
  BY <1>1 DEF vars, TypeOK, FieldsOK, ChannelsOK, CoordsOK, OrchsOK, SupsOK, OthersOK, flags, stops,
         fields, video, device, starts, sups
<1> QED
  BY <1>1, StartStepOK, ReaderStepOK, CoordStepOK, OrchStepOK, SupStepOK, DeviceEndsOK DEF Next

\* The types of the streamer's fields, channels and goroutines (android_stream.go); a
\* frame channel never holds more than its capacity.
THEOREM PipelineTypeCorrect == Spec => []TypeOK
BY InitTypeOK, StepTypeOK, PTL DEF Spec

-----------------------------------------------------------------------------
(* One reader of the socket                                                 *)

\* A coordinator that lives is the one whose channel is in the field, and sends into no
\* other.
Current == \A g \in Gens : CoordAlive(g) => frameChan = g
OwnChan == \A g \in Gens : coord[g].on \in {NoGen, g}

\* While it lives, reading is set, unless a Stop has cleared it; and a streamer that was
\* stopped neither runs nor starts, until it is started again: so nobody opens a pipeline.
Guarded == (\E g \in Gens : CoordAlive(g)) => reading \/ cancelled
Ended   == cancelled => ~running /\ ~starting

ReadInv == TypeOK /\ ~again /\ Current /\ OwnChan /\ Guarded /\ Ended

LEMMA InitReadInv == Init => ReadInv
<1> SUFFICES ASSUME Init PROVE ReadInv
  OBVIOUS
<1>1. \A g \in Gens : ~CoordAlive(g) /\ coord[g].on = NoGen
  BY DEF Init, CoordAlive, IdleCoord
<1>2. Current /\ OwnChan /\ Guarded
  BY <1>1 DEF Current, OwnChan, Guarded
<1>3. ~again /\ Ended
  BY DEF Init, Ended
<1> QED BY <1>2, <1>3, InitTypeOK DEF ReadInv

\* What the steps of an orchestrator and those of a coordinator leave alone.
LEMMA OrchStepKeeps ==
  ASSUME NEW g \in Gens, OrchStep(g)
  PROVE  /\ UNCHANGED <<flags, stops, frameChan, coord, starts, closed>>
         /\ UNCHANGED <<newestKey, reads, budget>>
<1>1. CASE OrchWait(g) \/ OrchFrame(g) \/ OrchClosed(g) \/ OrchExit(g)
  BY <1>1 DEF OrchWait, OrchFrame, OrchClosed, OrchExit, fields, video, device
<1>2. CASE OrchAdd(g)
  BY <1>2 DEF OrchAdd, fields, video, device
<1>3. CASE OrchRemove(g) \/ OrchActive(g)
  BY <1>3 DEF OrchRemove, OrchActive, fields, video, device
<1> QED BY <1>1, <1>2, <1>3 DEF OrchStep

LEMMA CoordStepKeeps ==
  ASSUME NEW g \in Gens, CoordStep(g)
  PROVE  UNCHANGED <<mailbox, sup, subState, orch, starts>>
<1>1. CASE CoordGate(g) \/ CoordStopped(g) \/ CoordEnd(g) \/ CoordDrop(g) \/ CoordRead(g)
  BY <1>1 DEF CoordGate, CoordStopped, CoordEnd, CoordDrop, CoordRead, sups
<1>2. CASE CoordDrain(g) \/ CoordDrained(g) \/ CoordRefill(g) \/ CoordEnter(g)
  BY <1>2 DEF CoordDrain, CoordDrained, CoordRefill, CoordEnter, sups
<1>3. CASE CoordSend(g) \/ CoordGiveUp(g) \/ CoordClose(g) \/ CoordExit(g)
  BY <1>3 DEF CoordSend, CoordGiveUp, CoordClose, CoordExit, sups
<1> QED BY <1>1, <1>2, <1>3 DEF CoordStep

\* A streamer started again after its context had ended stays one.
LEMMA AgainStays == TypeOK /\ [Next]_vars /\ again => again'
<1> SUFFICES ASSUME TypeOK, [Next]_vars, again PROVE again'
  OBVIOUS
<1>1. ASSUME NEW k \in Sups, StartBegin(k) \/ StartStep(k) \/ SupStep(k) PROVE again'
  BY <1>1 DEF StartBegin, StartStep, StartConnect, StartPipeline, StartOpenGate, StartFinish,
         StartReturn, SupStep, SupFinishes, SupReserve, SupReserved, SupStartDone, SupRegister,
         SupPeerClose, SupTeardown, SupClear, SupUnlist, SupLook, SupPost, SupPostTimeout, SupAcked,
         SupStop, SupWaited, SupStopped, starts
<1>2. ASSUME NEW r \in Readers, ReaderStep(r) PROVE again'
  BY <1>2 DEF ReaderStep, ReaderCheck, ReaderPipeline, starts
<1>3. ASSUME NEW g \in Gens, CoordStep(g) \/ OrchStep(g) PROVE again'
  BY <1>3, CoordStepKeeps, OrchStepKeeps DEF starts
<1>4. CASE DeviceEnds
  BY <1>4 DEF DeviceEnds, starts
<1>5. CASE UNCHANGED vars
  BY <1>5 DEF vars, starts
<1> QED BY <1>1, <1>2, <1>3, <1>4, <1>5 DEF Next

LEMMA KeepsRead ==
  ASSUME ReadInv, TypeOK', ~again', UNCHANGED <<coord, frameChan>>, cancelled => cancelled',
         UNCHANGED reading \/ cancelled', Ended'
  PROVE  ReadInv'
BY DEF ReadInv, Current, OwnChan, Guarded, CoordAlive

\* A coordinator that lives moves on.
LEMMA CoordKeepsRead ==
  ASSUME ReadInv, TypeOK', ~again', UNCHANGED <<flags, stops, fields>>,
         NEW g \in Gens, CoordAlive(g), \A h \in Gens \ {g} : coord'[h] = coord[h],
         coord'[g].on \in {NoGen, g}
  PROVE  ReadInv'
<1>1. \A h \in Gens : CoordAlive(h)' => CoordAlive(h)
  BY DEF CoordAlive
<1> QED BY <1>1 DEF ReadInv, Current, OwnChan, Guarded, Ended, flags, stops, fields

\* A generation is opened only when no coordinator lives.
LEMMA OpensRead ==
  ASSUME ReadInv, TypeOK', ~again', NEW g \in Gens, NEW gated \in BOOLEAN, MayPipe,
         OpenPipeline(g, gated), UNCHANGED <<running, starting, stops>>
  PROVE  ReadInv'
<1>1. \A h \in Gens : ~CoordAlive(h)
  BY DEF ReadInv, Guarded, Ended, MayPipe
<1>2. /\ frameChan' = g /\ reading' = TRUE
      /\ coord' = [coord EXCEPT ![g].at = IF gated THEN "gate" ELSE "select", ![g].stop = readStop]
  BY DEF OpenPipeline
<1>3. \A h \in Gens \ {g} : coord'[h] = coord[h]
  BY <1>2 DEF ReadInv, TypeOK, CoordsOK
<1>4. \A h \in Gens : coord'[h].on = coord[h].on
  BY <1>2 DEF ReadInv, TypeOK, CoordsOK, Coordinator
<1>5. \A h \in Gens : CoordAlive(h)' => h = g
  BY <1>1, <1>3 DEF CoordAlive
<1> QED BY <1>2, <1>4, <1>5 DEF ReadInv, Current, OwnChan, Guarded, Ended, stops

LEMMA StartStepRead ==
  ASSUME ReadInv, TypeOK', ~again', NEW k \in Sups, StartBegin(k) \/ StartStep(k)
  PROVE  ReadInv'
<1>1. CASE StartBegin(k)
  <2>1. UNCHANGED <<coord, frameChan, cancelled, reading, running>>
    BY <1>1 DEF StartBegin, stops, fields
  <2>2. starting' => starting \/ ~cancelled
    BY <1>1 DEF StartBegin
  <2>3. Ended'
    BY <2>1, <2>2, Zenon DEF ReadInv, Ended
  <2> QED BY <2>1, <2>3, KeepsRead
<1>2. CASE StartConnect(k)
  <2>1. UNCHANGED <<running, reading, cancelled, coord, frameChan>>
    BY <1>2 DEF StartConnect, stops, fields
  <2>2. starting' = starting \/ starting' = FALSE
    BY <1>2 DEF StartConnect
  <2>3. Ended'
    BY <2>1, <2>2, Zenon DEF ReadInv, Ended
  <2> QED BY <2>1, <2>3, KeepsRead
<1>3. CASE StartPipeline(k)
  <2>1. CASE MayPipe /\ \E g \in Gens : OpenPipeline(g, TRUE)
    BY <1>3, <2>1, OpensRead DEF StartPipeline
  <2>2. CASE UNCHANGED <<reading, fields, coord, orch>>
    BY <1>3, <2>2, KeepsRead DEF StartPipeline, ReadInv, Ended, stops, fields
  <2> QED BY <1>3, <2>1, <2>2 DEF StartPipeline
<1>4. CASE StartOpenGate(k)
  BY <1>4, KeepsRead DEF StartOpenGate, ReadInv, Ended, stops, fields, flags
<1>5. CASE StartFinish(k)
  BY <1>5, KeepsRead DEF StartFinish, ReadInv, Ended, stops, fields
<1>6. CASE StartReturn(k)
  BY <1>6, KeepsRead DEF StartReturn, ReadInv, Ended, stops, fields
<1> QED BY <1>1, <1>2, <1>3, <1>4, <1>5, <1>6 DEF StartStep

LEMMA ReaderStepRead ==
  ASSUME ReadInv, TypeOK', ~again', NEW r \in Readers, ReaderStep(r)
  PROVE  ReadInv'
<1>1. CASE ReaderCheck(r)
  BY <1>1, KeepsRead DEF ReaderCheck, ReadInv, Ended, stops, fields, flags
<1>2. CASE ReaderPipeline(r)
  <2>1. CASE MayPipe /\ \E g \in Gens : OpenPipeline(g, FALSE)
    BY <1>2, <2>1, OpensRead DEF ReaderPipeline
  <2>2. CASE UNCHANGED <<reading, fields, coord, orch>>
    BY <1>2, <2>2, KeepsRead DEF ReaderPipeline, ReadInv, Ended, stops, fields
  <2> QED BY <1>2, <2>1, <2>2 DEF ReaderPipeline
<1> QED BY <1>1, <1>2 DEF ReaderStep

\* What the steps of a coordinator have in common.
LEMMA CoordStepMoves ==
  ASSUME TypeOK, NEW g \in Gens, CoordStep(g)
  PROVE  /\ CoordAlive(g) /\ \A h \in Gens \ {g} : coord'[h] = coord[h]
         /\ UNCHANGED <<running, starting, stops, fields>>
         /\ UNCHANGED reading \/ CoordExit(g)
         /\ coord'[g].on \in {NoGen, coord[g].on, frameChan}
<1>0. coord[g] \in Coordinator /\ coord \in [Gens -> Coordinator]
  BY DEF TypeOK, CoordsOK
<1>1. CASE CoordGate(g) \/ CoordDrop(g)
  BY <1>0, <1>1 DEF CoordGate, CoordDrop, CoordSelects, CoordAlive, Coordinator, flags
<1>2. CASE CoordStopped(g) \/ CoordEnd(g)
  BY <1>0, <1>2 DEF CoordStopped, CoordEnd, CoordMoves, CoordAlive, Coordinator, flags
<1>3. CASE CoordRead(g)
  BY <1>0, <1>3 DEF CoordRead, CoordAlive, Coordinator, flags
<1>4. CASE CoordDrain(g)
  BY <1>0, <1>4 DEF CoordDrain, CoordAlive, Coordinator, flags
<1>5. CASE CoordDrained(g)
  BY <1>0, <1>5 DEF CoordDrained, CoordAlive, Coordinator, flags
<1>6. CASE CoordRefill(g)
  BY <1>0, <1>6 DEF CoordRefill, CoordAlive, Coordinator, flags
<1>7. CASE CoordEnter(g)
  BY <1>0, <1>7 DEF CoordEnter, CoordAlive, Coordinator, flags
<1>8. CASE CoordSend(g) \/ CoordGiveUp(g)
  BY <1>0, <1>8 DEF CoordSend, CoordGiveUp, CoordSelects, CoordAlive, Coordinator, flags
<1>9. CASE CoordClose(g)
  BY <1>0, <1>9 DEF CoordClose, CoordMoves, CoordAlive, Coordinator, flags
<1>10. CASE CoordExit(g)
  BY <1>0, <1>10 DEF CoordExit, CoordAlive, IdleCoord
<1> QED
  BY <1>1, <1>2, <1>3, <1>4, <1>5, <1>6, <1>7, <1>8, <1>9, <1>10 DEF CoordStep

LEMMA CoordStepRead ==
  ASSUME ReadInv, TypeOK', ~again', NEW g \in Gens, CoordStep(g)
  PROVE  ReadInv'
<1>0. /\ CoordAlive(g) /\ \A h \in Gens \ {g} : coord'[h] = coord[h]
      /\ UNCHANGED <<running, starting, stops, fields>>
      /\ UNCHANGED reading \/ CoordExit(g)
      /\ coord'[g].on \in {NoGen, coord[g].on, frameChan}
  BY CoordStepMoves DEF ReadInv
<1>a. coord'[g].on \in {NoGen, g}
  BY <1>0 DEF ReadInv, Current, OwnChan
<1>1. CASE UNCHANGED reading
  BY <1>0, <1>a, <1>1, CoordKeepsRead DEF flags
<1>2. CASE CoordExit(g)
  <2>1. coord'[g].at = "done"
    BY <1>2 DEF CoordExit, IdleCoord, ReadInv, TypeOK, CoordsOK
  <2>2. \A h \in Gens : ~CoordAlive(h)'
    BY <1>0, <2>1 DEF ReadInv, Current, CoordAlive
  <2> QED BY <1>0, <1>a, <2>2 DEF ReadInv, Current, OwnChan, Guarded, Ended, stops
<1> QED BY <1>0, <1>1, <1>2

LEMMA OrchStepRead ==
  ASSUME ReadInv, TypeOK', ~again', NEW g \in Gens, OrchStep(g)
  PROVE  ReadInv'
<1>1. UNCHANGED <<flags, stops, frameChan, coord>>
  BY OrchStepKeeps
<1> QED BY <1>1, KeepsRead DEF ReadInv, Ended, flags, stops

LEMMA SupStepRead ==
  ASSUME ReadInv, TypeOK', ~again', NEW k \in Sups, SupStep(k)
  PROVE  ReadInv'
<1>1. UNCHANGED <<fields, coord>>
  BY DEF SupStep, SupFinishes, SupReserve, SupReserved, SupStartDone, SupRegister, SupPeerClose,
         SupTeardown, SupClear, SupUnlist, SupLook, SupPost, SupPostTimeout, SupAcked, SupStop,
         SupWaited, SupStopped
<1>2. \/ UNCHANGED <<flags, stops>>
      \/ ~running' /\ ~starting' /\ cancelled'
  BY DEF SupStep, SupFinishes, SupReserve, SupReserved, SupStartDone, SupRegister, SupPeerClose,
         SupTeardown, SupClear, SupUnlist, SupLook, SupPost, SupPostTimeout, SupAcked, SupStop,
         SupWaited, SupStopped
<1> QED BY <1>1, <1>2 DEF ReadInv, Current, OwnChan, Guarded, Ended, CoordAlive, flags, stops, fields

LEMMA StepReadInv == ReadInv /\ [Next]_vars /\ ~again' => ReadInv'
<1> SUFFICES ASSUME ReadInv, [Next]_vars, ~again' PROVE ReadInv'
  OBVIOUS
<1>0. TypeOK'
  BY StepTypeOK DEF ReadInv
<1>1. CASE UNCHANGED vars \/ DeviceEnds
  <2>1. UNCHANGED <<coord, frameChan, cancelled, reading, running, starting>>
    BY <1>1 DEF vars, DeviceEnds, flags, stops, fields
  <2> QED BY <1>0, <2>1, KeepsRead DEF ReadInv, Ended
<1> QED
  BY <1>0, <1>1, StartStepRead, ReaderStepRead, CoordStepRead, OrchStepRead, SupStepRead DEF Next

\* At most one coordinator reads the socket of the device (startVideoPipelineWithGate,
\* StartReading, Stop), for any number of supervisors, handlers and generations, until a
\* streamer that was stopped is started again.
THEOREM OneReaderAtATime == Spec => []OneReader
<1> DEFINE Inv == TypeOK /\ (again \/ ReadInv)
<1>1. Init => Inv
  BY InitReadInv DEF ReadInv
<1>2. Inv /\ [Next]_vars => Inv'
  BY StepTypeOK, AgainStays, StepReadInv
<1>3. Inv => OneReader
  BY DEF ReadInv, Current, OneReader
<1> QED BY <1>1, <1>2, <1>3, PTL DEF Spec

-----------------------------------------------------------------------------
(* Room for a key frame                                                     *)

LEMMA OrchStepQueue ==
  ASSUME NEW g \in Gens, OrchStep(g), ~OrchFrame(g)
  PROVE  UNCHANGED <<queue, keyTaken>>
<1>1. CASE OrchWait(g) \/ OrchClosed(g) \/ OrchExit(g)
  BY <1>1 DEF OrchWait, OrchClosed, OrchExit, video
<1>2. CASE OrchAdd(g)
  BY <1>2 DEF OrchAdd, video
<1>3. CASE OrchRemove(g) \/ OrchActive(g)
  BY <1>3 DEF OrchRemove, OrchActive, video
<1> QED BY <1>1, <1>2, <1>3 DEF OrchStep

\* What the steps that are neither a coordinator's nor an orchestrator's have in common.
LEMMA OthersMove ==
  ASSUME [Next]_vars
  PROVE  \/ \E g \in Gens : CoordStep(g) \/ OrchStep(g)
         \/ \E g \in Gens, gated \in BOOLEAN :
              /\ MayPipe /\ OpenPipeline(g, gated)
              /\ UNCHANGED <<video, mailbox, subState, panicked, sups, device, keyTaken>>
         \/ UNCHANGED <<coord, orch, video, newestKey, reads, budget, keyTaken, panicked>>
<1>1. ASSUME NEW r \in Readers, ReaderStep(r)
      PROVE  \/ /\ MayPipe /\ \E g \in Gens : OpenPipeline(g, FALSE)
                /\ UNCHANGED <<video, mailbox, subState, panicked, sups, device, keyTaken>>
             \/ UNCHANGED <<coord, orch, video, newestKey, reads, budget, keyTaken, panicked>>
  BY <1>1 DEF ReaderStep, ReaderCheck, ReaderPipeline, device
<1>2. ASSUME NEW k \in Sups, StartBegin(k) \/ StartStep(k)
      PROVE  \/ /\ MayPipe /\ \E g \in Gens : OpenPipeline(g, TRUE)
                /\ UNCHANGED <<video, mailbox, subState, panicked, sups, device, keyTaken>>
             \/ UNCHANGED <<coord, orch, video, newestKey, reads, budget, keyTaken, panicked>>
  BY <1>2 DEF StartBegin, StartStep, StartConnect, StartPipeline, StartOpenGate, StartFinish,
         StartReturn, device
<1>3. ASSUME NEW k \in Sups, SupStep(k)
      PROVE  UNCHANGED <<coord, orch, video, newestKey, reads, budget, keyTaken, panicked>>
  BY <1>3 DEF SupStep, SupFinishes, SupReserve, SupReserved, SupStartDone, SupRegister, SupPeerClose,
         SupTeardown, SupClear, SupUnlist, SupLook, SupPost, SupPostTimeout, SupAcked, SupStop,
         SupWaited, SupStopped, device
<1>4. CASE DeviceEnds \/ UNCHANGED vars
  BY <1>4 DEF DeviceEnds, vars, device
<1> QED BY <1>1, <1>2, <1>3, <1>4 DEF Next

\* The coordinator g is about to send a key frame.
SendsKey(g) == coord[g].at = "send" /\ coord[g].hold[1].kind = "key"

\* What a key frame's coordinator has put back and has yet to put back leaves room.
Fits(g) ==
  /\ coord[g].at = "refill" => Len(queue[g]) + Len(coord[g].kept) <= KeepFrames
  /\ SendsKey(g) => Len(queue[g]) <= KeepFrames

FitInv == ReadInv /\ \A g \in Gens : Fits(g)

LEMMA KeepsFit ==
  ASSUME FitInv, UNCHANGED coord,
         \A h \in Gens : Len(queue'[h]) <= Len(queue[h]) /\ Len(queue'[h]) \in Nat
  PROVE  \A g \in Gens : Fits(g)'
<1> SUFFICES ASSUME NEW g \in Gens PROVE Fits(g)'
  OBVIOUS
<1>1. Len(queue[g]) \in Nat /\ Len(coord[g].kept) \in Nat /\ KeepFrames \in Nat
  BY PipelineAssumption DEF FitInv, ReadInv, TypeOK, ChannelsOK, CoordsOK, Coordinator
<1>2. Len(queue'[g]) \in Nat /\ Len(queue'[g]) <= Len(queue[g])
  OBVIOUS
<1>3. Fits(g)
  BY DEF FitInv
<1>4. \A a, b, c, d \in Nat : a + b <= d /\ c <= a => c + b <= d
  OBVIOUS
<1>5. ASSUME coord'[g].at = "refill" PROVE Len(queue'[g]) + Len(coord'[g].kept) <= KeepFrames
  <2>1. Len(queue[g]) + Len(coord[g].kept) <= KeepFrames
    BY <1>3, <1>5 DEF Fits
  <2> QED BY <1>1, <1>2, <1>4, <2>1
<1>6. ASSUME SendsKey(g)' PROVE Len(queue'[g]) <= KeepFrames
  <2>1. Len(queue[g]) <= KeepFrames
    BY <1>3, <1>6 DEF Fits, SendsKey
  <2> QED BY <1>1, <1>2, <2>1
<1> QED BY <1>5, <1>6 DEF Fits

\* A new generation has nothing to send, and none of the others lives.
LEMMA OpensFit ==
  ASSUME ReadInv, NEW g \in Gens, NEW gated \in BOOLEAN, MayPipe, OpenPipeline(g, gated)
  PROVE  \A h \in Gens : Fits(h)'
<1>1. \A h \in Gens : ~CoordAlive(h)
  BY DEF ReadInv, Guarded, Ended, MayPipe
<1>2. coord' = [coord EXCEPT ![g].at = IF gated THEN "gate" ELSE "select", ![g].stop = readStop]
  BY DEF OpenPipeline
<1>3. \A h \in Gens : coord'[h].at \notin {"send", "refill"}
  BY <1>1, <1>2 DEF ReadInv, TypeOK, CoordsOK, CoordAlive, Coordinator
<1> QED BY <1>3 DEF Fits, SendsKey

\* Only a coordinator that lives sends, and the drain leaves it room.
LEMMA CoordStepFits ==
  ASSUME FitInv, NEW g \in Gens, CoordStep(g)
  PROVE  \A h \in Gens : Fits(h)'
<1>0. /\ ReadInv /\ TypeOK /\ Fits(g) /\ queue \in [Gens -> Seq(Frame)]
      /\ coord[g] \in Coordinator /\ coord \in [Gens -> Coordinator] /\ coord[g].kept \in Seq(Frame)
      /\ KeepFrames \in Nat /\ queue[g] \in Seq(Frame)
  BY PipelineAssumption DEF FitInv, ReadInv, TypeOK, CoordsOK, ChannelsOK, Coordinator
<1>1. CoordAlive(g) /\ \A h \in Gens \ {g} : coord'[h] = coord[h]
  BY <1>0, CoordStepMoves
<1>2. frameChan = g /\ \A h \in Gens \ {g} : ~CoordAlive(h)
  BY <1>0, <1>1 DEF ReadInv, Current
<1>3. \A h \in Gens \ {g} : Fits(h)'
  BY <1>1, <1>2 DEF Fits, SendsKey, CoordAlive
<1> SUFFICES Fits(g)'
  BY <1>3
<1>4. CASE CoordDrained(g)
  <2>1. PICK kept \in Seq(Frame) : kept = LastKept(coord[g].kept)
    BY <1>0, LastKeptOK
  <2>2. queue'[g] = <<>> /\ coord' = [coord EXCEPT ![g].kept = kept, ![g].at = AfterDrain(kept)]
    BY <1>2, <1>4, <2>1 DEF CoordDrained, video
  <2>3. coord'[g].kept = kept
    BY <1>0, <2>2 DEF Coordinator
  <2>4. Len(kept) <= KeepFrames /\ Len(kept) \in Nat /\ Len(queue'[g]) = 0
    BY <1>0, <2>1, <2>2, LastKeptOK, EmptyOK
  <2> QED BY <1>0, <2>3, <2>4 DEF Fits
<1>5. CASE CoordRefill(g)
  <2>1. PICK kept \in Seq(Frame) : kept = coord[g].kept /\ kept # <<>>
    BY <1>0, <1>5 DEF CoordRefill
  <2>2. Tail(kept) \in Seq(Frame) /\ Len(Tail(kept)) = Len(kept) - 1 /\ Len(kept) \in Nat
        /\ Head(kept) \in Frame
    BY <2>1
  <2>3. coord'[g].kept = Tail(kept)
    BY <1>0, <1>5, <2>1 DEF CoordRefill, Coordinator
  <2>4. Len(queue'[g]) \in Nat /\ Len(queue'[g]) <= Len(queue[g]) + 1 /\ Len(queue[g]) \in Nat
    <3>1. queue'[g] = queue[g] \/ queue'[g] = Append(queue[g], Head(kept))
      BY <1>0, <1>2, <1>5, <2>1 DEF CoordRefill
    <3> QED BY <1>0, <2>2, <3>1
  <2>5. Len(queue[g]) + Len(kept) <= KeepFrames
    BY <1>0, <1>5, <2>1 DEF CoordRefill, Fits
  <2>6. Len(queue'[g]) + Len(Tail(kept)) <= KeepFrames
    BY <1>0, <2>2, <2>4, <2>5
  <2>7. Len(queue'[g]) <= KeepFrames
    BY <1>0, <2>2, <2>4, <2>6
  <2> QED BY <2>3, <2>6, <2>7 DEF Fits
<1>6. CASE CoordEnter(g)
  <2>1. coord'[g].at = coord[g].at /\ coord'[g].hold = coord[g].hold /\ queue' = queue
        /\ coord'[g].kept = coord[g].kept
    BY <1>0, <1>6 DEF CoordEnter, Coordinator, video
  <2> QED BY <1>0, <2>1 DEF Fits, SendsKey
<1>7. CASE CoordRead(g)
  <2>1. PICK k \in Kinds :
          coord' = [coord EXCEPT ![g].hold = <<[kind |-> k, id |-> reads + 1]>>,
                                 ![g].at = CASE k = "key"    -> "drain"
                                             [] k = "config" -> "send"
                                             [] k = "delta"  -> "try"]
    BY <1>7 DEF CoordRead
  <2>2. coord'[g].hold[1].kind = k
    BY <1>0, <2>1 DEF Coordinator
  <2>3. (k = "key" => coord'[g].at = "drain") /\ coord'[g].at # "refill"
    BY <1>0, <2>1 DEF Coordinator, Kinds
  <2> QED BY <2>2, <2>3 DEF Fits, SendsKey
<1>8. CASE CoordGate(g) \/ CoordStopped(g) \/ CoordEnd(g) \/ CoordDrop(g)
  <2>1. coord'[g].at \in {"select", "closing"}
    <3>1. CASE CoordGate(g) \/ CoordDrop(g)
      BY <1>0, <3>1 DEF CoordGate, CoordDrop, CoordSelects, Coordinator
    <3>2. CASE CoordStopped(g) \/ CoordEnd(g)
      BY <1>0, <3>2 DEF CoordStopped, CoordEnd, CoordMoves, Coordinator
    <3> QED BY <1>8, <3>1, <3>2
  <2> QED BY <2>1 DEF Fits, SendsKey
<1>9. CASE CoordDrain(g)
  <2>1. coord'[g].at = "drain"
    BY <1>0, <1>9 DEF CoordDrain, Coordinator
  <2> QED BY <2>1 DEF Fits, SendsKey
<1>10. CASE CoordSend(g) \/ CoordGiveUp(g) \/ CoordClose(g) \/ CoordExit(g)
  <2>1. coord'[g].at \in {"select", "closed", "done"}
    BY <1>0, <1>10 DEF CoordSend, CoordGiveUp, CoordClose, CoordExit, CoordMoves, CoordSelects,
           IdleCoord, Coordinator
  <2> QED BY <2>1 DEF Fits, SendsKey
<1> QED BY <1>4, <1>5, <1>6, <1>7, <1>8, <1>9, <1>10 DEF CoordStep

LEMMA OrchStepFits ==
  ASSUME FitInv, NEW g \in Gens, OrchStep(g)
  PROVE  \A h \in Gens : Fits(h)'
<1>1. UNCHANGED coord
  BY OrchStepKeeps
<1>2. queue \in [Gens -> Seq(Frame)] /\ \A h \in Gens : Len(queue[h]) \in Nat
  BY DEF FitInv, ReadInv, TypeOK, ChannelsOK
<1>3. CASE UNCHANGED queue
  BY <1>1, <1>2, <1>3, KeepsFit
<1>4. CASE OrchFrame(g)
  <2> DEFINE h == orch[g].on
  <2>1. h \in Gens /\ queue[h] # <<>> /\ queue' = [queue EXCEPT ![h] = Tail(queue[h])]
    BY <1>4 DEF OrchFrame
  <2>2. queue[h] \in Seq(Frame)
    BY <1>2, <2>1
  <2>3. Tail(queue[h]) \in Seq(Frame) /\ Len(Tail(queue[h])) = Len(queue[h]) - 1
    BY <2>1, <2>2
  <2> HIDE DEF h
  <2>4. queue' \in [Gens -> Seq(Frame)] /\ queue'[h] = Tail(queue[h])
        /\ \A k \in Gens \ {h} : queue'[k] = queue[k]
    BY <1>2, <2>1, <2>3
  <2>5. \A k \in Gens : Len(queue'[k]) \in Nat
    BY <2>4
  <2>6. \A k \in Gens : Len(queue'[k]) <= Len(queue[k])
    BY <1>2, <2>1, <2>3, <2>4
  <2> QED BY <1>1, <2>5, <2>6, KeepsFit
<1>5. CASE ~OrchFrame(g)
  <2>1. UNCHANGED queue
    BY <1>5, OrchStepQueue
  <2> QED BY <1>3, <2>1
<1> QED BY <1>4, <1>5

LEMMA StepFitInv == FitInv /\ [Next]_vars /\ ~again' => FitInv'
<1> SUFFICES ASSUME FitInv, [Next]_vars, ~again' PROVE \A h \in Gens : Fits(h)'
  BY StepReadInv DEF FitInv
<1>0. ReadInv /\ TypeOK /\ \A h \in Gens : Len(queue[h]) \in Nat
  BY DEF FitInv, ReadInv, TypeOK, ChannelsOK
<1>1. CASE UNCHANGED <<coord, queue>>
  BY <1>0, <1>1, KeepsFit
<1>2. ASSUME NEW g \in Gens, NEW gated \in BOOLEAN, MayPipe, OpenPipeline(g, gated)
      PROVE  \A h \in Gens : Fits(h)'
  BY <1>0, <1>2, OpensFit
<1>3. ASSUME UNCHANGED <<coord, orch, video, newestKey, reads, budget, keyTaken, panicked>>
      PROVE  \A h \in Gens : Fits(h)'
  BY <1>1, <1>3 DEF video
<1>4. ASSUME NEW g \in Gens, CoordStep(g) \/ OrchStep(g) PROVE \A h \in Gens : Fits(h)'
  BY <1>4, CoordStepFits, OrchStepFits
<1> QED BY <1>2, <1>3, <1>4, OthersMove

\* The send of a key frame, which nothing interrupts, finds room in the channel that is in
\* the field by then: the coordinator has put back KeepFrames frames at most, fewer than the
\* channel holds (android_stream.go), and until a stopped streamer is started again nobody
\* else puts any there.
THEOREM KeyFramesFit == Spec => []KeyFits
<1> DEFINE Inv == TypeOK /\ (again \/ FitInv)
<1>1. Init => Inv
  <2>1. Init => \A g \in Gens : Fits(g)
    BY DEF Init, Fits, SendsKey, IdleCoord
  <2> QED BY <2>1, InitReadInv DEF FitInv, ReadInv
<1>2. Inv /\ [Next]_vars => Inv'
  BY StepTypeOK, AgainStays, StepFitInv
<1>3. Inv => KeyFits
  <2> SUFFICES ASSUME FitInv, NEW g \in Gens, SendsKey(g) PROVE Len(queue[Target(g)]) < FrameCap
    BY DEF KeyFits, SendsKey
  <2>1. Target(g) = g
    BY DEF FitInv, ReadInv, Current, OwnChan, CoordAlive, SendsKey, Target
  <2>2. Len(queue[g]) <= KeepFrames
    BY DEF FitInv, Fits
  <2>3. Len(queue[g]) \in Nat /\ KeepFrames \in Nat /\ FrameCap \in Nat /\ KeepFrames < FrameCap
    BY PipelineAssumption DEF FitInv, ReadInv, TypeOK, ChannelsOK
  <2> QED BY <2>1, <2>2, <2>3
<1> QED BY <1>1, <1>2, <1>3, PTL DEF Spec

-----------------------------------------------------------------------------
(* The frame channels                                                       *)

\* A frame channel is closed by the coordinator of its generation, which does no more
\* than leave after that.
ClosedEnded == closed \subseteq Gens /\ \A g \in closed : coord[g].at \in {"closed", "done"}

FrameInv == ReadInv /\ ClosedEnded

\* Opening a pipeline starts one coordinator, which has not run before and holds nothing.
LEMMA OpensOne ==
  ASSUME TypeOK, NEW g \in Gens, NEW gated \in BOOLEAN, OpenPipeline(g, gated)
  PROVE  /\ coord[g].at = "none" /\ \A h \in Gens \ {g} : coord'[h] = coord[h]
         /\ coord'[g].at \in {"gate", "select"} /\ coord'[g].hold = coord[g].hold
         /\ orch' = [orch EXCEPT ![g].at = "loop"]
<1>1. /\ coord[g].at = "none"
      /\ coord' = [coord EXCEPT ![g].at = IF gated THEN "gate" ELSE "select", ![g].stop = readStop]
      /\ orch' = [orch EXCEPT ![g].at = "loop"]
  BY DEF OpenPipeline
<1> QED BY <1>1 DEF TypeOK, CoordsOK, Coordinator

LEMMA StepFrameInv == FrameInv /\ [Next]_vars /\ ~again' => FrameInv'
<1> SUFFICES ASSUME FrameInv, [Next]_vars, ~again' PROVE ClosedEnded'
  BY StepReadInv DEF FrameInv
<1>1. TypeOK /\ closed \subseteq Gens /\ ReadInv
  BY DEF FrameInv, ReadInv, ClosedEnded
<1>2. ASSUME NEW g \in Gens, NEW gated \in BOOLEAN, OpenPipeline(g, gated), UNCHANGED video
      PROVE  ClosedEnded'
  BY <1>1, <1>2, OpensOne DEF FrameInv, ClosedEnded, video
<1>3. ASSUME NEW g \in Gens, CoordStep(g) PROVE ClosedEnded'
  <2>1. CoordAlive(g) /\ \A h \in Gens \ {g} : coord'[h] = coord[h]
    BY <1>1, <1>3, CoordStepMoves
  <2>2. frameChan = g
    BY <1>1, <2>1 DEF ReadInv, Current
  <2>3. CASE CoordClose(g)
    <3>1. closed' = closed \cup {g} /\ coord'[g].at = "closed"
      BY <1>1, <2>2, <2>3 DEF CoordClose, CoordMoves, TypeOK, CoordsOK, Coordinator
    <3> QED BY <1>1, <2>1, <3>1 DEF FrameInv, ClosedEnded
  <2>4. CASE CoordExit(g)
    <3>1. closed' = closed /\ coord'[g].at = "done"
      BY <1>1, <2>4 DEF CoordExit, TypeOK, CoordsOK, IdleCoord, video
    <3> QED BY <1>1, <2>1, <3>1 DEF FrameInv, ClosedEnded
  <2>5. CASE ~CoordClose(g) /\ ~CoordExit(g)
    <3>1. closed' = closed
      BY <1>3, <2>5 DEF CoordStep, CoordGate, CoordStopped, CoordEnd, CoordDrop, CoordRead,
             CoordDrain, CoordDrained, CoordRefill, CoordEnter, CoordSend, CoordGiveUp, video
    <3>2. coord[g].at \notin {"closed", "done"}
      BY <1>3, <2>5 DEF CoordStep, CoordGate, CoordStopped, CoordEnd, CoordDrop, CoordRead,
             CoordDrain, CoordDrained, CoordRefill, CoordEnter, CoordSend, CoordGiveUp
    <3> QED BY <1>1, <2>1, <3>1, <3>2 DEF FrameInv, ClosedEnded
  <2> QED BY <2>3, <2>4, <2>5
<1>4. ASSUME UNCHANGED <<coord, closed>> PROVE ClosedEnded'
  BY <1>4 DEF FrameInv, ClosedEnded
<1>5. ASSUME NEW g \in Gens, OrchStep(g) PROVE ClosedEnded'
  BY <1>4, <1>5, OrchStepKeeps
<1>6. ASSUME UNCHANGED <<coord, orch, video, newestKey, reads, budget, keyTaken, panicked>>
      PROVE  ClosedEnded'
  BY <1>4, <1>6 DEF video
<1> QED BY <1>2, <1>3, <1>5, <1>6, OthersMove

LEMMA InitFrameInv == Init => FrameInv
BY InitReadInv DEF Init, FrameInv, ClosedEnded

-----------------------------------------------------------------------------
(* The newest key frame                                                     *)

LEMMA FrameInTail ==
  ASSUME NEW q \in Seq(Frame), q # <<>>, NEW id, FrameIn(q, id), Head(q).id # id
  PROVE  FrameIn(Tail(q), id)
<1>1. PICK i \in 1 .. Len(q) : q[i].id = id
  BY DEF FrameIn
<1>2. i # 1
  BY <1>1
<1>3. i - 1 \in 1 .. Len(Tail(q)) /\ Tail(q)[i - 1] = q[i]
  BY <1>2
<1> QED BY <1>1, <1>3 DEF FrameIn

LEMMA FrameInConcat ==
  ASSUME NEW q \in Seq(Frame), NEW r \in Seq(Frame), NEW id, FrameIn(q, id) \/ FrameIn(r, id)
  PROVE  FrameIn(q \o r, id)
<1>1. Len(q \o r) = Len(q) + Len(r) /\ Len(q) \in Nat /\ Len(r) \in Nat
  OBVIOUS
<1>2. CASE FrameIn(q, id)
  <2>1. PICK i \in 1 .. Len(q) : q[i].id = id
    BY <1>2 DEF FrameIn
  <2>2. i \in 1 .. Len(q \o r) /\ (q \o r)[i] = q[i]
    BY <1>1
  <2> QED BY <2>1, <2>2 DEF FrameIn
<1>3. CASE FrameIn(r, id)
  <2>1. PICK i \in 1 .. Len(r) : r[i].id = id
    BY <1>3 DEF FrameIn
  <2>2. Len(q) + i \in 1 .. Len(q \o r) /\ (q \o r)[Len(q) + i] = r[i]
    BY <1>1
  <2> QED BY <2>1, <2>2 DEF FrameIn
<1> QED BY <1>2, <1>3

LEMMA FrameInOne ==
  /\ \A id : ~FrameIn(<<>>, id)
  /\ \A q \in Seq(Frame) : \A id :
       Len(q) <= 1 => (FrameIn(q, id) <=> q # <<>> /\ q[1].id = id)
<1>1. \A id : ~FrameIn(<<>>, id)
  BY DEF FrameIn
<1>2. ASSUME NEW q \in Seq(Frame), NEW id, Len(q) <= 1
      PROVE  FrameIn(q, id) <=> q # <<>> /\ q[1].id = id
  <2>1. CASE q = <<>>
    BY <1>1, <2>1
  <2>2. CASE q # <<>>
    <3>1. Len(q) = 1
      <4>1. Len(q) \in Nat /\ Len(q) # 0
        BY <2>2
      <4>2. \A n \in Nat : n # 0 /\ n <= 1 => n = 1
        OBVIOUS
      <4> QED BY <1>2, <4>1, <4>2
    <3>2. 1 .. Len(q) = {1}
      BY <3>1
    <3> QED BY <2>2, <3>2 DEF FrameIn
  <2> QED BY <2>1, <2>2
<1> QED BY <1>1, <1>2

\* A coordinator holds a frame from the read to the send; while it drains, that is the
\* newest key frame; what it may give up is not.
HoldOK(g) ==
  /\ coord[g].hold # <<>> => coord[g].at \in {"drain", "refill", "try", "send"}
  /\ coord[g].at \in {"drain", "refill"} => FrameIn(coord[g].hold, newestKey)
  /\ coord[g].at = "try" => ~FrameIn(coord[g].hold, newestKey)

HoldInv == newestKey <= reads /\ \A g \in Gens : HoldOK(g)

\* The newest key frame has been taken or is on its way.
KeyThere ==
  keyTaken \/ \E g \in Gens : FrameIn(queue[g], newestKey) \/ FrameIn(coord[g].hold, newestKey)

KeyInv == FrameInv /\ HoldInv /\ KeyThere

\* The frame is where it was, or with the coordinator, or taken.
LEMMA CoordKeepsKey ==
  ASSUME KeyInv, NEW g \in Gens, CoordStep(g), newestKey' <= reads', HoldOK(g)',
         \/ keyTaken'
         \/ FrameIn(queue'[g], newestKey') \/ FrameIn(coord'[g].hold, newestKey')
         \/ /\ UNCHANGED newestKey /\ \A h \in Gens \ {g} : queue'[h] = queue[h]
            /\ ~FrameIn(queue[g], newestKey) /\ ~FrameIn(coord[g].hold, newestKey)
            /\ keyTaken => keyTaken'
  PROVE  HoldInv' /\ KeyThere'
<1>1. CoordAlive(g) /\ \A h \in Gens \ {g} : coord'[h] = coord[h]
  BY CoordStepMoves DEF KeyInv, FrameInv, ReadInv
<1>2. \A h \in Gens \ {g} : ~CoordAlive(h)
  BY <1>1 DEF KeyInv, FrameInv, ReadInv, Current
<1>3. \A h \in Gens \ {g} : coord[h].hold = <<>> /\ coord[h].at \notin {"drain", "refill", "try", "send"}
  BY <1>2 DEF KeyInv, HoldInv, HoldOK, CoordAlive
<1>4. \A h \in Gens \ {g} : HoldOK(h)'
  BY <1>1, <1>3 DEF HoldOK
<1>5. HoldInv'
  BY <1>4 DEF HoldInv
<1>6. KeyThere'
  <2>1. CASE \/ keyTaken'
             \/ FrameIn(queue'[g], newestKey') \/ FrameIn(coord'[g].hold, newestKey')
    BY <2>1 DEF KeyThere
  <2>2. CASE /\ UNCHANGED newestKey /\ \A h \in Gens \ {g} : queue'[h] = queue[h]
             /\ ~FrameIn(queue[g], newestKey) /\ ~FrameIn(coord[g].hold, newestKey)
             /\ keyTaken => keyTaken'
    <3>1. \A h \in Gens \ {g} : ~FrameIn(coord[h].hold, newestKey)
      BY <1>3, FrameInOne
    <3>2. keyTaken \/ \E h \in Gens \ {g} : FrameIn(queue[h], newestKey)
      BY <2>2, <3>1 DEF KeyInv, KeyThere
    <3> QED BY <2>2, <3>2 DEF KeyThere
  <2> QED BY <2>1, <2>2
<1> QED BY <1>5, <1>6

LEMMA CoordStepKey == ASSUME KeyInv, NEW g \in Gens, CoordStep(g) PROVE HoldInv' /\ KeyThere'
<1>0. /\ TypeOK /\ coord \in [Gens -> Coordinator] /\ coord[g] \in Coordinator
      /\ coord[g].hold \in Seq(Frame) /\ Len(coord[g].hold) <= 1
      /\ HoldOK(g) /\ newestKey <= reads /\ newestKey \in Nat /\ reads \in Nat
      /\ queue \in [Gens -> Seq(Frame)]
  BY DEF KeyInv, FrameInv, ReadInv, TypeOK, CoordsOK, Coordinator, HoldInv, OthersOK, ChannelsOK
<1>a. CoordAlive(g) /\ frameChan = g
  BY <1>0, CoordStepMoves DEF KeyInv, FrameInv, ReadInv, Current
<1>b. \/ keyTaken
      \/ FrameIn(queue[g], newestKey) \/ FrameIn(coord[g].hold, newestKey)
      \/ ~FrameIn(queue[g], newestKey) /\ ~FrameIn(coord[g].hold, newestKey)
  OBVIOUS
<1>1. CASE CoordGate(g) \/ CoordStopped(g) \/ CoordEnd(g) \/ CoordDrop(g) \/ CoordClose(g) \/ CoordExit(g)
  <2>1. coord[g].at \in {"gate", "select", "closing", "closed"}
    BY <1>1 DEF CoordGate, CoordStopped, CoordEnd, CoordDrop, CoordClose, CoordExit
  <2>2. coord[g].hold = <<>>
    BY <1>0, <2>1 DEF HoldOK
  <2>3. coord'[g].hold = <<>> /\ coord'[g].at \in {"select", "closing", "closed", "done"}
    <3>1. CASE CoordGate(g) \/ CoordDrop(g)
      BY <1>0, <3>1 DEF CoordGate, CoordDrop, CoordSelects, Coordinator
    <3>2. CASE CoordStopped(g) \/ CoordEnd(g)
      BY <1>0, <2>2, <3>2 DEF CoordStopped, CoordEnd, CoordMoves, Coordinator
    <3>3. CASE CoordClose(g)
      BY <1>0, <2>2, <3>3 DEF CoordClose, CoordMoves, Coordinator
    <3>4. CASE CoordExit(g)
      BY <1>0, <3>4 DEF CoordExit, IdleCoord
    <3> QED BY <1>1, <3>1, <3>2, <3>3, <3>4
  <2>4. UNCHANGED <<queue, newestKey, reads, keyTaken>>
    BY <1>1 DEF CoordGate, CoordStopped, CoordEnd, CoordDrop, CoordClose, CoordExit, video, device
  <2>5. HoldOK(g)'
    BY <2>3 DEF HoldOK
  <2>6. newestKey' <= reads'
    BY <1>0, <2>4
  <2>7. ~FrameIn(coord[g].hold, newestKey)
    BY <2>2, FrameInOne
  <2> QED BY <2>4, <2>5, <2>6, <2>7, <1>b, CoordKeepsKey
<1>2. CASE CoordRead(g)
  <2>1. PICK k \in Kinds :
          /\ coord' = [coord EXCEPT ![g].hold = <<[kind |-> k, id |-> reads + 1]>>,
                                    ![g].at = CASE k = "key"    -> "drain"
                                                [] k = "config" -> "send"
                                                [] k = "delta"  -> "try"]
          /\ newestKey' = IF k = "key" THEN reads + 1 ELSE newestKey
          /\ keyTaken' = (keyTaken /\ k # "key")
    BY <1>2 DEF CoordRead
  <2> DEFINE f == [kind |-> k, id |-> reads + 1]
  <2>2. coord[g].at = "select" /\ reads' = reads + 1 /\ queue' = queue
    BY <1>2 DEF CoordRead, video
  <2>3. coord[g].hold = <<>>
    BY <1>0, <2>2 DEF HoldOK
  <2>4. f \in Frame /\ f.id = reads + 1
    BY <1>0 DEF Frame
  <2>5. coord'[g].hold = <<f>>
    BY <1>0, <2>1 DEF Coordinator
  <2>6. coord'[g].at = CASE k = "key" -> "drain" [] k = "config" -> "send" [] k = "delta" -> "try"
    BY <1>0, <2>1 DEF Coordinator
  <2> HIDE DEF f
  <2>7. 1 .. Len(<<f>>) = {1} /\ <<f>>[1] = f
    BY <2>4
  <2>8. \A id : FrameIn(<<f>>, id) <=> id = reads + 1
    BY <2>4, <2>7 DEF FrameIn
  <2>9. newestKey' <= reads'
    BY <1>0, <2>1, <2>2
  <2>10. CASE k = "key"
    <3>1. coord'[g].at = "drain" /\ newestKey' = reads + 1
      BY <2>1, <2>6, <2>10
    <3>2. FrameIn(coord'[g].hold, newestKey')
      BY <2>5, <2>8, <3>1
    <3>3. HoldOK(g)'
      BY <3>1, <3>2 DEF HoldOK
    <3> QED BY <2>9, <3>2, <3>3, CoordKeepsKey
  <2>11. CASE k # "key"
    <3>1. coord'[g].at \in {"send", "try"} /\ newestKey' = newestKey
      BY <2>1, <2>6, <2>11 DEF Kinds
    <3>0. keyTaken => keyTaken'
      BY <2>1, <2>11
    <3>2. newestKey # reads + 1
      BY <1>0
    <3>3. ~FrameIn(coord'[g].hold, newestKey')
      BY <2>5, <2>8, <3>1, <3>2
    <3>4. HoldOK(g)'
      BY <3>1, <3>3 DEF HoldOK
    <3>5. ~FrameIn(coord[g].hold, newestKey)
      BY <2>3, FrameInOne
    <3> QED BY <1>b, <2>2, <2>9, <3>0, <3>1, <3>4, <3>5, CoordKeepsKey
  <2> QED BY <2>10, <2>11
<1>3. CASE CoordDrain(g) \/ CoordDrained(g) \/ CoordRefill(g)
  <2>1. /\ coord[g].at \in {"drain", "refill"} /\ coord'[g].hold = coord[g].hold
        /\ coord'[g].at \in {"drain", "refill", "send"}
    <3>1. CASE CoordDrain(g)
      BY <1>0, <3>1 DEF CoordDrain, Coordinator
    <3>2. CASE CoordDrained(g)
      BY <1>0, <3>2 DEF CoordDrained, AfterDrain, Coordinator
    <3>3. CASE CoordRefill(g)
      BY <1>0, <3>3 DEF CoordRefill, AfterDrain, Coordinator
    <3> QED BY <1>3, <3>1, <3>2, <3>3
  <2>2. UNCHANGED <<newestKey, reads>>
    BY <1>3 DEF CoordDrain, CoordDrained, CoordRefill, device
  <2>3. FrameIn(coord'[g].hold, newestKey')
    BY <1>0, <2>1, <2>2 DEF HoldOK
  <2>4. HoldOK(g)'
    BY <2>1, <2>3 DEF HoldOK
  <2>5. newestKey' <= reads'
    BY <1>0, <2>2
  <2> QED BY <2>3, <2>4, <2>5, CoordKeepsKey
<1>6. CASE CoordEnter(g)
  <2>1. coord'[g].at = coord[g].at /\ coord'[g].hold = coord[g].hold
    BY <1>0, <1>6 DEF CoordEnter, Coordinator
  <2>2. UNCHANGED <<queue, newestKey, reads, keyTaken>>
    BY <1>6 DEF CoordEnter, video, device
  <2>3. HoldOK(g)'
    BY <1>0, <2>1, <2>2 DEF HoldOK
  <2>4. newestKey' <= reads'
    BY <1>0, <2>2
  <2> QED BY <1>b, <2>1, <2>2, <2>3, <2>4, CoordKeepsKey
<1>4. CASE CoordSend(g)
  <2>1. g \notin closed
    BY <1>4 DEF CoordSend, KeyInv, FrameInv, ClosedEnded
  <2>0. coord[g].on = g
    BY <1>4 DEF CoordSend, KeyInv, FrameInv, ReadInv, OwnChan
  <2>2. queue' = [queue EXCEPT ![g] = queue[g] \o coord[g].hold]
    BY <1>4, <2>0, <2>1 DEF CoordSend
  <2>3. coord'[g].hold = <<>> /\ coord'[g].at = "select"
    BY <1>0, <1>4 DEF CoordSend, CoordSelects, Coordinator
  <2>4. UNCHANGED <<newestKey, reads, keyTaken>>
    BY <1>4 DEF CoordSend, device
  <2>5. HoldOK(g)'
    BY <2>3 DEF HoldOK
  <2>6. newestKey' <= reads'
    BY <1>0, <2>4
  <2>7. queue[g] \in Seq(Frame) /\ queue'[g] = queue[g] \o coord[g].hold
    BY <1>0, <2>2
  <2>8. FrameIn(queue[g], newestKey) \/ FrameIn(coord[g].hold, newestKey) => FrameIn(queue'[g], newestKey')
    BY <1>0, <2>4, <2>7, FrameInConcat
  <2>9. \A h \in Gens \ {g} : queue'[h] = queue[h]
    BY <1>0, <2>2
  <2> QED BY <1>b, <2>4, <2>5, <2>6, <2>8, <2>9, CoordKeepsKey
<1>5. CASE CoordGiveUp(g)
  <2>1. coord[g].at = "try"
    BY <1>5 DEF CoordGiveUp
  <2>2. coord'[g].hold = <<>> /\ coord'[g].at = "select"
    BY <1>0, <1>5 DEF CoordGiveUp, CoordSelects, Coordinator
  <2>3. UNCHANGED <<queue, newestKey, reads, keyTaken>>
    BY <1>5 DEF CoordGiveUp, video, device
  <2>4. ~FrameIn(coord[g].hold, newestKey)
    BY <1>0, <2>1 DEF HoldOK
  <2>5. HoldOK(g)'
    BY <2>2 DEF HoldOK
  <2>6. newestKey' <= reads'
    BY <1>0, <2>3
  <2> QED BY <1>b, <2>3, <2>4, <2>5, <2>6, CoordKeepsKey
<1> QED BY <1>1, <1>2, <1>3, <1>4, <1>5, <1>6 DEF CoordStep

\* An orchestrator that takes the newest key frame has taken it.
LEMMA OrchStepKey ==
  ASSUME KeyInv, NEW g \in Gens, OrchStep(g)
  PROVE  \/ UNCHANGED <<queue, keyTaken>>
         \/ /\ keyTaken => keyTaken'
            /\ ~keyTaken' => \A h \in Gens : FrameIn(queue[h], newestKey) => FrameIn(queue'[h], newestKey)
<1>1. CASE OrchFrame(g)
  <2>1. PICK k \in Gens : k = orch[g].on
    BY <1>1 DEF OrchFrame
  <2>2. queue \in [Gens -> Seq(Frame)] /\ queue[k] \in Seq(Frame)
    BY DEF KeyInv, FrameInv, ReadInv, TypeOK, ChannelsOK
  <2>3. /\ queue[k] # <<>> /\ queue' = [queue EXCEPT ![k] = Tail(queue[k])]
        /\ keyTaken' = (keyTaken \/ Head(queue[k]).id = newestKey)
    BY <1>1, <2>1 DEF OrchFrame
  <2>4. ASSUME ~keyTaken', NEW h \in Gens, FrameIn(queue[h], newestKey)
        PROVE  FrameIn(queue'[h], newestKey)
    <3>1. CASE h = k
      <4>1. Head(queue[k]).id # newestKey
        BY <2>3, <2>4
      <4>2. queue'[h] = Tail(queue[k])
        BY <2>2, <2>3, <3>1
      <4> QED BY <2>2, <2>3, <2>4, <3>1, <4>1, <4>2, FrameInTail
    <3>2. CASE h # k
      BY <2>2, <2>3, <2>4, <3>2
    <3> QED BY <3>1, <3>2
  <2>5. keyTaken => keyTaken'
    BY <2>3
  <2> QED BY <2>4, <2>5
<1>2. CASE ~OrchFrame(g)
  BY <1>2, OrchStepQueue
<1> QED BY <1>1, <1>2

LEMMA StepKeyInv == KeyInv /\ [Next]_vars /\ ~again' => KeyInv'
<1> SUFFICES ASSUME KeyInv, [Next]_vars, ~again' PROVE HoldInv' /\ KeyThere'
  BY StepFrameInv DEF KeyInv
<1>1. ASSUME NEW g \in Gens, NEW gated \in BOOLEAN, OpenPipeline(g, gated),
             UNCHANGED <<video, device, keyTaken>>
      PROVE  HoldInv' /\ KeyThere'
  <2>1. /\ coord[g].at = "none" /\ \A h \in Gens \ {g} : coord'[h] = coord[h]
        /\ coord'[g].at \in {"gate", "select"} /\ coord'[g].hold = coord[g].hold
    BY <1>1, OpensOne DEF KeyInv, FrameInv, ReadInv
  <2>2. coord[g].hold = <<>>
    BY <2>1 DEF KeyInv, HoldInv, HoldOK
  <2>3. UNCHANGED <<queue, newestKey, reads, keyTaken>>
    BY <1>1 DEF video, device
  <2>4. \A h \in Gens : HoldOK(h)'
    BY <2>1, <2>2, <2>3 DEF KeyInv, HoldInv, HoldOK
  <2>5. \A h \in Gens : coord'[h].hold = coord[h].hold
    BY <2>1
  <2> QED BY <2>3, <2>4, <2>5 DEF KeyInv, HoldInv, KeyThere
<1>2. ASSUME UNCHANGED <<coord, newestKey, reads>>,
             \/ UNCHANGED <<queue, keyTaken>>
             \/ /\ keyTaken => keyTaken'
                /\ ~keyTaken' => \A h \in Gens : FrameIn(queue[h], newestKey) => FrameIn(queue'[h], newestKey)
      PROVE  HoldInv' /\ KeyThere'
  BY <1>2 DEF KeyInv, HoldInv, HoldOK, KeyThere
<1>3. ASSUME NEW g \in Gens, OrchStep(g) PROVE HoldInv' /\ KeyThere'
  <2>1. UNCHANGED <<coord, newestKey, reads>>
    BY <1>3, OrchStepKeeps
  <2> QED BY <1>2, <1>3, <2>1, OrchStepKey
<1>4. ASSUME UNCHANGED <<coord, orch, video, newestKey, reads, budget, keyTaken, panicked>>
      PROVE  HoldInv' /\ KeyThere'
  BY <1>2, <1>4 DEF video
<1> QED BY <1>1, <1>3, <1>4, CoordStepKey, OthersMove

\* The newest key frame read for a consumer is in a channel or with a coordinator until an
\* orchestrator has taken it: what the drain drops, what a coordinator gives up after 8 ms
\* and what a closed pipeline leaves behind is never that frame (android_stream.go), until
\* a stopped streamer is started again.
THEOREM KeyFramesArrive == Spec => []NewestKeyKept
<1> DEFINE Inv == TypeOK /\ (again \/ KeyInv)
<1>1. Init => Inv
  <2>1. Init => HoldInv
    BY DEF Init, HoldInv, HoldOK, IdleCoord
  <2>2. Init => KeyThere
    BY DEF Init, KeyThere
  <2> QED BY <2>1, <2>2, InitFrameInv, InitTypeOK DEF KeyInv
<1>2. Inv /\ [Next]_vars => Inv'
  BY StepTypeOK, AgainStays, StepKeyInv
<1>3. Inv => NewestKeyKept
  BY DEF KeyInv, KeyThere, NewestKeyKept
<1> QED BY <1>1, <1>2, <1>3, PTL DEF Spec

-----------------------------------------------------------------------------
(* The channels of the subscribers                                          *)

\* The message at place i of the mailbox of g is one that a supervisor waits for.
AskAt(g, i) == i \in 1 .. Len(mailbox[g]) /\ mailbox[g][i].op # "active"

\* That supervisor waits for it, and has not been told that it was handled.
Awaited(m) == sup[m.by].at = "wait" /\ ~sup[m.by].acked /\ m = Head(sup[m.by].todo)

\* A supervisor has one such message at a time, the first of its messages; what tells it
\* that the message was handled comes while it waits.
MailInv ==
  /\ \A g, h \in Gens, i, j \in Nat :
       AskAt(g, i) /\ AskAt(h, j) /\ mailbox[g][i].by = mailbox[h][j].by => g = h /\ i = j
  /\ \A g \in Gens, i \in Nat : AskAt(g, i) => Awaited(mailbox[g][i])
  /\ \A k \in Sups : sup[k].acked => sup[k].at = "wait"

\* The supervisor k is to add the channel c.
Adds(k, c) == \E i \in 1 .. Len(sup[k].todo) : sup[k].todo[i].op = "add" /\ sup[k].todo[i].sub = c

\* A message is its supervisor's, and a channel new until the message that adds it has
\* been handled; no two supervisors add the same.
OwnTodo(k) ==
  \A i \in 1 .. Len(sup[k].todo) :
    LET m == sup[k].todo[i]
    IN /\ m.op # "active" => m.by = k
       /\ m.op = "add" => /\ i = Len(sup[k].todo) /\ subState[m.sub] # "unused"
                          /\ (i = 1 /\ sup[k].acked) \/ subState[m.sub] = "made"

TodoInv ==
  /\ \A k \in Sups : OwnTodo(k)
  /\ \A j, k \in Sups, c \in Subs : Adds(j, c) /\ Adds(k, c) => j = k

\* The tables hold open channels, each in one place: an orchestrator that closes one
\* closes no other's.
Channel(g, s) == orch[g].subs[s]

TablesInv ==
  /\ \A g \in Gens, s \in Sessions : Channel(g, s) # NoSub => subState[Channel(g, s)] = "open"
  /\ \A g, h \in Gens, s, t \in Sessions :
       Channel(g, s) # NoSub /\ Channel(g, s) = Channel(h, t) => g = h /\ s = t

PanicInv == FrameInv /\ MailInv /\ TodoInv /\ TablesInv /\ ~panicked

LEMMA PanicTypes ==
  ASSUME PanicInv
  PROVE  /\ TypeOK /\ ReadInv /\ sup \in [Sups -> Supervisor]
         /\ \A k \in Sups : sup[k] \in Supervisor /\ sup[k].acked \in BOOLEAN /\ sup[k].todo \in Seq(Msg)
         /\ mailbox \in [Gens -> Seq(Msg)] /\ orch \in [Gens -> Orchestrator]
         /\ \A g \in Gens, s \in Sessions : Channel(g, s) \in Subs \cup {NoSub}
         /\ subState \in [Subs -> {"unused", "made", "open", "closed"}]
         /\ \A k \in Sups : \A i \in 1 .. Len(sup[k].todo) :
              sup[k].todo[i] \in Msg /\ (sup[k].todo[i].op = "add" => sup[k].todo[i].sub \in Subs)
         /\ \A g \in Gens, i \in Nat :
              AskAt(g, i) => mailbox[g][i] \in Msg /\ mailbox[g][i].by \in Sups
<1>1. TypeOK /\ sup \in [Sups -> Supervisor] /\ orch \in [Gens -> Orchestrator] /\ ReadInv
  BY DEF PanicInv, FrameInv, ReadInv, TypeOK, SupsOK, OrchsOK
<1>2. \A k \in Sups : sup[k] \in Supervisor /\ sup[k].acked \in BOOLEAN /\ sup[k].todo \in Seq(Msg)
  BY <1>1 DEF Supervisor
<1>3. \A m \in Msg : (m.op = "add" => m.sub \in Subs) /\ (m.op # "active" => m.by \in Sups)
  BY DEF Msg
<1>4. \A k \in Sups : \A i \in 1 .. Len(sup[k].todo) :
        sup[k].todo[i] \in Msg /\ (sup[k].todo[i].op = "add" => sup[k].todo[i].sub \in Subs)
  BY <1>2, <1>3
<1>5. \A g \in Gens, s \in Sessions : Channel(g, s) \in Subs \cup {NoSub}
  BY <1>1 DEF Channel, Orchestrator
<1>6. mailbox \in [Gens -> Seq(Msg)] /\ subState \in [Subs -> {"unused", "made", "open", "closed"}]
  BY <1>1 DEF TypeOK, ChannelsOK
<1>7. \A g \in Gens, i \in Nat : AskAt(g, i) => mailbox[g][i] \in Msg
  BY <1>6 DEF AskAt
<1>8. \A g \in Gens, i \in Nat : AskAt(g, i) => mailbox[g][i].by \in Sups
  BY <1>3, <1>7 DEF AskAt
<1> QED BY <1>1, <1>2, <1>4, <1>5, <1>6, <1>7, <1>8

\* Channels that close leave the tables; the others stay as they are.
LEMMA TablesKept ==
  ASSUME PanicInv, NEW cs,
         \A h \in Gens, t \in Sessions : \/ Channel(h, t)' = NoSub
                                         \/ Channel(h, t)' = Channel(h, t) /\ Channel(h, t) \notin cs,
         \A c \in Subs : subState[c] = "open" /\ c \notin cs => subState'[c] = "open"
  PROVE  TablesInv'
<1>1. /\ \A h \in Gens, t \in Sessions : Channel(h, t) \in Subs \cup {NoSub}
  BY PanicTypes
<1>2. ASSUME NEW h \in Gens, NEW t \in Sessions, Channel(h, t)' # NoSub
      PROVE  subState'[Channel(h, t)'] = "open"
  <2>1. Channel(h, t)' = Channel(h, t) /\ Channel(h, t) \notin cs
    BY <1>2
  <2>2. subState[Channel(h, t)] = "open" /\ Channel(h, t) \in Subs
    BY <1>1, <1>2, <2>1 DEF PanicInv, TablesInv
  <2> QED BY <2>1, <2>2
<1>3. ASSUME NEW g \in Gens, NEW h \in Gens, NEW s \in Sessions, NEW t \in Sessions,
             Channel(g, s)' # NoSub, Channel(g, s)' = Channel(h, t)'
      PROVE  g = h /\ s = t
  <2>1. Channel(g, s) # NoSub /\ Channel(g, s) = Channel(h, t)
    BY <1>3
  <2> QED BY <2>1 DEF PanicInv, TablesInv
<1> QED BY <1>2, <1>3 DEF TablesInv

\* The messages of one supervisor change, to none that another may have.
LEMMA TodoStep ==
  ASSUME PanicInv, NEW k \in Sups, \A j \in Sups \ {k} : sup'[j] = sup[j],
         \A c \in Subs : subState[c] = "made" => subState'[c] = "made",
         \A c \in Subs : subState[c] # "unused" => subState'[c] # "unused",
         OwnTodo(k)', \A c \in Subs : Adds(k, c)' => Adds(k, c) \/ subState[c] = "unused"
  PROVE  TodoInv'
<1>1. ASSUME NEW j \in Sups PROVE OwnTodo(j)'
  <2>1. CASE j = k
    BY <2>1
  <2>2. CASE j # k
    <3>1. sup'[j] = sup[j] /\ OwnTodo(j)
      BY <2>2 DEF PanicInv, TodoInv
    <3>2. \A i \in 1 .. Len(sup[j].todo) : sup[j].todo[i].op = "add" => sup[j].todo[i].sub \in Subs
      BY PanicTypes
    <3> QED BY <3>1, <3>2 DEF OwnTodo
  <2> QED BY <2>1, <2>2
<1>2. \A j \in Sups \ {k}, c \in Subs : Adds(j, c)' => Adds(j, c)
  BY DEF Adds
<1>3. \A j \in Sups, c \in Subs : Adds(j, c) => subState[c] # "unused"
  BY DEF PanicInv, TodoInv, OwnTodo, Adds
<1>4. ASSUME NEW i \in Sups, NEW j \in Sups, NEW c \in Subs, Adds(i, c)', Adds(j, c)'
      PROVE  i = j
  BY <1>2, <1>3, <1>4 DEF PanicInv, TodoInv
<1> QED BY <1>1, <1>4 DEF TodoInv

LEMMA TodoKept ==
  ASSUME PanicInv, \A k \in Sups : sup'[k].todo = sup[k].todo /\ (sup[k].acked => sup'[k].acked),
         \A c \in Subs : subState[c] = "made" => subState'[c] = "made",
         \A c \in Subs : subState[c] # "unused" => subState'[c] # "unused"
  PROVE  TodoInv'
<1>1. ASSUME NEW k \in Sups PROVE OwnTodo(k)'
  <2>1. sup'[k].todo = sup[k].todo /\ (sup[k].acked => sup'[k].acked) /\ OwnTodo(k)
    BY DEF PanicInv, TodoInv
  <2>2. \A i \in 1 .. Len(sup[k].todo) : sup[k].todo[i].op = "add" => sup[k].todo[i].sub \in Subs
    BY PanicTypes
  <2> QED BY <2>1, <2>2 DEF OwnTodo
<1>2. \A k \in Sups, c \in Subs : Adds(k, c)' => Adds(k, c)
  BY DEF Adds
<1> QED BY <1>1, <1>2 DEF PanicInv, TodoInv

\* Steps that touch neither the messages nor the channels of the subscribers.
LEMMA KeepsPanic ==
  ASSUME PanicInv, UNCHANGED <<mailbox, sup, subState>>,
         \A h \in Gens : orch'[h].subs = orch[h].subs
  PROVE  MailInv' /\ TodoInv' /\ TablesInv'
<1>1. \A h \in Gens, t \in Sessions : Channel(h, t)' = Channel(h, t)
  BY DEF Channel
<1>2. TablesInv'
  BY <1>1 DEF PanicInv, TablesInv
<1>3. TodoInv'
  BY TodoKept
<1>4. MailInv'
  BY DEF PanicInv, MailInv, AskAt, Awaited
<1> QED BY <1>2, <1>3, <1>4

LEMMA MailFactsOf ==
  ASSUME PanicInv, NEW g \in Gens, NEW i \in Nat, AskAt(g, i)
  PROVE  /\ Awaited(mailbox[g][i]) /\ mailbox[g][i].by \in Sups
         /\ \A h \in Gens, j \in Nat :
              AskAt(h, j) /\ mailbox[g][i].by = mailbox[h][j].by => g = h /\ i = j
<1>1. MailInv
  BY DEF PanicInv
<1>2. Awaited(mailbox[g][i])
  BY <1>1 DEF MailInv
<1>3. \A h \in Gens, j \in Nat :
        AskAt(h, j) /\ mailbox[g][i].by = mailbox[h][j].by => g = h /\ i = j
  BY <1>1 DEF MailInv
<1> QED BY <1>2, <1>3, PanicTypes

Takes(g) == mailbox'[g] = Tail(mailbox[g]) /\ \A h \in Gens \ {g} : mailbox'[h] = mailbox[h]

\* The messages that are left when an orchestrator takes one.
LEMMA TakesMessage ==
  ASSUME PanicInv, NEW g \in Gens, mailbox[g] # <<>>, Takes(g)
  PROVE  \A h \in Gens, i \in Nat :
           AskAt(h, i)' => /\ h = g => AskAt(h, i + 1) /\ mailbox[h][i + 1] = mailbox'[h][i]
                           /\ h # g => AskAt(h, i) /\ mailbox[h][i] = mailbox'[h][i]
<1> SUFFICES ASSUME NEW h \in Gens, NEW i \in Nat, AskAt(h, i)'
             PROVE  /\ h = g => AskAt(h, i + 1) /\ mailbox[h][i + 1] = mailbox'[h][i]
                    /\ h # g => AskAt(h, i) /\ mailbox[h][i] = mailbox'[h][i]
  OBVIOUS
<1>1. mailbox \in [Gens -> Seq(Msg)]
  BY PanicTypes
<1>2. /\ \A l \in Gens \ {g} : mailbox'[l] = mailbox[l]
      /\ mailbox'[g] = Tail(mailbox[g]) /\ mailbox[g] \in Seq(Msg)
  BY <1>1 DEF Takes
<1>3. Len(Tail(mailbox[g])) = Len(mailbox[g]) - 1
  BY <1>2
<1>4. \A l \in 1 .. Len(Tail(mailbox[g])) : Tail(mailbox[g])[l] = mailbox[g][l + 1]
  BY <1>2
<1>5. CASE h = g
  <2>1. i \in 1 .. Len(Tail(mailbox[g])) /\ mailbox'[g][i].op # "active"
    BY <1>2, <1>5 DEF AskAt
  <2>2. mailbox[g][i + 1] = mailbox'[g][i]
    BY <1>2, <1>4, <2>1
  <2>3. Len(mailbox[g]) \in Nat
    BY <1>2
  <2>4. i + 1 \in 1 .. Len(mailbox[g])
    BY <1>3, <2>1, <2>3
  <2> QED BY <1>5, <2>1, <2>2, <2>4 DEF AskAt
<1>6. CASE h # g
  BY <1>2, <1>6 DEF AskAt
<1> QED BY <1>5, <1>6

\* Where a message that is left was before.
LEMMA MessageWas ==
  ASSUME PanicInv, NEW g \in Gens, mailbox[g] # <<>>, Takes(g)
  PROVE  \A h \in Gens, i \in Nat :
           AskAt(h, i)' => \E j \in Nat : /\ AskAt(h, j) /\ mailbox[h][j] = mailbox'[h][i]
                                          /\ (h = g => j = i + 1) /\ (h # g => j = i)
<1> SUFFICES ASSUME NEW h \in Gens, NEW i \in Nat, AskAt(h, i)'
             PROVE  \E j \in Nat : /\ AskAt(h, j) /\ mailbox[h][j] = mailbox'[h][i]
                                   /\ (h = g => j = i + 1) /\ (h # g => j = i)
  OBVIOUS
<1>1. CASE h = g
  <2>1. i + 1 \in Nat
    OBVIOUS
  <2> QED BY <1>1, <2>1, TakesMessage
<1>2. CASE h # g
  BY <1>2, TakesMessage
<1> QED BY <1>1, <1>2

\* An orchestrator takes a message; if it is one to wait for, the supervisor that waits
\* hears of it.
LEMMA HandledMail ==
  ASSUME PanicInv, NEW g \in Gens, mailbox[g] # <<>>, Takes(g),
         \A k \in Sups : /\ sup'[k].at = sup[k].at /\ sup'[k].todo = sup[k].todo
                         /\ \/ sup'[k].acked = sup[k].acked
                            \/ AskAt(g, 1) /\ k = mailbox[g][1].by
  PROVE  MailInv'
<1>1. ASSUME NEW h \in Gens, NEW i \in Nat, AskAt(h, i)'
      PROVE  Awaited(mailbox[h][i])'
  <2>1. PICK j \in Nat : AskAt(h, j) /\ mailbox[h][j] = mailbox'[h][i] /\ (h = g => j = i + 1)
    BY <1>1, MessageWas
  <2>2. ASSUME AskAt(g, 1), mailbox'[h][i].by = mailbox[g][1].by PROVE FALSE
    <3>1. 1 \in Nat /\ mailbox[h][j].by = mailbox[g][1].by
      BY <2>1, <2>2
    <3>2. h = g /\ j = 1
      BY <2>1, <2>2, <3>1, MailFactsOf
    <3>3. i = 0
      BY <2>1, <3>2
    <3> QED BY <1>1, <3>3 DEF AskAt
  <2>3. Awaited(mailbox[h][j]) /\ mailbox[h][j].by \in Sups
    BY <2>1, MailFactsOf
  <2>4. PICK k \in Sups : k = mailbox'[h][i].by
    BY <2>1, <2>3
  <2>5. sup[k].at = "wait" /\ ~sup[k].acked /\ mailbox'[h][i] = Head(sup[k].todo)
    BY <2>1, <2>3, <2>4 DEF Awaited
  <2>6. sup'[k].at = sup[k].at /\ sup'[k].todo = sup[k].todo /\ sup'[k].acked = sup[k].acked
    BY <2>2, <2>4
  <2>7. sup'[k].at = "wait" /\ ~sup'[k].acked /\ mailbox'[h][i] = Head(sup'[k].todo)
    BY <2>5, <2>6
  <2>8. LET m == mailbox'[h][i]
        IN sup'[m.by].at = "wait" /\ ~sup'[m.by].acked /\ m = Head(sup'[m.by].todo)
    BY <2>4, <2>7, Zenon
  <2> QED BY <2>8 DEF Awaited
<1>2. ASSUME NEW h \in Gens, NEW l \in Gens, NEW i \in Nat, NEW j \in Nat, AskAt(h, i)', AskAt(l, j)',
             mailbox'[h][i].by = mailbox'[l][j].by
      PROVE  h = l /\ i = j
  <2>1. PICK a \in Nat : /\ AskAt(h, a) /\ mailbox[h][a] = mailbox'[h][i]
                         /\ (h = g => a = i + 1) /\ (h # g => a = i)
    BY <1>2, MessageWas
  <2>2. PICK b \in Nat : /\ AskAt(l, b) /\ mailbox[l][b] = mailbox'[l][j]
                         /\ (l = g => b = j + 1) /\ (l # g => b = j)
    BY <1>2, MessageWas
  <2>3. mailbox[h][a].by = mailbox[l][b].by
    BY <1>2, <2>1, <2>2
  <2>4. h = l /\ a = b
    BY <2>1, <2>2, <2>3, MailFactsOf
  <2> QED BY <2>1, <2>2, <2>4
<1>3. ASSUME NEW k \in Sups, sup'[k].acked PROVE sup'[k].at = "wait"
  <2>1. CASE sup'[k].acked = sup[k].acked
    <3>1. sup[k].acked => sup[k].at = "wait"
      BY DEF PanicInv, MailInv
    <3> QED BY <1>3, <2>1, <3>1
  <2>2. CASE AskAt(g, 1) /\ k = mailbox[g][1].by
    <3>1. Awaited(mailbox[g][1])
      BY <2>2, MailFactsOf
    <3> QED BY <2>2, <3>1 DEF Awaited
  <2> QED BY <2>1, <2>2
<1>4. \A h, l \in Gens, i, j \in Nat :
        AskAt(h, i)' /\ AskAt(l, j)' /\ mailbox'[h][i].by = mailbox'[l][j].by => h = l /\ i = j
  BY <1>2
<1>5. \A h \in Gens, i \in Nat : AskAt(h, i)' => Awaited(mailbox[h][i])'
  BY <1>1
<1> QED BY <1>3, <1>4, <1>5 DEF MailInv

\* The message a supervisor waits for has been handled.
LEMMA HandledAsk ==
  ASSUME PanicInv, NEW g \in Gens, NEW o, mailbox[g] # <<>>, Head(mailbox[g]).op # "active",
         Handled(g, o), Answered(Head(mailbox[g]).by)
  PROVE  /\ MailInv' /\ \A k \in Sups : sup'[k].todo = sup[k].todo /\ (sup[k].acked => sup'[k].acked)
         /\ \E k \in Sups : /\ k = Head(mailbox[g]).by /\ sup'[k].acked /\ ~sup[k].acked
                            /\ sup[k].todo # <<>> /\ Head(mailbox[g]) = Head(sup[k].todo)
<1>1. mailbox[g] \in Seq(Msg) /\ sup \in [Sups -> Supervisor]
  BY PanicTypes
<1>2. 1 \in Nat /\ AskAt(g, 1) /\ Head(mailbox[g]) = mailbox[g][1]
  BY <1>1 DEF AskAt
<1>3. PICK k \in Sups : k = Head(mailbox[g]).by
  BY <1>2, MailFactsOf
<1>4. sup[k].at = "wait" /\ ~sup[k].acked /\ Head(mailbox[g]) = Head(sup[k].todo)
  BY <1>2, <1>3, MailFactsOf DEF Awaited
<1>5. sup' = [sup EXCEPT ![k].acked = TRUE]
  BY <1>3 DEF Answered
<1>6. \A j \in Sups : sup'[j].at = sup[j].at /\ sup'[j].todo = sup[j].todo
  BY <1>1, <1>5 DEF Supervisor
<1>7. sup'[k].acked /\ \A j \in Sups \ {k} : sup'[j].acked = sup[j].acked
  BY <1>1, <1>5 DEF Supervisor
<1>8. Takes(g)
  BY PanicTypes DEF Handled, Takes
<1>11. \A j \in Sups : \/ sup'[j].acked = sup[j].acked
                       \/ AskAt(g, 1) /\ j = mailbox[g][1].by
  BY <1>2, <1>3, <1>7
<1>9. MailInv'
  BY <1>6, <1>8, <1>11, HandledMail
<1>10. sup[k].todo # <<>>
  BY <1>4, PanicTypes DEF TypeOK, SupsOK
<1> QED BY <1>3, <1>4, <1>6, <1>7, <1>9, <1>10

LEMMA OrchStepPanic ==
  ASSUME PanicInv, NEW g \in Gens, OrchStep(g)
  PROVE  MailInv' /\ TodoInv' /\ TablesInv' /\ ~panicked'
<1>0. /\ orch \in [Gens -> Orchestrator] /\ orch[g] \in Orchestrator
      /\ subState \in [Subs -> {"unused", "made", "open", "closed"}]
      /\ \A h \in Gens, s \in Sessions : Channel(h, s) \in Subs \cup {NoSub}
      /\ NoSub \notin Subs /\ ~panicked
      /\ mailbox \in [Gens -> Seq(Msg)] /\ mailbox[g] \in Seq(Msg)
  BY PanicTypes, GenFacts DEF PanicInv
<1>a. \A h \in Gens, s \in Sessions : Channel(h, s) # NoSub => subState[Channel(h, s)] = "open"
  BY DEF PanicInv, TablesInv
<1>1. CASE OrchWait(g) \/ OrchExit(g)
  <2>1. UNCHANGED <<mailbox, sup, subState, panicked>> /\ \A h \in Gens : orch'[h].subs = orch[h].subs
    <3>1. CASE OrchWait(g)
      BY <1>0, <3>1 DEF OrchWait, Orchestrator, sups
    <3>2. CASE OrchExit(g)
      BY <1>0, <3>2 DEF OrchExit, Orchestrator, sups
    <3> QED BY <1>1, <3>1, <3>2
  <2> QED BY <1>0, <2>1, KeepsPanic
<1>2. CASE OrchFrame(g)
  <2>1. UNCHANGED <<mailbox, sup, subState>> /\ \A h \in Gens : orch'[h].subs = orch[h].subs
    BY <1>0, <1>2 DEF OrchFrame, Orchestrator, sups
  <2>2. ~\E c \in Subscribed(orch[g]) : subState[c] = "closed"
    BY <1>a DEF Subscribed, Channel
  <2>3. ~panicked'
    BY <1>0, <1>2, <2>2 DEF OrchFrame
  <2> QED BY <2>1, <2>3, KeepsPanic
<1>3. CASE OrchClosed(g)
  <2> DEFINE cs == Subscribed(orch[g])
  <2>1. /\ UNCHANGED <<mailbox, sup>> /\ CloseSubs(cs)
        /\ orch' = [orch EXCEPT ![g] = [IdleOrch EXCEPT !.at = "released"]]
    BY <1>3 DEF OrchClosed, sups
  <2>2. \A c \in cs : subState[c] = "open"
    BY <1>a DEF Subscribed, Channel
  <2>3. \A h \in Gens, t \in Sessions : \/ Channel(h, t)' = NoSub
                                        \/ Channel(h, t)' = Channel(h, t) /\ Channel(h, t) \notin cs
    <3>1. ASSUME NEW t \in Sessions PROVE Channel(g, t)' = NoSub
      BY <1>0, <2>1 DEF Channel, IdleOrch
    <3>2. ASSUME NEW h \in Gens \ {g}, NEW t \in Sessions, Channel(h, t) # NoSub
          PROVE  Channel(h, t)' = Channel(h, t) /\ Channel(h, t) \notin cs
      <4>1. Channel(h, t)' = Channel(h, t)
        BY <1>0, <2>1 DEF Channel
      <4>2. ASSUME Channel(h, t) \in cs PROVE FALSE
        <5>1. PICK s \in Sessions : Channel(h, t) = Channel(g, s)
          BY <4>2 DEF Subscribed, Channel
        <5> QED BY <3>2, <5>1 DEF PanicInv, TablesInv
      <4> QED BY <4>1, <4>2
    <3>3. ASSUME NEW h \in Gens \ {g}, NEW t \in Sessions, Channel(h, t) = NoSub
          PROVE  Channel(h, t)' = NoSub
      BY <1>0, <2>1, <3>3 DEF Channel
    <3> QED BY <3>1, <3>2, <3>3
  <2> HIDE DEF cs
  <2>4. \A c \in Subs : c \notin cs => subState'[c] = subState[c]
    BY <1>0, <2>1 DEF CloseSubs
  <2>5. TablesInv'
    BY <2>3, <2>4, TablesKept
  <2>6. \A c \in Subs : subState[c] = "made" => subState'[c] = "made"
    BY <2>2, <2>4
  <2>10. \A c \in Subs : subState[c] # "unused" => subState'[c] # "unused"
    BY <1>0, <2>1 DEF CloseSubs
  <2>7. TodoInv'
    BY <2>1, <2>6, <2>10, TodoKept
  <2>8. MailInv'
    BY <2>1 DEF PanicInv, MailInv, AskAt, Awaited
  <2>9. ~panicked'
    BY <1>0, <2>1, <2>2 DEF CloseSubs
  <2> QED BY <2>5, <2>7, <2>8, <2>9
<1>4. CASE OrchActive(g)
  <2>1. mailbox[g] # <<>> /\ Takes(g) /\ sup' = sup
    BY <1>0, <1>4 DEF OrchActive, Handled, Takes, sups
  <2>2. MailInv'
    BY <2>1, HandledMail
  <2>3. UNCHANGED <<subState, panicked>> /\ \A h \in Gens, t \in Sessions : Channel(h, t)' = Channel(h, t)
    BY <1>0, <1>4 DEF OrchActive, Handled, Orchestrator, Channel
  <2>4. TablesInv'
    BY <2>3 DEF PanicInv, TablesInv
  <2>5. TodoInv'
    BY <2>1, <2>3, TodoKept
  <2> QED BY <1>0, <2>2, <2>3, <2>4, <2>5
<1>5. CASE OrchRemove(g)
  <2>1. PICK s : s = Head(mailbox[g]).session
    OBVIOUS
  <2>2. s \in Sessions
    BY <1>5, <2>1, MailFacts, PanicTypes DEF OrchRemove, Msg
  <2> DEFINE cs == {Channel(g, s)} \ {NoSub}
  <2>3. /\ Handled(g, [orch[g] EXCEPT !.subs[s] = NoSub]) /\ CloseSubs(cs)
        /\ mailbox[g] # <<>> /\ Head(mailbox[g]).op = "remove" /\ Answered(Head(mailbox[g]).by)
    BY <1>5, <2>1 DEF OrchRemove, Channel
  <2>4. MailInv' /\ \A k \in Sups : sup'[k].todo = sup[k].todo /\ (sup[k].acked => sup'[k].acked)
    BY <2>3, HandledAsk
  <2>5. \A c \in cs : subState[c] = "open"
    BY <1>a, <2>2
  <2>6. \A h \in Gens, t \in Sessions : \/ Channel(h, t)' = NoSub
                                        \/ Channel(h, t)' = Channel(h, t) /\ Channel(h, t) \notin cs
    <3>1. Channel(g, s)' = NoSub
      BY <1>0, <2>2, <2>3 DEF Handled, Channel, Orchestrator
    <3>2. \A h \in Gens, t \in Sessions : h # g \/ t # s => Channel(h, t)' = Channel(h, t)
      BY <1>0, <2>2, <2>3 DEF Handled, Channel, Orchestrator
    <3>3. \A h \in Gens, t \in Sessions : h # g \/ t # s => Channel(h, t) \notin cs
      BY <2>2 DEF PanicInv, TablesInv
    <3> QED BY <3>1, <3>2, <3>3
  <2> HIDE DEF cs
  <2>7. \A c \in Subs : c \notin cs => subState'[c] = subState[c]
    BY <1>0, <2>3 DEF CloseSubs
  <2>8. TablesInv'
    BY <2>6, <2>7, TablesKept
  <2>9. \A c \in Subs : subState[c] = "made" => subState'[c] = "made"
    BY <2>5, <2>7
  <2>12. \A c \in Subs : subState[c] # "unused" => subState'[c] # "unused"
    BY <1>0, <2>3 DEF CloseSubs
  <2>10. TodoInv'
    BY <2>4, <2>9, <2>12, TodoKept
  <2>13. panicked' = (panicked \/ \E c \in cs : subState[c] = "closed")
    BY <2>3 DEF CloseSubs
  <2>11. ~panicked'
    BY <1>0, <2>5, <2>13
  <2> QED BY <2>4, <2>8, <2>10, <2>11
<1>6. CASE OrchAdd(g)
  <2>1. PICK m : m = Head(mailbox[g])
    OBVIOUS
  <2>2. m.session \in Sessions /\ m.sub \in Subs /\ m.op = "add"
    BY <1>6, <2>1, MailFacts, PanicTypes DEF OrchAdd, Msg
  <2>3. PICK s \in Sessions, c \in Subs : s = m.session /\ c = m.sub
    BY <2>2
  <2>18. Answered(m.by)
    BY <1>6, <2>1 DEF OrchAdd
  <2>4. /\ Handled(g, [orch[g] EXCEPT !.subs[s] = c]) /\ mailbox[g] # <<>>
        /\ subState' = [d \in Subs |-> IF d = Channel(g, s) THEN "closed"
                                       ELSE IF d = c THEN "open" ELSE subState[d]]
        /\ panicked' = (panicked \/ (Channel(g, s) # NoSub /\ subState[Channel(g, s)] = "closed"))
    <3>1. Handled(g, [orch[g] EXCEPT !.subs[s] = c]) /\ mailbox[g] # <<>>
      BY <1>6, <2>1, <2>3, Zenon DEF OrchAdd
    <3>2. subState' = [d \in Subs |-> IF d = Channel(g, s) THEN "closed"
                                     ELSE IF d = c THEN "open" ELSE subState[d]]
      BY <1>6, <2>1, <2>3 DEF OrchAdd, Channel
    <3>3. panicked' = (panicked \/ (Channel(g, s) # NoSub /\ subState[Channel(g, s)] = "closed"))
      BY <1>6, <2>1, <2>3, Zenon DEF OrchAdd, Channel
    <3> QED BY <3>1, <3>2, <3>3
  <2>5. PICK k \in Sups : sup'[k].acked /\ ~sup[k].acked /\ sup[k].todo # <<>> /\ m = Head(sup[k].todo)
    BY <2>1, <2>2, <2>4, <2>18, HandledAsk
  <2>17. MailInv' /\ \A j \in Sups : sup'[j].todo = sup[j].todo /\ (sup[j].acked => sup'[j].acked)
    BY <2>1, <2>2, <2>4, <2>18, HandledAsk
  <2>6. sup[k].todo \in Seq(Msg) /\ 1 \in 1 .. Len(sup[k].todo) /\ sup[k].todo[1] = m
    BY <2>5, PanicTypes
  <2>7. Len(sup[k].todo) = 1 /\ subState[c] = "made" /\ Adds(k, c)
    <3>1. OwnTodo(k)
      BY DEF PanicInv, TodoInv
    <3>2. /\ 1 = Len(sup[k].todo)
          /\ (1 = 1 /\ sup[k].acked) \/ subState[m.sub] = "made"
      BY <2>2, <2>6, <3>1 DEF OwnTodo
    <3>3. Adds(k, c)
      BY <2>2, <2>3, <2>6 DEF Adds
    <3> QED BY <2>3, <2>5, <3>2, <3>3
  <2>9. \A h \in Gens, t \in Sessions : Channel(h, t) # c
    BY <1>0, <1>a, <2>7
  <2>12. \A d \in Subs \ {c, Channel(g, s)} : subState'[d] = subState[d]
    BY <1>0, <2>4
  <2>8. TodoInv'
    <3>1. ASSUME NEW j \in Sups PROVE OwnTodo(j)'
      <4>1. CASE j = k
        <5>1. sup'[k].todo = sup[k].todo /\ sup'[k].acked
          BY <2>5, <2>17
        <5>2. subState'[c] # "unused"
          BY <2>4
        <5>3. \A i \in 1 .. Len(sup[k].todo) : i = 1
          BY <2>7
        <5> QED BY <2>2, <2>3, <2>6, <2>7, <4>1, <5>1, <5>2, <5>3 DEF PanicInv, TodoInv, OwnTodo
      <4>2. CASE j # k
        <5>1. sup'[j].todo = sup[j].todo /\ (sup[j].acked => sup'[j].acked) /\ OwnTodo(j) /\ ~Adds(j, c)
          BY <2>7, <2>17, <4>2 DEF PanicInv, TodoInv
        <5>2. ASSUME NEW i \in 1 .. Len(sup[j].todo), sup[j].todo[i].op = "add"
              PROVE  /\ sup[j].todo[i].sub \in Subs /\ sup[j].todo[i].sub # c
                     /\ subState[sup[j].todo[i].sub] # "unused" => subState'[sup[j].todo[i].sub] # "unused"
                     /\ subState[sup[j].todo[i].sub] = "made" => subState'[sup[j].todo[i].sub] = "made"
          <6>1. sup[j].todo[i].sub \in Subs /\ sup[j].todo[i].sub # c
            BY <5>1, <5>2, PanicTypes DEF Adds
          <6>2. PICK d \in Subs : d = sup[j].todo[i].sub
            BY <6>1
          <6>3. subState[d] = "made" => d # Channel(g, s)
            BY <1>0, <1>a, <2>3
          <6>4. subState[d] # "unused" => subState'[d] # "unused"
            BY <1>0, <2>4
          <6>5. subState[d] = "made" => subState'[d] = "made"
            BY <2>12, <6>1, <6>2, <6>3
          <6> QED BY <6>1, <6>2, <6>4, <6>5
        <5> QED BY <5>1, <5>2 DEF OwnTodo
      <4> QED BY <4>1, <4>2
    <3>2. \A j \in Sups, d \in Subs : Adds(j, d)' => Adds(j, d)
      BY <2>17 DEF Adds
    <3> QED BY <3>1, <3>2 DEF PanicInv, TodoInv
  <2>10. Channel(g, s)' = c
    BY <1>0, <2>4 DEF Handled, Channel, Orchestrator
  <2>11. \A h \in Gens, t \in Sessions : h # g \/ t # s => Channel(h, t)' = Channel(h, t)
    BY <1>0, <2>4 DEF Handled, Channel, Orchestrator
  <2>13. subState'[c] = "open"
    BY <2>4, <2>9
  <2>14. TablesInv'
    <3>1. ASSUME NEW h \in Gens, NEW t \in Sessions, Channel(h, t)' # NoSub
          PROVE  subState'[Channel(h, t)'] = "open"
      <4>1. CASE h = g /\ t = s
        BY <2>10, <2>13, <4>1
      <4>2. CASE h # g \/ t # s
        <5>1. Channel(h, t)' = Channel(h, t) /\ Channel(h, t) # NoSub
          BY <2>11, <3>1, <4>2
        <5>2. Channel(h, t) # Channel(g, s) /\ Channel(h, t) # c
          BY <2>9, <4>2, <5>1 DEF PanicInv, TablesInv
        <5>3. subState'[Channel(h, t)] = subState[Channel(h, t)]
          BY <1>0, <2>12, <5>1, <5>2
        <5> QED BY <1>a, <5>1, <5>3
      <4> QED BY <4>1, <4>2
    <3>2. ASSUME NEW h \in Gens, NEW l \in Gens, NEW t \in Sessions, NEW u \in Sessions,
                 Channel(h, t)' # NoSub, Channel(h, t)' = Channel(l, u)'
          PROVE  h = l /\ t = u
      <4>1. CASE (h # g \/ t # s) /\ (l # g \/ u # s)
        <5>1. Channel(h, t) # NoSub /\ Channel(h, t) = Channel(l, u)
          BY <2>11, <3>2, <4>1
        <5> QED BY <5>1 DEF PanicInv, TablesInv
      <4>2. CASE h = g /\ t = s /\ (l # g \/ u # s)
        BY <2>9, <2>10, <2>11, <3>2, <4>2
      <4>3. CASE l = g /\ u = s /\ (h # g \/ t # s)
        BY <2>9, <2>10, <2>11, <3>2, <4>3
      <4> QED BY <4>1, <4>2, <4>3
    <3> QED BY <3>1, <3>2 DEF TablesInv
  <2>15. ~panicked'
    BY <1>0, <1>a, <2>4
  <2> QED BY <2>8, <2>14, <2>15, <2>17
<1> QED BY <1>1, <1>2, <1>3, <1>4, <1>5, <1>6 DEF OrchStep

\* The supervisor k turns to messages that it has just made, or to its next one; those of
\* the others do not change.
LEMMA SupChanges ==
  ASSUME PanicInv, NEW k \in Sups, \A j \in Sups \ {k} : sup'[j] = sup[j],
         sup[k].at # "wait" \/ sup[k].acked, ~sup'[k].acked, UNCHANGED <<mailbox, orch>>,
         \A c \in Subs : subState[c] = "open" => subState'[c] = "open"
  PROVE  MailInv' /\ TablesInv'
<1>1. MailInv'
  <2>1. ASSUME NEW g \in Gens, NEW i \in Nat, AskAt(g, i)
        PROVE  sup'[mailbox[g][i].by] = sup[mailbox[g][i].by]
    <3>1. Awaited(mailbox[g][i]) /\ mailbox[g][i].by \in Sups
      BY <2>1, MailFactsOf
    <3>2. mailbox[g][i].by # k
      BY <3>1 DEF Awaited
    <3> QED BY <3>1, <3>2
  <2>2. \A g \in Gens, i \in Nat : AskAt(g, i) => Awaited(mailbox[g][i])
    BY DEF PanicInv, MailInv
  <2>3. \A j \in Sups : sup'[j].acked => sup'[j].at = "wait"
    BY DEF PanicInv, MailInv
  <2> QED BY <2>1, <2>2, <2>3 DEF PanicInv, MailInv, AskAt, Awaited
<1>2. \A g \in Gens, s \in Sessions : Channel(g, s)' = Channel(g, s) /\ Channel(g, s) \in Subs \cup {NoSub}
  BY PanicTypes DEF Channel
<1>3. TablesInv'
  <2>1. ASSUME NEW g \in Gens, NEW s \in Sessions, Channel(g, s)' # NoSub
        PROVE  subState'[Channel(g, s)'] = "open"
    <3>1. Channel(g, s)' = Channel(g, s) /\ Channel(g, s) # NoSub /\ Channel(g, s) \in Subs
      BY <1>2, <2>1
    <3>2. subState[Channel(g, s)] = "open"
      BY <3>1 DEF PanicInv, TablesInv
    <3> QED BY <3>1, <3>2
  <2> QED BY <1>2, <2>1 DEF PanicInv, TablesInv
<1> QED BY <1>1, <1>3

LEMMA TodoTail ==
  ASSUME PanicInv, NEW k \in Sups, \A j \in Sups \ {k} : sup'[j] = sup[j],
         sup[k].todo # <<>>, sup'[k].todo = Tail(sup[k].todo), UNCHANGED subState
  PROVE  TodoInv'
<1>1. sup[k].todo \in Seq(Msg) /\ Len(sup[k].todo) \in Nat
  BY PanicTypes
<1>2. /\ Len(sup'[k].todo) = Len(sup[k].todo) - 1
      /\ \A i \in 1 .. Len(sup'[k].todo) :
           i + 1 \in 1 .. Len(sup[k].todo) /\ sup'[k].todo[i] = sup[k].todo[i + 1]
  BY <1>1
<1>3. OwnTodo(k)'
  <2>1. OwnTodo(k)
    BY DEF PanicInv, TodoInv
  <2>2. ASSUME NEW i \in 1 .. Len(sup'[k].todo)
        PROVE  LET m == sup'[k].todo[i]
               IN /\ m.op # "active" => m.by = k
                  /\ m.op = "add" => /\ i = Len(sup'[k].todo) /\ subState[m.sub] # "unused"
                                     /\ subState[m.sub] = "made"
    <3>1. i + 1 \in 1 .. Len(sup[k].todo) /\ sup'[k].todo[i] = sup[k].todo[i + 1] /\ i + 1 # 1
      BY <1>2
    <3>2. LET m == sup[k].todo[i + 1]
          IN /\ m.op # "active" => m.by = k
             /\ m.op = "add" => /\ i + 1 = Len(sup[k].todo) /\ subState[m.sub] # "unused"
                                /\ subState[m.sub] = "made"
      BY <2>1, <3>1 DEF OwnTodo
    <3>3. i + 1 = Len(sup[k].todo) => i = Len(sup'[k].todo)
      BY <1>1, <1>2
    <3> QED BY <3>1, <3>2, <3>3
  <2> QED BY <2>2 DEF OwnTodo
<1>4. \A c \in Subs : Adds(k, c)' => Adds(k, c)
  BY <1>2 DEF Adds
<1> QED BY <1>3, <1>4, TodoStep

\* New messages of a supervisor, none of which adds a channel.
LEMMA TodoPlain ==
  ASSUME PanicInv, NEW k \in Sups, \A j \in Sups \ {k} : sup'[j] = sup[j], UNCHANGED subState,
         \A i \in 1 .. Len(sup'[k].todo) : /\ sup'[k].todo[i].op # "add"
                                           /\ sup'[k].todo[i].op # "active" => sup'[k].todo[i].by = k
  PROVE  TodoInv'
<1>1. OwnTodo(k)'
  BY DEF OwnTodo
<1>2. \A c \in Subs : ~Adds(k, c)'
  BY DEF Adds
<1> QED BY <1>1, <1>2, TodoStep

LEMMA TakeoutFacts ==
  ASSUME NEW k \in Sups, NEW s \in Sessions
  PROVE  /\ Takeout(k, s) \in Seq(Msg) /\ Len(Takeout(k, s)) \in {0, 1}
         /\ \A i \in 1 .. Len(Takeout(k, s)) : Takeout(k, s)[i] = RemoveMsg(k, s)
<1>1. RemoveMsg(k, s) \in Msg
  BY DEF RemoveMsg, Msg
<1>2. CASE listed
  BY <1>1, <1>2 DEF Takeout
<1>3. CASE ~listed
  BY <1>3 DEF Takeout
<1> QED BY <1>2, <1>3

\* What a supervisor asks of a streamer, and what it no longer waits for.
LEMMA SupStepPanic ==
  ASSUME PanicInv, NEW k \in Sups, SupStep(k)
  PROVE  MailInv' /\ TodoInv' /\ TablesInv' /\ ~panicked'
<1>0. /\ sup \in [Sups -> Supervisor] /\ sup[k] \in Supervisor /\ sup[k].todo \in Seq(Msg)
      /\ sup[k].acked \in BOOLEAN /\ mailbox \in [Gens -> Seq(Msg)]
      /\ sup[k].at # "idle" => sup[k].to \in Gens /\ sup[k].todo # <<>>
      /\ subState \in [Subs -> {"unused", "made", "open", "closed"}]
  BY PanicTypes DEF TypeOK, SupsOK
<1>a. sup[k].acked => sup[k].at = "wait"
  BY DEF PanicInv, MailInv
<1>b. UNCHANGED <<orch, panicked>> /\ ~panicked
  BY DEF PanicInv, SupStep, SupFinishes, SupReserve, SupReserved, SupStartDone, SupRegister,
         SupPeerClose, SupTeardown, SupClear, SupUnlist, SupLook, SupPost, SupPostTimeout, SupAcked,
         SupStop, SupWaited, SupStopped
<1>c. ASSUME UNCHANGED <<mailbox, subState>>, sup[k].at = "idle",
             \A j \in Sups \ {k} : sup'[j] = sup[j], sup'[k].acked = sup[k].acked, TodoInv'
      PROVE  MailInv' /\ TodoInv' /\ TablesInv' /\ ~panicked'
  BY <1>a, <1>b, <1>c, SupChanges
<1>d. ASSUME UNCHANGED <<mailbox, subState>>, NEW stage, sup' = [sup EXCEPT ![k].stage = stage]
      PROVE  MailInv' /\ TodoInv' /\ TablesInv' /\ ~panicked'
  <2>1. \A j \in Sups : /\ sup'[j].todo = sup[j].todo /\ sup'[j].at = sup[j].at
                        /\ sup'[j].acked = sup[j].acked
    BY <1>0, <1>d DEF Supervisor
  <2>2. TodoInv'
    BY <1>d, <2>1, TodoKept
  <2>3. \A g \in Gens, i \in Nat : AskAt(g, i) => Awaited(mailbox[g][i]) /\ mailbox[g][i].by \in Sups
    BY MailFactsOf
  <2>4. MailInv'
    BY <1>d, <2>1, <2>3 DEF PanicInv, MailInv, AskAt, Awaited
  <2>5. TablesInv'
    BY <1>b, <1>d DEF PanicInv, TablesInv, Channel
  <2> QED BY <1>b, <2>2, <2>4, <2>5
<1>e. ASSUME UNCHANGED <<mailbox, subState, sup>>
      PROVE  MailInv' /\ TodoInv' /\ TablesInv' /\ ~panicked'
  BY <1>b, <1>e, KeepsPanic
<1>1. CASE SupReserve(k) \/ SupPeerClose(k) \/ SupClear(k)
  <2>1. sup[k].at = "idle" /\ UNCHANGED <<mailbox, subState>>
    <3>1. CASE SupReserve(k)
      BY <3>1 DEF SupReserve, Ready
    <3>2. CASE SupPeerClose(k)
      BY <3>2 DEF SupPeerClose, Ready
    <3>3. CASE SupClear(k)
      BY <3>3 DEF SupClear, Ready
    <3> QED BY <1>1, <3>1, <3>2, <3>3
  <2>2. /\ \A j \in Sups \ {k} : sup'[j] = sup[j]
        /\ sup'[k].acked = sup[k].acked
        /\ sup'[k].todo = <<ActiveMsg(TRUE)>> \/ \E s \in Sessions : sup'[k].todo = Takeout(k, s)
    <3>1. CASE SupReserve(k)
      BY <1>0, <3>1 DEF SupReserve, Supervisor
    <3>2. CASE SupPeerClose(k)
      <4>1. PICK s \in UNION {sup[j].peers : j \in Sups} :
              sup' = [sup EXCEPT ![k].todo = Takeout(k, s), ![k].peers = @ \ {s}]
        BY <3>2 DEF SupPeerClose
      <4>2. s \in Sessions
        BY <1>0, <4>1 DEF Supervisor
      <4> QED BY <1>0, <4>1, <4>2 DEF Supervisor
    <3>3. CASE SupClear(k)
      <4>1. PICK s \in sup[k].peers :
              sup' = [sup EXCEPT ![k].todo = Takeout(k, s), ![k].peers = @ \ {s}]
        BY <3>3 DEF SupClear
      <4>2. s \in Sessions
        BY <1>0, <4>1 DEF Supervisor
      <4> QED BY <1>0, <4>1, <4>2 DEF Supervisor
    <3> QED BY <1>1, <3>1, <3>2, <3>3
  <2>3. \A i \in 1 .. Len(sup'[k].todo) :
          /\ sup'[k].todo[i].op # "add"
          /\ sup'[k].todo[i].op # "active" => sup'[k].todo[i].by = k
    <3>1. CASE sup'[k].todo = <<ActiveMsg(TRUE)>>
      BY <3>1 DEF ActiveMsg
    <3>2. ASSUME NEW s \in Sessions, sup'[k].todo = Takeout(k, s)
          PROVE  \A i \in 1 .. Len(sup'[k].todo) :
                   /\ sup'[k].todo[i].op # "add"
                   /\ sup'[k].todo[i].op # "active" => sup'[k].todo[i].by = k
      <4>1. \A i \in 1 .. Len(Takeout(k, s)) : Takeout(k, s)[i] = RemoveMsg(k, s)
        BY TakeoutFacts
      <4>2. \A i \in 1 .. Len(sup'[k].todo) : sup'[k].todo[i] = RemoveMsg(k, s)
        BY <3>2, <4>1
      <4>3. RemoveMsg(k, s).op = "remove" /\ RemoveMsg(k, s).by = k
        BY DEF RemoveMsg
      <4> QED BY <4>2, <4>3
    <3> QED BY <2>2, <3>1, <3>2
  <2>4. TodoInv'
    BY <2>1, <2>2, <2>3, TodoPlain
  <2> QED BY <1>c, <2>1, <2>2, <2>4
<1>2. CASE SupReserved(k) \/ SupTeardown(k) \/ SupWaited(k) \/ SupStopped(k)
  <2>1. CASE SupReserved(k)
    BY <1>d, <2>1 DEF SupReserved
  <2>2. CASE SupTeardown(k)
    BY <1>d, <2>2 DEF SupTeardown
  <2>3. CASE SupWaited(k)
    BY <1>d, <2>3 DEF SupWaited
  <2>4. CASE SupStopped(k)
    BY <1>d, <2>4 DEF SupStopped
  <2> QED BY <1>2, <2>1, <2>2, <2>3, <2>4
<1>3. CASE SupStop(k)
  <2>1. UNCHANGED <<mailbox, subState>> /\ \E stage : sup' = [sup EXCEPT ![k].stage = stage]
    <3>1. UNCHANGED <<mailbox, subState>>
      BY <1>3 DEF SupStop
    <3>2. CASE ~running /\ ~starting /\ ~reading
      <4>1. sup' = [sup EXCEPT ![k].stage = "drain"]
        BY <1>3, <3>2 DEF SupStop
      <4> QED BY <3>1, <4>1
    <3>3. CASE ~(~running /\ ~starting /\ ~reading)
      <4>1. sup' = [sup EXCEPT ![k].stage = IF reading THEN "wait" ELSE "end"]
        BY <1>3, <3>3 DEF SupStop
      <4> QED BY <3>1, <4>1
    <3> QED BY <3>2, <3>3
  <2> QED BY <1>d, <2>1
<1>4. CASE SupStartDone(k)
  BY <1>4, <1>e DEF SupStartDone, sups
<1>5. CASE SupUnlist(k)
  <2>1. CASE listed
    <3>1. /\ sup' = [sup EXCEPT ![k].stage = "stop", ![k].todo = <<ActiveMsg(FALSE)>>]
          /\ sup[k].at = "idle" /\ UNCHANGED <<mailbox, subState>>
      BY <1>5, <2>1 DEF SupUnlist, Ready
    <3>2. /\ \A j \in Sups \ {k} : sup'[j] = sup[j]
          /\ sup'[k].acked = sup[k].acked /\ sup'[k].todo = <<ActiveMsg(FALSE)>>
      BY <1>0, <3>1 DEF Supervisor
    <3>3. \A i \in 1 .. Len(sup'[k].todo) :
            /\ sup'[k].todo[i].op # "add"
            /\ sup'[k].todo[i].op # "active" => sup'[k].todo[i].by = k
      BY <3>2 DEF ActiveMsg
    <3>4. TodoInv'
      BY <3>1, <3>2, <3>3, TodoPlain
    <3> QED BY <1>c, <3>1, <3>2, <3>4
  <2>2. CASE ~listed
    BY <1>5, <1>d, <2>2 DEF SupUnlist
  <2> QED BY <2>1, <2>2
<1>6. CASE SupRegister(k)
  <2>1. PICK s \in Sessions, c \in 1 .. budget.subs :
          /\ subState[c] = "unused"
          /\ sup' = [sup EXCEPT ![k].todo = Append(Takeout(k, s), AddMsg(k, s, c)),
                                ![k].peers = @ \cup {s}]
          /\ subState' = [subState EXCEPT ![c] = "made"]
    BY <1>6 DEF SupRegister
  <2>2. c \in Subs
    BY GenFacts, PanicTypes DEF TypeOK, OthersOK
  <2>3. sup[k].at = "idle" /\ UNCHANGED mailbox
    BY <1>6 DEF SupRegister, Ready
  <2>4. /\ sup'[k].todo = Append(Takeout(k, s), AddMsg(k, s, c)) /\ sup'[k].acked = sup[k].acked
        /\ \A j \in Sups \ {k} : sup'[j] = sup[j]
    BY <1>0, <2>1 DEF Supervisor
  <2>5. subState'[c] = "made" /\ \A d \in Subs \ {c} : subState'[d] = subState[d]
    BY <1>0, <2>1, <2>2
  <2>6. AddMsg(k, s, c) \in Msg
    BY <2>2 DEF AddMsg, Msg
  <2> DEFINE n == Len(Takeout(k, s))
  <2>7. /\ n \in Nat /\ Len(sup'[k].todo) = n + 1 /\ sup'[k].todo[n + 1] = AddMsg(k, s, c)
        /\ \A i \in 1 .. n : sup'[k].todo[i] = RemoveMsg(k, s)
    BY <2>4, <2>6, TakeoutFacts
  <2>8. \A i \in 1 .. n + 1 : i \in 1 .. n \/ i = n + 1
    BY <2>7
  <2> HIDE DEF n
  <2>9. OwnTodo(k)'
    <3>1. ASSUME NEW i \in 1 .. Len(sup'[k].todo)
          PROVE  LET m == sup'[k].todo[i]
                 IN /\ m.op # "active" => m.by = k
                    /\ m.op = "add" => /\ i = Len(sup'[k].todo) /\ subState'[m.sub] # "unused"
                                       /\ (i = 1 /\ sup'[k].acked) \/ subState'[m.sub] = "made"
      <4>1. CASE i \in 1 .. n
        BY <2>7, <4>1 DEF RemoveMsg
      <4>2. CASE i = n + 1
        BY <2>5, <2>7, <4>2 DEF AddMsg
      <4> QED BY <2>7, <2>8, <4>1, <4>2
    <3> QED BY <3>1 DEF OwnTodo
  <2>10. \A d \in Subs : Adds(k, d)' => subState[d] = "unused"
    <3>1. ASSUME NEW d \in Subs, NEW i \in 1 .. Len(sup'[k].todo),
                 sup'[k].todo[i].op = "add", sup'[k].todo[i].sub = d
          PROVE  subState[d] = "unused"
      <4>1. CASE i \in 1 .. n
        BY <2>7, <3>1, <4>1 DEF RemoveMsg
      <4>2. CASE i = n + 1
        BY <2>1, <2>7, <3>1, <4>2 DEF AddMsg
      <4> QED BY <2>7, <2>8, <4>1, <4>2
    <3> QED BY <3>1 DEF Adds
  <2>11. /\ \A d \in Subs : subState[d] = "made" => subState'[d] = "made"
         /\ \A d \in Subs : subState[d] # "unused" => subState'[d] # "unused"
         /\ \A d \in Subs : subState[d] = "open" => subState'[d] = "open"
    BY <2>1, <2>5
  <2>12. TodoInv'
    BY <2>4, <2>9, <2>10, <2>11, TodoStep
  <2> QED BY <1>a, <1>b, <2>3, <2>4, <2>11, <2>12, SupChanges
<1>7. CASE SupLook(k)
  <2>1. sup[k].at = "idle" /\ sup[k].todo # <<>> /\ UNCHANGED <<mailbox, subState>>
    BY <1>7 DEF SupLook
  <2>2. CASE streamCtrl = NoGen
    <3>1. /\ sup'[k].acked = sup[k].acked /\ sup'[k].todo = Tail(sup[k].todo)
          /\ \A j \in Sups \ {k} : sup'[j] = sup[j]
      BY <1>0, <1>7, <2>2 DEF SupLook, Supervisor
    <3> QED BY <1>c, <2>1, <3>1, TodoTail
  <2>3. CASE streamCtrl # NoGen
    <3>1. /\ \A j \in Sups : sup'[j].acked = sup[j].acked /\ sup'[j].todo = sup[j].todo
          /\ \A j \in Sups \ {k} : sup'[j] = sup[j]
      BY <1>0, <1>7, <2>3 DEF SupLook, Supervisor
    <3>2. TodoInv'
      BY <2>1, <3>1, TodoKept
    <3> QED BY <1>c, <2>1, <3>1, <3>2
  <2> QED BY <2>2, <2>3
<1>8. CASE SupPostTimeout(k) \/ SupAcked(k)
  <2>1. /\ sup[k].at # "idle" /\ (sup[k].at # "wait" \/ sup[k].acked) /\ SupGoesOn(k)
        /\ UNCHANGED <<mailbox, subState>>
    BY <1>8 DEF SupPostTimeout, SupAcked
  <2>2. /\ ~sup'[k].acked /\ sup'[k].todo = Tail(sup[k].todo)
        /\ \A j \in Sups \ {k} : sup'[j] = sup[j]
    BY <1>0, <2>1 DEF SupGoesOn, Supervisor
  <2>3. TodoInv'
    BY <1>0, <2>1, <2>2, TodoTail
  <2> QED BY <1>b, <2>1, <2>2, <2>3, SupChanges
<1>9. CASE SupPost(k)
  <2>1. /\ sup[k].at = "post" /\ sup[k].todo # <<>> /\ UNCHANGED subState /\ sup[k].to \in Gens
        /\ ~sup[k].acked
    BY <1>0, <1>9, <1>a DEF SupPost
  <2>2. PICK g \in Gens, m \in Msg : g = sup[k].to /\ m = Head(sup[k].todo)
    BY <1>0, <2>1
  <2>3. mailbox' = [mailbox EXCEPT ![g] = Append(@, m)]
    BY <1>9, <2>2 DEF SupPost
  <2>4. /\ mailbox[g] \in Seq(Msg) /\ mailbox'[g] = Append(mailbox[g], m)
        /\ \A h \in Gens \ {g} : mailbox'[h] = mailbox[h]
    BY <1>0, <2>3
  <2>5. \A h \in Gens, i \in Nat :
          AskAt(h, i)' => \/ AskAt(h, i) /\ mailbox'[h][i] = mailbox[h][i]
                          \/ /\ h = g /\ i = Len(mailbox[g]) + 1 /\ mailbox'[h][i] = m
                             /\ m.op # "active"
    <3>1. /\ Len(mailbox[g]) \in Nat /\ Len(Append(mailbox[g], m)) = Len(mailbox[g]) + 1
          /\ Append(mailbox[g], m)[Len(mailbox[g]) + 1] = m
          /\ \A i \in 1 .. Len(mailbox[g]) : Append(mailbox[g], m)[i] = mailbox[g][i]
      BY <2>4
    <3>2. \A i \in 1 .. Len(mailbox[g]) + 1 : i \in 1 .. Len(mailbox[g]) \/ i = Len(mailbox[g]) + 1
      BY <3>1
    <3> QED BY <2>4, <3>1, <3>2 DEF AskAt
  <2>6. \A h \in Gens, i \in Nat : AskAt(h, i) => mailbox[h][i].by # k /\ mailbox[h][i].by \in Sups
    BY <2>1, MailFactsOf DEF Awaited
  <2>7. TablesInv'
    BY <1>b, <2>1 DEF PanicInv, TablesInv, Channel
  <2>8. m.op # "active" => m.by = k
    <3>1. OwnTodo(k) /\ 1 \in 1 .. Len(sup[k].todo) /\ sup[k].todo[1] = m
      BY <1>0, <2>1, <2>2 DEF PanicInv, TodoInv
    <3> QED BY <3>1 DEF OwnTodo
  <2>9. \A h, l \in Gens, i, j \in Nat :
          AskAt(h, i)' /\ AskAt(l, j)' /\ mailbox'[h][i].by = mailbox'[l][j].by => h = l /\ i = j
    <3>1. ASSUME NEW h \in Gens, NEW l \in Gens, NEW i \in Nat, NEW j \in Nat, AskAt(h, i), AskAt(l, j),
                 mailbox[h][i].by = mailbox[l][j].by
          PROVE  h = l /\ i = j
      BY <3>1, MailFactsOf
    <3> QED BY <2>5, <2>6, <2>8, <3>1
  <2>10. sup' = [sup EXCEPT ![k].at = "wait"] \/ (m.op = "active" /\ SupGoesOn(k))
    BY <1>9, <2>2 DEF SupPost
  <2>11. CASE m.op = "active"
    <3>1. SupGoesOn(k)
      BY <1>9, <2>2, <2>11 DEF SupPost
    <3>2. /\ ~sup'[k].acked /\ sup'[k].todo = Tail(sup[k].todo)
          /\ \A j \in Sups \ {k} : sup'[j] = sup[j]
      BY <1>0, <3>1 DEF SupGoesOn, Supervisor
    <3>3. \A h \in Gens, i \in Nat : AskAt(h, i)' => Awaited(mailbox[h][i])'
      <4>1. ASSUME NEW h \in Gens, NEW i \in Nat, AskAt(h, i)'
            PROVE  Awaited(mailbox[h][i])'
        <5>1. AskAt(h, i) /\ mailbox'[h][i] = mailbox[h][i]
          BY <2>5, <2>11, <4>1
        <5>2. Awaited(mailbox[h][i]) /\ mailbox[h][i].by \in Sups \ {k}
          BY <2>6, <5>1, MailFactsOf
        <5>3. sup'[mailbox[h][i].by] = sup[mailbox[h][i].by]
          BY <3>2, <5>2
        <5> QED BY <5>1, <5>2, <5>3 DEF Awaited
      <4> QED BY <4>1
    <3>4. \A j \in Sups : sup'[j].acked => sup'[j].at = "wait"
      BY <3>2 DEF PanicInv, MailInv
    <3>5. TodoInv'
      BY <2>1, <3>2, TodoTail
    <3> QED BY <1>b, <2>7, <2>9, <3>3, <3>4, <3>5 DEF MailInv
  <2>12. CASE m.op # "active"
    <3>1. sup' = [sup EXCEPT ![k].at = "wait"]
      BY <2>10, <2>12
    <3>2. /\ \A j \in Sups : sup'[j].todo = sup[j].todo /\ sup'[j].acked = sup[j].acked
          /\ sup'[k].at = "wait" /\ \A j \in Sups \ {k} : sup'[j] = sup[j]
      BY <1>0, <3>1 DEF Supervisor
    <3>3. \A h \in Gens, i \in Nat : AskAt(h, i)' => Awaited(mailbox[h][i])'
      <4>1. ASSUME NEW h \in Gens, NEW i \in Nat, AskAt(h, i)'
            PROVE  Awaited(mailbox[h][i])'
        <5>1. CASE AskAt(h, i) /\ mailbox'[h][i] = mailbox[h][i]
          <6>1. Awaited(mailbox[h][i]) /\ mailbox[h][i].by \in Sups \ {k}
            BY <2>6, <5>1, MailFactsOf
          <6>2. sup'[mailbox[h][i].by] = sup[mailbox[h][i].by]
            BY <3>2, <6>1
          <6> QED BY <5>1, <6>1, <6>2 DEF Awaited
        <5>2. CASE mailbox'[h][i] = m
          <6>1. m.by = k /\ m = Head(sup'[k].todo) /\ ~sup'[k].acked
            BY <2>1, <2>2, <2>8, <2>12, <3>2
          <6> QED BY <3>2, <5>2, <6>1 DEF Awaited
        <5> QED BY <2>5, <4>1, <5>1, <5>2
      <4> QED BY <4>1
    <3>4. \A j \in Sups : sup'[j].acked => sup'[j].at = "wait"
      BY <3>2 DEF PanicInv, MailInv
    <3>5. TodoInv'
      BY <2>1, <3>2, TodoKept
    <3> QED BY <1>b, <2>7, <2>9, <3>3, <3>4, <3>5 DEF MailInv
  <2> QED BY <2>11, <2>12
<1> QED
  BY <1>1, <1>2, <1>3, <1>4, <1>5, <1>6, <1>7, <1>8, <1>9 DEF SupStep, SupFinishes

\* A coordinator uses the channel of its own generation, which only it closes.
LEMMA CoordStepPanic ==
  ASSUME PanicInv, NEW g \in Gens, CoordStep(g)
  PROVE  MailInv' /\ TodoInv' /\ TablesInv' /\ ~panicked'
<1>1. UNCHANGED <<mailbox, sup, subState, orch>>
  BY CoordStepKeeps
<1>2. MailInv' /\ TodoInv' /\ TablesInv'
  BY <1>1, KeepsPanic
<1>3. frameChan = g /\ coord[g].on \in {NoGen, g} /\ ~panicked
  BY CoordStepMoves, PanicTypes DEF PanicInv, FrameInv, ReadInv, Current, OwnChan
<1>4. coord[g].at \notin {"closed", "done"} => g \notin closed
  BY DEF PanicInv, FrameInv, ClosedEnded
<1>5. CASE CoordDrain(g) \/ CoordRefill(g)
  <2>1. g \notin closed
    BY <1>4, <1>5 DEF CoordDrain, CoordRefill
  <2>2. CASE CoordDrain(g)
    BY <1>2, <1>3, <2>1, <2>2 DEF CoordDrain
  <2>3. CASE CoordRefill(g)
    <3>1. panicked' = (panicked \/ frameChan \in closed)
      BY <2>3 DEF CoordRefill
    <3> QED BY <1>2, <1>3, <2>1, <3>1
  <2> QED BY <1>5, <2>2, <2>3
<1>6. CASE CoordSend(g)
  BY <1>2, <1>3, <1>4, <1>6 DEF CoordSend
<1>7. CASE CoordClose(g)
  BY <1>2, <1>3, <1>4, <1>7 DEF CoordClose
<1>8. CASE ~CoordDrain(g) /\ ~CoordRefill(g) /\ ~CoordSend(g) /\ ~CoordClose(g)
  <2>1. UNCHANGED panicked
    BY <1>8 DEF CoordStep, CoordGate, CoordStopped, CoordEnd, CoordDrop, CoordRead, CoordDrained,
           CoordEnter, CoordGiveUp, CoordExit
  <2> QED BY <1>2, <1>3, <2>1
<1> QED BY <1>5, <1>6, <1>7, <1>8

LEMMA StepPanicInv == PanicInv /\ [Next]_vars /\ ~again' => PanicInv'
<1> SUFFICES ASSUME PanicInv, [Next]_vars, ~again'
             PROVE  MailInv' /\ TodoInv' /\ TablesInv' /\ ~panicked'
  BY StepFrameInv DEF PanicInv
<1>1. ASSUME NEW g \in Gens, NEW gated \in BOOLEAN, OpenPipeline(g, gated),
             UNCHANGED <<mailbox, subState, panicked, sup>>
      PROVE  MailInv' /\ TodoInv' /\ TablesInv' /\ ~panicked'
  <2>1. orch' = [orch EXCEPT ![g].at = "loop"]
    BY <1>1, OpensOne, PanicTypes
  <2>2. \A h \in Gens : orch'[h].subs = orch[h].subs
    BY <2>1, PanicTypes DEF Orchestrator
  <2> QED BY <1>1, <2>2, KeepsPanic DEF PanicInv
<1>2. ASSUME UNCHANGED <<mailbox, sup, subState, panicked, orch>>
      PROVE  MailInv' /\ TodoInv' /\ TablesInv' /\ ~panicked'
  BY <1>2, KeepsPanic DEF PanicInv
<1>3. ASSUME NEW k \in Sups, StartBegin(k) \/ StartStep(k)
      PROVE  MailInv' /\ TodoInv' /\ TablesInv' /\ ~panicked'
  <2>1. CASE StartPipeline(k)
    BY <1>1, <1>2, <2>1 DEF StartPipeline, sups
  <2>2. CASE ~StartPipeline(k)
    <3>1. UNCHANGED <<mailbox, sup, subState, panicked, orch>>
      BY <1>3, <2>2 DEF StartBegin, StartStep, StartConnect, StartOpenGate, StartFinish,
             StartReturn, sups
    <3> QED BY <1>2, <3>1
  <2> QED BY <2>1, <2>2
<1>4. ASSUME NEW r \in Readers, ReaderStep(r)
      PROVE  MailInv' /\ TodoInv' /\ TablesInv' /\ ~panicked'
  BY <1>1, <1>2, <1>4 DEF ReaderStep, ReaderCheck, ReaderPipeline, sups
<1>5. CASE DeviceEnds \/ UNCHANGED vars
  BY <1>2, <1>5 DEF DeviceEnds, vars, sups
<1> QED BY <1>3, <1>4, <1>5, CoordStepPanic, OrchStepPanic, SupStepPanic DEF Next

\* No goroutine closes a channel twice, sends into a closed one or meets a nil frame: not
\* the coordinator, whose deferred function takes the frame channel from a field that
\* others replace, not an orchestrator that replaces, removes or releases subscribers for
\* several supervisors (android_stream.go), until a stopped streamer is started again.
THEOREM ChannelsCloseOnce == Spec => []NoPanic
<1> DEFINE Inv == TypeOK /\ (again \/ PanicInv)
<1>1. Init => Inv
  <2> SUFFICES ASSUME Init PROVE PanicInv
    BY InitTypeOK
  <2>1. \A k \in Sups : sup[k].todo = <<>> /\ ~sup[k].acked
    BY DEF Init, IdleSup
  <2>2. TodoInv
    BY <2>1 DEF TodoInv, OwnTodo, Adds
  <2>3. MailInv
    BY <2>1 DEF Init, MailInv, AskAt
  <2>4. TablesInv
    BY DEF Init, TablesInv, Channel, IdleOrch
  <2>5. ~panicked
    BY DEF Init
  <2> QED BY <2>2, <2>3, <2>4, <2>5, InitFrameInv DEF PanicInv
<1>2. Inv /\ [Next]_vars => Inv'
  BY StepTypeOK, AgainStays, StepPanicInv
<1>3. Inv => NoPanic
  BY DEF PanicInv, NoPanic
<1> QED BY <1>1, <1>2, <1>3, PTL DEF Spec

=============================================================================
