------------------------- MODULE TrapContextProofs -------------------------
(***************************************************************************)
(* Proofs about traps and switches, for any number of user threads and any *)
(* depth of nested handlers.                                               *)
(***************************************************************************)
EXTENDS TrapContextProperties, SequenceTheorems, TLAPS

-----------------------------------------------------------------------------
(* A stack of frames *)

(* What a frame that is pushed does to the ends of a stack. *)
LEMMA Pushed ==
  ASSUME NEW S, NEW q \in Seq(S), NEW e \in S
  PROVE  /\ Append(q, e) \in Seq(S) /\ Append(q, e) # <<>>
         /\ Append(q, e)[1] = IF q = <<>> THEN e ELSE q[1]
         /\ \A i \in 2 .. Len(Append(q, e)) :
              Append(q, e)[i] = IF i \in 2 .. Len(q) THEN q[i] ELSE e
         /\ q = <<>> => Len(Append(q, e)) = 1
  <1>1. /\ Append(q, e) \in Seq(S) /\ Append(q, e) # <<>>
        /\ Len(Append(q, e)) = Len(q) + 1 /\ Len(q) \in Nat
        /\ \A i \in 1 .. Len(q) : Append(q, e)[i] = q[i]
        /\ Append(q, e)[Len(q) + 1] = e
    BY AppendProperties, LenProperties
  <1>2. IF q = <<>> THEN Len(q) = 0 ELSE Len(q) >= 1
    BY EmptySeq, LenProperties
  <1> DEFINE r == Append(q, e)
  <1> HIDE DEF r
  <1>3. /\ r[1] = IF q = <<>> THEN e ELSE q[1]
        /\ \A i \in 2 .. Len(r) : r[i] = IF i \in 2 .. Len(q) THEN q[i] ELSE e
        /\ q = <<>> => Len(r) = 1
    BY <1>1, <1>2 DEF r
  <1> QED
    BY <1>1, <1>3 DEF r

(* What is left of a stack when its last frame is popped. *)
LEMMA Popped ==
  ASSUME NEW S, NEW q \in Seq(S), q # <<>>
  PROVE  /\ q[Len(q)] \in S /\ Len(q) \in Nat \ {0}
         /\ SubSeq(q, 1, Len(q) - 1) \in Seq(S)
         /\ SubSeq(q, 1, Len(q) - 1) = <<>> <=> Len(q) = 1
         /\ Len(SubSeq(q, 1, Len(q) - 1)) = Len(q) - 1
         /\ \A i \in 1 .. Len(q) - 1 : SubSeq(q, 1, Len(q) - 1)[i] = q[i]
  <1>1. Len(q) \in Nat \ {0}
    BY EmptySeq
  <1>2. \A i \in 1 .. (Len(q) - 1) : q[i] \in S
    BY <1>1, ElementOfSeq
  <1> DEFINE r == SubSeq(q, 1, Len(q) - 1)
             n == Len(q)
  <1>3. /\ r \in Seq(S) /\ Len(r) = IF 1 <= n - 1 THEN n - 1 - 1 + 1 ELSE 0
        /\ \A i \in 1 .. (n - 1 - 1 + 1) : r[i] = q[1 + i - 1]
    BY <1>1, <1>2, SubSeqProperties
  <1>4. n \in Nat \ {0}
    BY <1>1
  <1> HIDE DEF r, n
  <1>5. Len(r) = n - 1 /\ \A i \in 1 .. (n - 1) : r[i] = q[i]
    BY <1>3, <1>4
  <1>6. r = <<>> <=> n = 1
    BY <1>3, <1>4, <1>5, EmptySeq
  <1> QED
    BY <1>1, <1>3, <1>5, <1>6, ElementOfSeq DEF r, n

-----------------------------------------------------------------------------
(* The inductive invariant *)

Started == {"first", "second", "handler"}

ContextType ==
  /\ running \in Threads /\ pc \in Places /\ pc.thread = running
  /\ SIE \in BOOLEAN /\ SPIE \in BOOLEAN
  /\ frames \in [Threads -> Seq(Frames)]
  /\ context \in [Threads -> Places]
  /\ due \in [Threads -> Body] /\ \A t \in Threads : due[t].thread = t
  /\ dueSIE \in [Threads -> BOOLEAN]

(* The frame of a handler that interrupted the body of t has what t is due,*)
(* that of a tick at t's start goes back to wrapper or popSppSpie, and one *)
(* that interrupted a handler goes back to it.                             *)
BodyFrame(t, f, place, on) ==
  f.sepc = place /\ f.SPP = ModeOf(t) /\ (t # Out => f.SPIE = on)
StartFrame(t, f, place) ==
  /\ t \in Users /\ place = At(t, "first")
  /\ \/ f.sepc \in {At(t, "wrapper"), At(t, "pop")} /\ f.SPP = "S"
     \/ f.sepc = At(t, "sret")
HandlerFrame(t, f) == f.sepc = At(t, "handler") /\ f.SPP = "S"

StackRight(t, q, place, on) ==
  /\ q # <<>> => BodyFrame(t, q[1], place, on) \/ StartFrame(t, q[1], place)
  /\ \A i \in 2 .. Len(q) : HandlerFrame(t, q[i])
FramesRight == \A t \in Threads : StackRight(t, frames[t], due[t], dueSIE[t])

RunningRight ==
  /\ InHandler <=> frames[running] # <<>>
  /\ InBody => /\ pc = due[running] /\ mode = ModeOf(running)
               /\ running # Out => SIE = dueSIE[running]
  /\ ~InBody => \/ mode = "S"
                \/ mode = "U" /\ pc.at = "sret" /\ running \in astray
  /\ pc.at \notin Started => running # Main /\ due[running] = At(running, "first")
  /\ pc.at = "pop" => SPP = ModeOf(running)
  /\ pc.at = "sret" /\ running \notin astray =>
       SPP = ModeOf(running) /\ sepc = At(running, "first")

(* Where a suspended thread goes on; place is where it is due in its body. *)
Suspended(t, ra, q, place) ==
  \/ ra = At(t, "wrapper") /\ q = <<>> /\ t # Main /\ place = At(t, "first")
  \/ ra = At(t, "handler") /\ q # <<>>
  \/ t = Out /\ ra = place /\ q = <<>>
SuspendedRight ==
  \A t \in Threads \ {running} : Suspended(t, context[t], frames[t], due[t])

(***************************************************************************)
(* Until the output thread has started nobody blocks outside a handler, so *)
(* interrupts are enabled in bodies only; and the output thread cannot be  *)
(* interrupted at its own start, which would take its mode away.           *)
(***************************************************************************)
OutNew == IF running = Out THEN pc.at \notin Started
          ELSE context[Out] = At(Out, "wrapper")
MaskedStack(q) == \A i \in 1 .. Len(q) : q[i].sepc \notin Body => ~q[i].SPIE
StartsMasked ==
  OutNew => /\ ~InBody => ~SIE
            /\ \A t \in Threads : MaskedStack(frames[t])

(* A thread that has gone astray is at its sret, with interrupts enabled,  *)
(* or in a handler that goes back there.                                   *)
AtSret(t) ==
  SIE /\ sepc = At(t, "sret") /\ (mode = "S" => SPP = "U" /\ SPIE)
BackToSret(t, q) == q # <<>> /\ q[1].sepc = At(t, "sret")
AstrayRight ==
  /\ \A t \in astray : /\ t \in Users
                       /\ IF running = t /\ pc.at = "sret" THEN AtSret(t)
                          ELSE BackToSret(t, frames[t]) /\ frames[t][1].SPIE
  /\ \A t \in Threads : BackToSret(t, frames[t]) => t \in astray

ContextInv ==
  /\ ContextType /\ FramesRight /\ RunningRight /\ SuspendedRight
  /\ StartsMasked /\ AstrayRight

-----------------------------------------------------------------------------
(* Places and stacks *)

(* Places belong to one thread, and those of bodies are apart. *)
LEMMA PlaceFacts ==
  /\ \A t \in Threads : /\ At(t, "wrapper") \in Places \ Body
                        /\ At(t, "pop") \in Places \ Body
                        /\ At(t, "sret") \in Places \ Body
                        /\ At(t, "handler") \in Places \ Body
                        /\ At(t, "first") \in Body
  /\ \A t, at : At(t, at).thread = t /\ At(t, at).at = at
  /\ Body \subseteq Places
  /\ \A p \in Body : /\ After(p) \in Body /\ After(p).thread = p.thread
                     /\ p.at \in Started /\ p.at # "handler"
  /\ \A p \in Places \ Body : p.at \in {"wrapper", "pop", "sret", "handler"}
  /\ \A p \in Places : p = At(p.thread, p.at)
  /\ \A t : ModeOf(t) \in Modes
  /\ Threads = Users \cup {Main, Out}
  BY DEF At, After, Body, Places, Started, ModeOf, Modes, Threads

(* A thread that has started is in its body or in a handler. *)
LEMMA StartedFacts ==
  /\ "handler" \in Started /\ "first" \in Started
  /\ "wrapper" \notin Started /\ "pop" \notin Started /\ "sret" \notin Started
  BY DEF Started

(* User threads run in user mode, main and the output thread do not. *)
LEMMA ModeFacts ==
  /\ \A t \in Users : ModeOf(t) = "U"
  /\ ModeOf(Main) = "S" /\ ModeOf(Out) = "S"
  BY ContextAssumption DEF ModeOf, Kernel

(* An empty stack leads back nowhere. *)
LEMMA EmptyRight ==
  ASSUME NEW t, NEW place, NEW on
  PROVE  StackRight(t, <<>>, place, on) /\ MaskedStack(<<>>)
  <1>1. Len(<<>>) = 0
    OBVIOUS
  <1> QED
    BY <1>1 DEF StackRight, MaskedStack

(* A frame that leads one step back makes a right stack a right one. *)
LEMMA PushRight ==
  ASSUME NEW t, NEW q \in Seq(Frames), NEW f \in Frames,
         NEW place, NEW on, NEW place2, NEW on2,
         StackRight(t, q, place, on),
         q = <<>> => BodyFrame(t, f, place2, on2) \/ StartFrame(t, f, place2),
         q # <<>> => HandlerFrame(t, f) /\ place2 = place /\ on2 = on
  PROVE  StackRight(t, Append(q, f), place2, on2)
  <1> DEFINE r == Append(q, f)
  <1>1. /\ r # <<>> /\ r[1] = IF q = <<>> THEN f ELSE q[1]
        /\ \A i \in 2 .. Len(r) : r[i] = IF i \in 2 .. Len(q) THEN q[i] ELSE f
        /\ q = <<>> => Len(r) = 1
    BY Pushed
  <1> HIDE DEF r
  <1>2. BodyFrame(t, r[1], place2, on2) \/ StartFrame(t, r[1], place2)
    BY <1>1 DEF StackRight
  <1>3. \A i \in 2 .. Len(r) : HandlerFrame(t, r[i])
    BY <1>1 DEF StackRight
  <1>4. StackRight(t, r, place2, on2)
    BY <1>1, <1>2, <1>3 DEF StackRight
  <1> QED
    BY <1>4 DEF r

(* It stays masked if the frame of a handler has interrupts off. *)
LEMMA PushMasked ==
  ASSUME NEW q \in Seq(Frames), NEW f \in Frames, MaskedStack(q),
         f.sepc \notin Body => ~f.SPIE
  PROVE  MaskedStack(Append(q, f))
  <1> DEFINE r == Append(q, f)
  <1>1. /\ Len(r) = Len(q) + 1 /\ Len(q) \in Nat
        /\ \A i \in 1 .. Len(q) : r[i] = q[i]
        /\ r[Len(q) + 1] = f
    BY AppendProperties, LenProperties
  <1> HIDE DEF r
  <1>2. MaskedStack(r)
    BY <1>1 DEF MaskedStack
  <1> QED
    BY <1>2 DEF r

(* What is popped, and what stays. *)
LEMMA PopRight ==
  ASSUME NEW t, NEW q \in Seq(Frames), q # <<>>, NEW place, NEW on,
         StackRight(t, q, place, on)
  PROVE  LET r == SubSeq(q, 1, Len(q) - 1)
             f == q[Len(q)]
         IN /\ r \in Seq(Frames) /\ f \in Frames
            /\ StackRight(t, r, place, on)
            /\ MaskedStack(q) =>
                 MaskedStack(r) /\ (f.sepc \notin Body => ~f.SPIE)
            /\ IF r = <<>>
               THEN BodyFrame(t, f, place, on) \/ StartFrame(t, f, place)
               ELSE HandlerFrame(t, f)
            /\ IF r = <<>> THEN f = q[1] ELSE r[1] = q[1]
  <1> DEFINE r == SubSeq(q, 1, Len(q) - 1)
             n == Len(q)
  <1>1. /\ q[n] \in Frames /\ n \in Nat \ {0} /\ r \in Seq(Frames)
        /\ r = <<>> <=> n = 1
        /\ Len(r) = n - 1 /\ \A i \in 1 .. n - 1 : r[i] = q[i]
    BY Popped
  <1>2. /\ BodyFrame(t, q[1], place, on) \/ StartFrame(t, q[1], place)
        /\ \A i \in 2 .. n : HandlerFrame(t, q[i])
    BY DEF StackRight
  <1>3. MaskedStack(q) <=> \A i \in 1 .. n : q[i].sepc \notin Body => ~q[i].SPIE
    BY DEF MaskedStack
  <1> HIDE DEF r, n
  <1>4. IF r = <<>> THEN q[n] = q[1] ELSE r[1] = q[1]
    BY <1>1
  <1>5. StackRight(t, r, place, on)
    <2>1. \A i \in 2 .. Len(r) : HandlerFrame(t, r[i])
      BY <1>1, <1>2
    <2> QED
      BY <1>2, <1>4, <2>1 DEF StackRight
  <1>6. MaskedStack(q) => MaskedStack(r) /\ (q[n].sepc \notin Body => ~q[n].SPIE)
    BY <1>1, <1>3 DEF MaskedStack
  <1>7. IF r = <<>> THEN BodyFrame(t, q[n], place, on) \/ StartFrame(t, q[n], place)
        ELSE HandlerFrame(t, q[n])
    BY <1>1, <1>2
  <1> QED
    BY <1>1, <1>4, <1>5, <1>6, <1>7 DEF r, n

-----------------------------------------------------------------------------
(* Steps *)

(* A handler is entered: from the body, whose due place and interrupts are *)
(* noted, from the start of a user thread, or from a handler.              *)
LEMMA EnterKeeps ==
  ASSUME ContextInv, NEW kind \in {"call", "tick", "exception"},
         NEW back \in Places, Enter(kind, back),
         UNCHANGED <<running, context>>, Strays,
         IF InBody THEN Left(back) /\ back \in Body /\ back.thread = running
         ELSE back = pc /\ UNCHANGED <<due, dueSIE>>,
         InBody \/ InHandler \/ Interruptible
  PROVE  ContextInv'
  <1> DEFINE f == [kind |-> kind, sepc |-> back, SPP |-> mode, SPIE |-> SIE]
             q == frames[running]
  <1>0. /\ ContextType /\ FramesRight /\ RunningRight /\ SuspendedRight
        /\ StartsMasked /\ AstrayRight
    BY DEF ContextInv
  <1>1. mode \in Modes
    BY <1>0, PlaceFacts DEF RunningRight, Modes
  <1>2. f \in Frames
    BY <1>0, <1>1 DEF ContextType, Frames
  <1>3. /\ frames' = [frames EXCEPT ![running] = Append(q, f)]
        /\ pc' = At(running, "handler") /\ mode' = "S" /\ SIE' = FALSE
        /\ SPIE' = SIE
    BY DEF Enter, TrapEntry
  <1>4. f.sepc = back /\ f.SPP = mode /\ f.SPIE = SIE
    OBVIOUS
  <1> HIDE DEF f
  <1>5. ContextType'
    <2>1. frames' \in [Threads -> Seq(Frames)]
      BY <1>0, <1>2, <1>3 DEF ContextType
    <2>2. pc' \in Places /\ pc'.thread = running
      BY <1>0, <1>3, PlaceFacts DEF ContextType
    <2>3. /\ due' \in [Threads -> Body] /\ \A t \in Threads : due'[t].thread = t
          /\ dueSIE' \in [Threads -> BOOLEAN]
      BY <1>0 DEF ContextType, Left
    <2> QED
      BY <1>0, <1>3, <2>1, <2>2, <2>3 DEF ContextType
  <1>6. pc' \notin Body /\ pc'.at = "handler"
    BY <1>0, <1>3, PlaceFacts DEF ContextType
  <1>7. q \in Seq(Frames) /\ running \in Threads
    BY <1>0 DEF ContextType
  <1>8. pc.at \in {"wrapper", "pop", "sret"} =>
          running \in Users /\ ~OutNew /\ SIE
    <2>1. SUFFICES ASSUME pc.at \in {"wrapper", "pop", "sret"}
                   PROVE  running \in Users /\ ~OutNew /\ SIE
      OBVIOUS
    <2>2. ~InBody /\ ~InHandler /\ pc.at \notin Started
      BY <1>0, <2>1, PlaceFacts, StartedFacts DEF InBody, InHandler
    <2>3. SIE /\ running # Main
      <3>1. mode = "U" => SIE
        BY <1>0, <2>2 DEF RunningRight, AstrayRight, AtSret
      <3> QED
        BY <1>0, <2>2, <3>1 DEF RunningRight, Interruptible
    <2> QED
      BY <1>0, <1>7, <2>2, <2>3, PlaceFacts DEF StartsMasked, OutNew
  <1>9. /\ q = <<>> => \/ BodyFrame(running, f, due'[running], dueSIE'[running])
                       \/ StartFrame(running, f, due'[running])
        /\ q # <<>> => /\ HandlerFrame(running, f)
                       /\ due'[running] = due[running]
                       /\ dueSIE'[running] = dueSIE[running]
    <2>1. CASE InBody
      <3>1. q = <<>> /\ mode = ModeOf(running)
        BY <1>0, <2>1, PlaceFacts DEF RunningRight, InBody, InHandler
      <3>2. due'[running] = back /\ dueSIE'[running] = SIE
        BY <1>0, <2>1 DEF Left, ContextType
      <3> QED
        BY <1>4, <3>1, <3>2 DEF BodyFrame
    <2>2. CASE InHandler
      <3>1. q # <<>> /\ ~InBody /\ mode = "S"
        BY <1>0, <2>2, StartedFacts, PlaceFacts DEF RunningRight, InBody, InHandler
      <3>2. pc = At(running, "handler")
        BY <1>0, <2>2, PlaceFacts DEF ContextType, InHandler
      <3> QED
        BY <1>4, <3>1, <3>2 DEF HandlerFrame
    <2>3. CASE ~InBody /\ ~InHandler
      <3>1. /\ q = <<>> /\ pc.at \in {"wrapper", "pop", "sret"}
            /\ pc.at # "sret" => mode = "S"
        BY <1>0, <2>3, PlaceFacts DEF RunningRight, InBody, InHandler, ContextType
      <3>2. pc = At(running, pc.at) /\ due[running] = At(running, "first")
        BY <1>0, <3>1, PlaceFacts, StartedFacts DEF ContextType, RunningRight
      <3> QED
        BY <1>4, <1>8, <2>3, <3>1, <3>2 DEF StartFrame
    <2> QED
      BY <2>1, <2>2, <2>3
  <1>10. \A t \in Threads \ {running} :
           frames'[t] = frames[t] /\ due'[t] = due[t] /\ dueSIE'[t] = dueSIE[t]
    BY <1>0, <1>3 DEF ContextType, Left
  <1>11. frames'[running] = Append(q, f) /\ frames'[running] # <<>>
    BY <1>0, <1>2, <1>3, <1>7, Pushed DEF ContextType
  <1>12. FramesRight'
    <2>1. StackRight(running, q, due[running], dueSIE[running])
      BY <1>0, <1>7 DEF FramesRight
    <2> HIDE DEF q
    <2>2. StackRight(running, Append(q, f), due'[running], dueSIE'[running])
      BY <1>2, <1>7, <1>9, <2>1, PushRight
    <2> QED
      BY <1>0, <1>10, <1>11, <2>2 DEF FramesRight
  <1>13. RunningRight'
    BY <1>3, <1>6, <1>11, StartedFacts DEF RunningRight, InBody, InHandler
  <1>14. SuspendedRight'
    BY <1>0, <1>10 DEF SuspendedRight
  <1>15. StartsMasked'
    <2>1. SUFFICES ASSUME OutNew' PROVE \A t \in Threads : MaskedStack(frames'[t])
      BY <1>3 DEF StartsMasked
    <2>2. running # Out /\ context[Out] = At(Out, "wrapper")
      BY <1>6, <2>1, StartedFacts DEF OutNew
    <2>3. \A t \in Threads : MaskedStack(frames[t])
      BY <1>0, <2>2 DEF StartsMasked, OutNew
    <2>4. f.sepc \notin Body => ~f.SPIE
      BY <1>0, <1>4, <2>2 DEF StartsMasked, OutNew
    <2>5. MaskedStack(Append(q, f))
      BY <1>2, <1>7, <2>3, <2>4, PushMasked
    <2> QED
      BY <1>10, <1>11, <2>3, <2>5
  <1>16. AstrayRight'
    <2>1. /\ astray \subseteq astray' /\ astray' \subseteq astray \cup {running}
          /\ running \in astray' => running \in astray \/ pc.at = "sret"
          /\ pc.at = "sret" => running \in astray'
      BY <1>0, PlaceFacts, StartedFacts DEF Strays, RunningRight, InBody
    <2>2. /\ frames'[running][1] = IF q = <<>> THEN f ELSE q[1]
          /\ pc.at = "sret" <=> f.sepc = At(running, "sret")
          /\ pc.at = "sret" => q = <<>> /\ f.SPIE /\ running \in Users
      <3>1. pc.at = "sret" => ~InBody /\ ~InHandler
        BY PlaceFacts, StartedFacts DEF InBody, InHandler
      <3>2. pc.at = "sret" <=> back = At(running, "sret")
        <4>1. InBody => back # At(running, "sret")
          BY PlaceFacts, <1>7
        <4>2. pc = At(running, pc.at)
          BY <1>0, PlaceFacts DEF ContextType
        <4> QED
          BY <3>1, <4>1, <4>2, PlaceFacts
      <3>3. pc.at = "sret" => q = <<>>
        BY <1>0, <3>1 DEF RunningRight
      <3> QED
        BY <1>2, <1>4, <1>7, <1>8, <1>11, <3>2, <3>3, Pushed
    <2>3. ASSUME NEW t \in astray'
          PROVE  /\ t \in Users
                 /\ BackToSret(t, frames'[t]) /\ frames'[t][1].SPIE
      <3>1. CASE t = running /\ pc.at = "sret"
        BY <1>11, <2>2, <3>1 DEF BackToSret
      <3>2. CASE t = running /\ pc.at # "sret"
        <4>1. BackToSret(t, q) /\ q[1].SPIE /\ t \in Users
          BY <1>0, <2>1, <2>3, <3>2 DEF AstrayRight
        <4> QED
          BY <1>11, <2>2, <3>2, <4>1 DEF BackToSret
      <3>3. CASE t # running
        <4>1. t \in astray /\ t \in Users /\ t \in Threads \ {running}
          BY <1>0, <2>1, <2>3, <3>3, PlaceFacts DEF AstrayRight
        <4> QED
          BY <1>0, <1>10, <3>3, <4>1 DEF AstrayRight
      <3> QED
        BY <3>1, <3>2, <3>3
    <2>4. ASSUME NEW t \in Threads, BackToSret(t, frames'[t])
          PROVE  t \in astray'
      <3>1. CASE t # running
        BY <1>0, <1>10, <2>1, <2>4, <3>1 DEF AstrayRight
      <3>2. CASE t = running
        BY <1>0, <2>1, <2>2, <2>4, <3>2 DEF AstrayRight, BackToSret
      <3> QED
        BY <3>1, <3>2
    <2> QED
      BY <1>6, <2>3, <2>4 DEF AstrayRight
  <1> QED
    BY <1>5, <1>12, <1>13, <1>14, <1>15, <1>16 DEF ContextInv

(* Every way into a handler keeps the invariant. *)
LEMMA TrapKeeps ==
  ASSUME ContextInv, Ecall \/ Exception \/ NestedEcall \/ TickPreempts
  PROVE  ContextInv'
  <1>1. pc \in Places /\ pc.thread = running
    BY DEF ContextInv, ContextType
  <1>2. ~(InHandler /\ InBody)
    BY PlaceFacts DEF InHandler, InBody
  <1>3. CASE Ecall
    <2>1. After(pc) \in Body /\ After(pc).thread = running /\ After(pc) \in Places
      BY <1>1, <1>3, PlaceFacts DEF Ecall, InBody
    <2>2. /\ Enter("call", After(pc)) /\ Left(After(pc)) /\ InBody
          /\ UNCHANGED <<running, context>> /\ Strays
      BY <1>1, <1>3, PlaceFacts, StartedFacts
      DEF Ecall, BackToNext, Strays, InBody
    <2> QED
      BY <2>1, <2>2, EnterKeeps
  <1>4. CASE Exception
    <2>1. /\ Enter("exception", pc) /\ UNCHANGED <<running, context, astray>>
          /\ \/ InBody /\ Left(pc)
             \/ pc.at = "sret" /\ mode = "U" /\ UNCHANGED <<due, dueSIE>>
      BY <1>4 DEF Exception
    <2>2. pc.at = "sret" => ~InBody
      BY PlaceFacts, StartedFacts DEF InBody
    <2>3. Strays
      BY <2>1, <2>2 DEF Strays
    <2>4. /\ IF InBody THEN Left(pc) /\ pc \in Body /\ pc.thread = running
             ELSE pc = pc /\ UNCHANGED <<due, dueSIE>>
          /\ InBody \/ Interruptible
      BY <1>1, <2>1, <2>2 DEF InBody, Interruptible
    <2> QED
      BY <1>1, <2>1, <2>3, <2>4, EnterKeeps
  <1>5. CASE NestedEcall
    <2>1. /\ Enter("call", pc) /\ InHandler
          /\ UNCHANGED <<running, context>> /\ UNCHANGED <<due, dueSIE>>
          /\ Strays
      BY <1>5 DEF NestedEcall, Strays, InHandler
    <2> QED
      BY <1>1, <1>2, <2>1, EnterKeeps
  <1>6. CASE TickPreempts
    <2>1. /\ Enter("tick", pc) /\ Interruptible /\ Strays
          /\ UNCHANGED <<running, context>>
          /\ IF InBody THEN Left(pc) ELSE UNCHANGED <<due, dueSIE>>
      BY <1>6 DEF TickPreempts
    <2>2. IF InBody THEN Left(pc) /\ pc \in Body /\ pc.thread = running
          ELSE pc = pc /\ UNCHANGED <<due, dueSIE>>
      BY <1>1, <2>1 DEF InBody
    <2> QED
      BY <1>1, <2>1, <2>2, EnterKeeps
  <1> QED
    BY <1>3, <1>4, <1>5, <1>6

(* The thread that is switched to goes on in a handler, at its start, or,  *)
(* the output thread only, in its body.                                    *)
LEMMA SwitchKeeps ==
  ASSUME ContextInv, NEW t \in Threads, NEW ra \in Places, contextSwitch(ra, t),
         mode = "S",
         \A u \in Threads \ {running} : due'[u] = due[u],
         due' \in [Threads -> Body], due'[running].thread = running,
         StackRight(running, frames[running], due'[running], dueSIE[running]),
         Suspended(running, ra, frames[running], due'[running]),
         ra # At(running, "wrapper"), pc.at # "sret",
         OutNew => ~SIE \/ running = Out
  PROVE  ContextInv'
  <1>0. /\ ContextType /\ FramesRight /\ RunningRight /\ SuspendedRight
        /\ StartsMasked /\ AstrayRight
    BY DEF ContextInv
  <1>1. /\ t # running /\ running' = t /\ pc' = context[t]
        /\ context' = [context EXCEPT ![running] = ra]
        /\ UNCHANGED <<mode, SIE, SPP, SPIE, frames, dueSIE, astray>>
    BY DEF contextSwitch, csrs
  <1>2. Suspended(t, pc', frames[t], due[t]) /\ due'[t] = due[t]
    BY <1>0, <1>1 DEF SuspendedRight
  <1>3. /\ pc' \in Places /\ running \in Threads /\ due[t] \in Body
        /\ due[t].thread = t /\ context[Out] \in Places
        /\ context' \in [Threads -> Places]
        /\ context'[running] = ra
        /\ \A u \in Threads \ {running} : context'[u] = context[u]
    BY <1>0, <1>1, PlaceFacts DEF ContextType
  <1>4. pc'.thread = t
    BY <1>2, <1>3, PlaceFacts DEF Suspended
  <1>5. ContextType'
    BY <1>0, <1>1, <1>3, <1>4 DEF ContextType
  <1>6. FramesRight'
    BY <1>0, <1>1 DEF FramesRight
  <1>7. RunningRight'
    <2>1. CASE pc' = At(t, "wrapper") /\ frames[t] = <<>> /\ t # Main
               /\ due[t] = At(t, "first")
      <3>1. pc'.at = "wrapper" /\ pc' \notin Body
        BY <2>1, PlaceFacts
      <3> QED
        BY <1>1, <1>2, <2>1, <3>1 DEF RunningRight, InBody, InHandler
    <2>2. CASE pc' = At(t, "handler") /\ frames[t] # <<>>
      <3>1. pc'.at = "handler" /\ pc' \notin Body
        BY <2>2, PlaceFacts
      <3> QED
        BY <1>1, <2>2, <3>1, StartedFacts DEF RunningRight, InBody, InHandler
    <2>3. CASE t = Out /\ pc' = due[t] /\ frames[t] = <<>>
      <3>1. pc' \in Body /\ pc'.at # "handler" /\ pc'.at \in Started
        BY <1>3, <2>3, PlaceFacts
      <3> QED
        BY <1>1, <1>2, <2>3, <3>1, ModeFacts, StartedFacts
        DEF RunningRight, InBody, InHandler
    <2> QED
      BY <1>2, <2>1, <2>2, <2>3 DEF Suspended
  <1>8. SuspendedRight'
    <2>1. SUFFICES ASSUME NEW u \in Threads \ {t}
                   PROVE  Suspended(u, context'[u], frames[u], due'[u])
      BY <1>1 DEF SuspendedRight
    <2>2. CASE u = running
      BY <1>3, <2>2
    <2>3. CASE u # running
      <3>1. Suspended(u, context[u], frames[u], due[u])
        BY <1>0, <2>1, <2>3 DEF SuspendedRight
      <3> QED
        BY <1>3, <2>1, <2>3, <3>1
    <2> QED
      BY <2>2, <2>3
  <1>9. StartsMasked'
    <2>1. SUFFICES ASSUME OutNew'
                   PROVE  ~SIE /\ \A u \in Threads : MaskedStack(frames[u])
      BY <1>1 DEF StartsMasked
    <2>2. OutNew /\ running # Out
      <3>1. CASE t = Out
        <4>1. pc'.at \notin Started
          BY <1>1, <2>1, <3>1 DEF OutNew
        <4>2. pc' = At(Out, "wrapper")
          BY <1>2, <1>3, <3>1, <4>1, PlaceFacts, StartedFacts DEF Suspended
        <4> QED
          BY <1>1, <3>1, <4>2 DEF OutNew
      <3>2. CASE t # Out
        <4>1. context'[Out] = At(Out, "wrapper")
          BY <1>1, <2>1, <3>2 DEF OutNew
        <4>2. running # Out
          BY <1>3, <4>1
        <4> QED
          BY <1>3, <4>1, <4>2, PlaceFacts DEF OutNew
      <3> QED
        BY <3>1, <3>2
    <2> QED
      BY <1>0, <2>2 DEF StartsMasked
  <1>10. AstrayRight'
    <2>1. pc'.at # "sret"
      BY <1>2, <1>3, PlaceFacts, StartedFacts DEF Suspended
    <2> QED
      BY <1>0, <1>1, <2>1 DEF AstrayRight
  <1> QED
    BY <1>5, <1>6, <1>7, <1>8, <1>9, <1>10 DEF ContextInv

(* So does every switch, from a handler or directly. *)
LEMMA SwitchesKeep ==
  ASSUME ContextInv, NEW t \in Threads, Switch(t) \/ BlockDirectly(t)
  PROVE  ContextInv'
  <1>0. /\ ContextType /\ FramesRight /\ RunningRight /\ StartsMasked
        /\ running \in Threads
    BY DEF ContextInv, ContextType
  <1>1. CASE Switch(t)
    <2>1. InHandler /\ contextSwitch(pc, t) /\ due' = due
      BY <1>1 DEF Switch
    <2>2. /\ ~InBody /\ mode = "S" /\ frames[running] # <<>> /\ (OutNew => ~SIE)
          /\ pc.at # "sret"
      BY <1>0, <2>1, PlaceFacts
      DEF RunningRight, StartsMasked, InBody, InHandler
    <2>3. pc = At(running, "handler") /\ pc \in Places
      BY <1>0, <2>1, PlaceFacts DEF ContextType, InHandler
    <2>4. pc # At(running, "wrapper")
      BY <2>3, PlaceFacts
    <2>5. Suspended(running, pc, frames[running], due'[running])
      BY <2>2, <2>3 DEF Suspended
    <2>6. StackRight(running, frames[running], due'[running], dueSIE[running])
      BY <1>0, <2>1 DEF FramesRight
    <2>7. due' \in [Threads -> Body] /\ due'[running].thread = running
      BY <1>0, <2>1 DEF ContextType
    <2> QED
      BY <2>1, <2>2, <2>3, <2>4, <2>5, <2>6, <2>7, SwitchKeeps
  <1>2. CASE BlockDirectly(t)
    <2>1. /\ InBody /\ running = Out /\ contextSwitch(After(pc), t)
          /\ due' = [due EXCEPT ![Out] = After(pc)]
      BY <1>2 DEF BlockDirectly
    <2>2. /\ After(pc) \in Body /\ After(pc) \in Places
          /\ After(pc).thread = Out /\ After(pc).at \in Started
      BY <1>0, <2>1, PlaceFacts DEF InBody, ContextType
    <2>3. mode = "S" /\ frames[Out] = <<>> /\ pc.at # "sret"
      BY <1>0, <2>1, StartedFacts, PlaceFacts, ModeFacts DEF RunningRight, InBody, InHandler
    <2>4. After(pc) # At(running, "wrapper")
      BY <2>2, PlaceFacts, StartedFacts
    <2>5. /\ due' \in [Threads -> Body] /\ due'[Out] = After(pc)
          /\ \A u \in Threads \ {running} : due'[u] = due[u]
      BY <1>0, <2>1, <2>2 DEF ContextType
    <2>6. Suspended(running, After(pc), frames[running], due'[running])
      BY <2>1, <2>3, <2>5 DEF Suspended
    <2>7. StackRight(running, frames[running], due'[running], dueSIE[running])
      BY <2>1, <2>3, EmptyRight
    <2> QED
      BY <2>1, <2>2, <2>3, <2>4, <2>5, <2>6, <2>7, SwitchKeeps
  <1> QED
    BY <1>1, <1>2

(* The top frame takes the thread back where it came from. *)
LEMMA ReturnKeeps ==
  ASSUME ContextInv, Return
  PROVE  ContextInv'
  <1> DEFINE q == frames[running]
             r == SubSeq(q, 1, Len(q) - 1)
             f == q[Len(q)]
  <1>0. /\ ContextType /\ FramesRight /\ RunningRight /\ SuspendedRight
        /\ StartsMasked /\ AstrayRight
    BY DEF ContextInv
  <1>1. running \in Threads /\ q \in Seq(Frames) /\ q # <<>> /\ ~InBody
    BY <1>0, PlaceFacts DEF ContextType, RunningRight, Return, InBody, InHandler
  <1>2. /\ pc' = f.sepc /\ mode' = f.SPP /\ SIE' = f.SPIE
        /\ SPP' = "U" /\ SPIE' = TRUE /\ sepc' = f.sepc /\ astray' = astray
        /\ pc.at = "handler"
        /\ frames' = [frames EXCEPT ![running] = r]
        /\ UNCHANGED <<running, context, due, dueSIE>>
    BY DEF Return, Restored, Top, Sret, InHandler
  <1>3. /\ r \in Seq(Frames) /\ f \in Frames
        /\ StackRight(running, r, due[running], dueSIE[running])
        /\ MaskedStack(q) => MaskedStack(r) /\ (f.sepc \notin Body => ~f.SPIE)
        /\ IF r = <<>>
           THEN \/ BodyFrame(running, f, due[running], dueSIE[running])
                \/ StartFrame(running, f, due[running])
           ELSE HandlerFrame(running, f)
        /\ IF r = <<>> THEN f = q[1] ELSE r[1] = q[1]
    <2>1. StackRight(running, q, due[running], dueSIE[running])
      BY <1>0, <1>1 DEF FramesRight
    <2> HIDE DEF q
    <2> QED
      BY <1>1, <2>1, PopRight
  <1> HIDE DEF r, f
  <1>4. f.SPIE \in BOOLEAN /\ f.sepc \in Places
    BY <1>3 DEF Frames
  <1>5. /\ frames'[running] = r /\ frames' \in [Threads -> Seq(Frames)]
        /\ \A t \in Threads \ {running} : frames'[t] = frames[t]
    BY <1>0, <1>1, <1>2, <1>3 DEF ContextType
  <1>6. /\ due[running] \in Body /\ due[running].thread = running
    BY <1>0, <1>1 DEF ContextType
  <1>7. pc'.thread = running
    BY <1>2, <1>3, <1>6, PlaceFacts DEF BodyFrame, StartFrame, HandlerFrame
  <1>8. ContextType'
    BY <1>0, <1>2, <1>4, <1>5, <1>7 DEF ContextType
  <1>9. FramesRight'
    BY <1>0, <1>2, <1>3, <1>5 DEF FramesRight
  <1>10. RunningRight'
    <2>1. CASE r = <<>> /\ BodyFrame(running, f, due[running], dueSIE[running])
      <3>1. pc' \in Body /\ pc' = due[running] /\ mode' = ModeOf(running)
            /\ (running # Out => SIE' = dueSIE[running])
        BY <1>2, <1>6, <2>1 DEF BodyFrame
      <3>2. pc'.at \in Started /\ pc'.at # "handler"
        BY <3>1, PlaceFacts
      <3> QED
        BY <1>2, <1>5, <2>1, <3>1, <3>2, StartedFacts
        DEF RunningRight, InBody, InHandler
    <2>4. CASE r = <<>> /\ StartFrame(running, f, due[running])
               /\ f.sepc = At(running, "sret")
      <3>1. running \in Users /\ due[running] = At(running, "first")
        BY <2>4 DEF StartFrame
      <3>2. pc' \notin Body /\ pc'.at = "sret" /\ mode' \in Modes
        BY <1>1, <1>2, <1>3, <2>4, PlaceFacts DEF Frames
      <3>3. running # Main /\ running \in astray
        <4>1. BackToSret(running, q)
          BY <1>1, <1>3, <2>4 DEF BackToSret
        <4> QED
          BY <1>0, <1>1, <3>1, <4>1, ContextAssumption DEF AstrayRight
      <3> QED
        BY <1>2, <1>5, <2>4, <3>1, <3>2, <3>3
        DEF RunningRight, InBody, InHandler, Modes
    <2>2. CASE r = <<>> /\ StartFrame(running, f, due[running])
               /\ f.sepc # At(running, "sret")
      <3>1. /\ running \in Users /\ mode' = "S"
            /\ pc' = At(running, "wrapper") \/ pc' = At(running, "pop")
            /\ due[running] = At(running, "first")
        BY <1>2, <2>2 DEF StartFrame
      <3>2. pc' \notin Body /\ pc'.at \in {"wrapper", "pop"}
        BY <1>1, <3>1, PlaceFacts
      <3>3. running # Main /\ SPP' = ModeOf(running)
        BY <1>2, <3>1, ModeFacts, ContextAssumption
      <3> QED
        BY <1>2, <1>5, <2>2, <3>1, <3>2, <3>3 DEF RunningRight, InBody, InHandler
    <2>3. CASE r # <<>> /\ HandlerFrame(running, f)
      <3>1. pc' = At(running, "handler") /\ mode' = "S"
        BY <1>2, <2>3 DEF HandlerFrame
      <3>2. pc' \notin Body /\ pc'.at = "handler"
        BY <1>1, <3>1, PlaceFacts
      <3> QED
        BY <1>2, <1>5, <2>3, <3>1, <3>2, StartedFacts
        DEF RunningRight, InBody, InHandler
    <2> QED
      BY <1>3, <2>1, <2>2, <2>3, <2>4
  <1>11. SuspendedRight'
    BY <1>0, <1>2, <1>5 DEF SuspendedRight
  <1>12. StartsMasked'
    <2>1. SUFFICES ASSUME OutNew'
                   PROVE  /\ ~InBody' => ~SIE'
                          /\ \A t \in Threads : MaskedStack(frames'[t])
      BY DEF StartsMasked
    <2>2. OutNew
      <3>1. CASE running = Out
        <4>1. pc'.at \in Started
          <5>1. running \notin Users
            BY <3>1, ContextAssumption
          <5>2. pc' = due[running] \/ pc' = At(running, "handler")
            BY <1>2, <1>3, <5>1 DEF BodyFrame, StartFrame, HandlerFrame
          <5> QED
            BY <1>6, <5>2, PlaceFacts, StartedFacts
        <4> QED
          BY <1>2, <2>1, <3>1, <4>1 DEF OutNew
      <3>2. CASE running # Out
        BY <1>2, <2>1, <3>2 DEF OutNew
      <3> QED
        BY <3>1, <3>2
    <2>3. \A t \in Threads : MaskedStack(frames[t])
      BY <1>0, <2>2 DEF StartsMasked
    <2>4. MaskedStack(r) /\ (f.sepc \notin Body => ~f.SPIE)
      BY <1>1, <1>3, <2>3
    <2> QED
      BY <1>2, <1>5, <2>3, <2>4 DEF InBody
  <1>13. AstrayRight'
    <2>1. ASSUME NEW t \in astray
          PROVE  t \in Users /\ BackToSret(t, frames[t]) /\ frames[t][1].SPIE
      BY <1>0, <1>2 DEF AstrayRight
    <2>2. ASSUME NEW t \in astray, t # running
          PROVE  /\ BackToSret(t, frames'[t]) /\ frames'[t][1].SPIE
      BY <1>5, <2>1, <2>2, PlaceFacts
    <2>3. CASE r = <<>> /\ f.sepc = At(running, "sret")
      <3>1. running \in astray => AtSret(running)' /\ pc'.at = "sret"
        BY <1>1, <1>2, <1>3, <2>1, <2>3, PlaceFacts DEF AtSret
      <3>2. ~BackToSret(running, frames'[running])
        BY <1>5, <2>3 DEF BackToSret
      <3> QED
        BY <1>0, <1>2, <1>5, <2>1, <2>2, <3>1, <3>2 DEF AstrayRight
    <2>4. CASE r = <<>> /\ f.sepc # At(running, "sret")
      <3>1. running \notin astray
        BY <1>1, <1>3, <2>1, <2>4 DEF BackToSret
      <3>2. ~BackToSret(running, frames'[running])
        BY <1>5, <2>4 DEF BackToSret
      <3> QED
        BY <1>0, <1>2, <1>5, <2>1, <2>2, <3>1, <3>2 DEF AstrayRight
    <2>5. CASE r # <<>>
      <3>1. pc'.at # "sret"
        BY <1>1, <1>2, <1>3, <2>5, PlaceFacts DEF HandlerFrame
      <3>2. /\ BackToSret(running, frames'[running]) <=> BackToSret(running, q)
            /\ frames'[running][1] = q[1]
        BY <1>1, <1>3, <1>5, <2>5 DEF BackToSret
      <3> QED
        BY <1>0, <1>2, <1>5, <2>1, <2>2, <3>1, <3>2 DEF AstrayRight
    <2> QED
      BY <2>3, <2>4, <2>5
  <1> QED
    BY <1>8, <1>9, <1>10, <1>11, <1>12, <1>13 DEF ContextInv

(* A new thread sets its own mode and starts its body.  No tick comes      *)
(* between, except for a user thread, whose mode a tick sets as well; but  *)
(* one before the sret takes the place to start at away.                   *)
LEMMA StartKeeps ==
  ASSUME ContextInv, popSpp \/ WriteSepc \/ popSpie
  PROVE  ContextInv'
  <1>0. /\ ContextType /\ FramesRight /\ RunningRight /\ SuspendedRight
        /\ StartsMasked /\ AstrayRight /\ running \in Threads
    BY DEF ContextInv, ContextType
  <1>4. ASSUME NEW t \in Threads, t # running \/ pc.at # "sret"
        PROVE  t \in astray => /\ BackToSret(t, frames[t]) /\ frames[t][1].SPIE
                               /\ t \in Users
    BY <1>0, <1>4 DEF AstrayRight
  <1>5. pc.at \in {"wrapper", "pop", "sret"} => frames[running] = <<>>
    BY <1>0 DEF RunningRight, InHandler
  <1>1. CASE popSpp
    <2>1. /\ pc.at = "wrapper" /\ pc' = At(running, "pop")
          /\ SPP' = ModeOf(running)
          /\ UNCHANGED <<running, mode, SIE, SPIE, context, frames, due, dueSIE>>
          /\ UNCHANGED <<sepc, astray>>
      BY <1>1 DEF popSpp
    <2>2. /\ pc' \in Places \ Body /\ pc'.thread = running /\ pc'.at = "pop"
          /\ pc \notin Body /\ pc.at \notin Started
      BY <1>0, <2>1, PlaceFacts, StartedFacts
    <2>3. ContextType' /\ FramesRight' /\ SuspendedRight'
      BY <1>0, <2>1, <2>2 DEF ContextType, FramesRight, SuspendedRight
    <2>4. RunningRight'
      BY <1>0, <2>1, <2>2 DEF RunningRight, InBody, InHandler
    <2>5. StartsMasked'
      BY <1>0, <2>1, <2>2 DEF StartsMasked, OutNew, InBody
    <2>6. AstrayRight'
      BY <1>0, <2>1, <2>2 DEF AstrayRight
    <2> QED
      BY <2>3, <2>4, <2>5, <2>6 DEF ContextInv
  <1>3. CASE WriteSepc
    <2>1. /\ pc.at = "pop" /\ pc' = At(running, "sret")
          /\ sepc' = At(running, "first")
          /\ UNCHANGED <<running, mode, SIE, SPP, SPIE, context, frames>>
          /\ UNCHANGED <<due, dueSIE, astray>>
      BY <1>3 DEF WriteSepc
    <2>2. /\ pc' \in Places \ Body /\ pc'.thread = running /\ pc'.at = "sret"
          /\ pc \notin Body /\ pc.at \notin Started
      BY <1>0, <2>1, PlaceFacts, StartedFacts
    <2>3. ContextType' /\ FramesRight' /\ SuspendedRight'
      BY <1>0, <2>1, <2>2 DEF ContextType, FramesRight, SuspendedRight
    <2>4. RunningRight'
      BY <1>0, <2>1, <2>2 DEF RunningRight, InBody, InHandler
    <2>5. StartsMasked'
      BY <1>0, <2>1, <2>2 DEF StartsMasked, OutNew, InBody
    <2>6. AstrayRight'
      <3>1. running \notin astray
        BY <1>0, <1>4, <1>5, <2>1 DEF BackToSret
      <3> QED
        BY <1>0, <2>1, <2>2, <3>1 DEF AstrayRight
    <2> QED
      BY <2>3, <2>4, <2>5, <2>6 DEF ContextInv
  <1>2. CASE popSpie
    <2>1. /\ pc.at = "sret" /\ pc' = sepc /\ sepc' = sepc /\ mode = "S"
          /\ mode' = SPP /\ SIE' = SPIE /\ SPIE' = TRUE
          /\ dueSIE' = [dueSIE EXCEPT ![running] = SPIE]
          /\ UNCHANGED <<running, context, frames, due, astray>>
      BY <1>2 DEF popSpie, Sret
    <2>2. /\ pc \notin Body /\ pc.at \notin Started /\ frames[running] = <<>>
          /\ due[running] = At(running, "first") /\ running # Main
      BY <1>0, <1>5, <2>1, PlaceFacts, StartedFacts DEF RunningRight
    <2>3. /\ dueSIE' \in [Threads -> BOOLEAN] /\ dueSIE'[running] = SPIE
          /\ \A t \in Threads \ {running} : dueSIE'[t] = dueSIE[t]
      BY <1>0, <2>1 DEF ContextType
    <2>4. FramesRight' /\ SuspendedRight'
      <3>1. StackRight(running, frames[running], due[running], dueSIE'[running])
        BY <2>2, EmptyRight
      <3> QED
        BY <1>0, <2>1, <2>3, <3>1 DEF FramesRight, SuspendedRight
    <2>5. CASE running \notin astray
      <3>1. sepc = At(running, "first") /\ SPP = ModeOf(running)
        BY <1>0, <2>1, <2>5 DEF RunningRight
      <3>2. /\ pc' \in Body /\ pc' \in Places /\ pc'.thread = running
            /\ pc'.at \in Started /\ pc'.at # "handler" /\ pc'.at # "pop"
            /\ pc'.at # "sret"
        BY <1>0, <2>1, <3>1, PlaceFacts, StartedFacts
      <3>3. ContextType'
        BY <1>0, <2>1, <2>3, <3>2 DEF ContextType
      <3>4. RunningRight'
        BY <2>1, <2>2, <2>3, <3>1, <3>2 DEF RunningRight, InBody, InHandler
      <3>5. StartsMasked'
        BY <1>0, <2>1, <2>2, <3>2 DEF StartsMasked, OutNew, InBody
      <3>6. AstrayRight'
        BY <1>0, <2>1, <2>5, <3>2 DEF AstrayRight
      <3> QED
        BY <2>4, <3>3, <3>4, <3>5, <3>6 DEF ContextInv
    <2>6. CASE running \in astray
      <3>1. /\ sepc = At(running, "sret") /\ SPP = "U" /\ SPIE /\ SIE
            /\ running \in Users
        BY <1>0, <2>1, <2>6 DEF AstrayRight, AtSret
      <3>2. /\ pc' \in Places \ Body /\ pc'.thread = running /\ pc'.at = "sret"
        BY <1>0, <2>1, <3>1, PlaceFacts
      <3>3. ContextType'
        BY <1>0, <2>1, <2>3, <3>2 DEF ContextType
      <3>4. RunningRight'
        BY <2>1, <2>2, <2>6, <3>1, <3>2 DEF RunningRight, InBody, InHandler
      <3>5. StartsMasked'
        <4>1. ~OutNew
          BY <1>0, <2>2, <3>1 DEF StartsMasked, InBody
        <4>2. ~OutNew'
          BY <2>1, <3>1, <4>1, ContextAssumption DEF OutNew
        <4> QED
          BY <4>2 DEF StartsMasked
      <3>6. AstrayRight'
        <4>1. AtSret(running)'
          BY <2>1, <3>1 DEF AtSret
        <4> QED
          BY <1>0, <2>1, <3>1, <3>2, <4>1 DEF AstrayRight
      <3> QED
        BY <2>4, <3>3, <3>4, <3>5, <3>6 DEF ContextInv
    <2> QED
      BY <2>5, <2>6
  <1> QED
    BY <1>1, <1>2, <1>3

(* So does a handler that leaves everything but the registers as it was. *)
LEMMA PassThroughKeeps ==
  ASSUME ContextInv, PassThrough \/ UNCHANGED vars
  PROVE  ContextInv'
  <1>0. /\ ContextType /\ FramesRight /\ RunningRight /\ SuspendedRight
        /\ StartsMasked /\ AstrayRight
    BY DEF ContextInv
  <1>1. UNCHANGED <<running, pc, mode, SIE, context, frames, due, dueSIE>>
    BY DEF PassThrough, vars, csrs
  <1>2. ContextType'
    BY <1>0, <1>1 DEF ContextType, PassThrough, vars, csrs
  <1>3. pc.at = "pop" => SPP' = ModeOf(running)
    <2>1. SUFFICES ASSUME pc.at = "pop", PassThrough PROVE SPP' = ModeOf(running)
      BY <1>0 DEF RunningRight, vars, csrs
    <2>2. pc.at \notin Started /\ ~InBody
      BY <2>1, PlaceFacts, StartedFacts DEF InBody
    <2>3. SIE /\ running # Main
      BY <1>0, <2>1, <2>2 DEF RunningRight, PassThrough, Interruptible
    <2>4. running # Out
      BY <1>0, <2>2, <2>3 DEF StartsMasked, OutNew
    <2> QED
      BY <1>0, <2>1, <2>3, <2>4, PlaceFacts, ModeFacts DEF ContextType, PassThrough
  <1>4. FramesRight' /\ SuspendedRight'
    BY <1>0, <1>1 DEF FramesRight, SuspendedRight
  <1>7. /\ astray \subseteq astray' /\ astray' \subseteq astray \cup {running}
        /\ running \in astray' => running \in astray \/ pc.at = "sret"
    BY DEF PassThrough, Strays, vars
  <1>8. ASSUME PassThrough, pc.at = "sret"
        PROVE  running \in astray' /\ running \in Users /\ AtSret(running)'
    <2>1. pc.at \notin Started /\ ~InBody /\ pc = At(running, "sret")
      BY <1>0, <1>8, PlaceFacts, StartedFacts DEF InBody, ContextType
    <2>2. running # Main /\ (mode = "S" \/ (mode = "U" /\ running \in astray))
      BY <1>0, <2>1 DEF RunningRight
    <2>3. SIE
      BY <1>0, <1>8, <2>1, <2>2
      DEF PassThrough, Interruptible, AstrayRight, AtSret
    <2>4. running # Out
      BY <1>0, <2>1, <2>3 DEF StartsMasked, OutNew
    <2>5. running \in Users
      BY <1>0, <2>2, <2>4, PlaceFacts DEF ContextType
    <2>6. running \in astray'
      BY <1>8, <2>2 DEF PassThrough, Strays
    <2> QED
      BY <1>8, <2>1, <2>3, <2>5, <2>6 DEF PassThrough, AtSret
  <1>5. RunningRight'
    <2>1. CASE PassThrough
      BY <1>0, <1>1, <1>3, <1>7, <1>8, <2>1 DEF RunningRight, InBody, InHandler
    <2>2. CASE UNCHANGED vars
      BY <1>0, <1>1, <2>2 DEF RunningRight, InBody, InHandler, vars, csrs
    <2> QED
      BY <2>1, <2>2
  <1>9. AstrayRight'
    <2>1. CASE PassThrough
      BY <1>0, <1>1, <1>7, <1>8, <2>1 DEF AstrayRight
    <2>2. CASE UNCHANGED vars
      BY <1>0, <1>1, <2>2 DEF AstrayRight, AtSret, vars, csrs
    <2> QED
      BY <2>1, <2>2
  <1>6. StartsMasked'
    BY <1>0, <1>1 DEF StartsMasked, OutNew, InBody
  <1> QED
    BY <1>2, <1>4, <1>5, <1>6, <1>9 DEF ContextInv

(* At first main runs its body and nobody has a frame. *)
LEMMA InitContext ==
  ASSUME Init
  PROVE  ContextInv
  <1>1. /\ running = Main /\ Main \in Threads /\ Out \in Threads /\ Main # Out
        /\ pc = At(Main, "first") /\ pc \in Body /\ pc \in Places
        /\ pc.thread = Main /\ pc.at = "first" /\ pc.at \in Started
    BY PlaceFacts, StartedFacts, ContextAssumption DEF Init
  <1>2. /\ \A t \in Threads : At(t, "first") \in Body /\ At(t, "first").thread = t
        /\ \A t \in Threads : At(t, "wrapper") \in Places
        /\ <<>> \in Seq(Frames)
    BY PlaceFacts
  <1>3. /\ frames = [t \in Threads |-> <<>>]
        /\ due = [t \in Threads |-> At(t, "first")]
        /\ dueSIE = [t \in Threads |-> TRUE] /\ SIE = TRUE /\ SPIE = TRUE
        /\ context = [t \in Threads |-> At(t, "wrapper")] /\ mode = "S"
        /\ astray = {}
    BY DEF Init
  <1>4. ContextType
    BY <1>1, <1>2, <1>3 DEF ContextType
  <1>5. FramesRight
    BY <1>3, EmptyRight DEF FramesRight
  <1>6. RunningRight
    BY <1>1, <1>3, ModeFacts DEF RunningRight, InBody, InHandler
  <1>7. SuspendedRight
    BY <1>1, <1>3 DEF SuspendedRight, Suspended
  <1>8. StartsMasked
    BY <1>1, <1>3, EmptyRight DEF StartsMasked, InBody
  <1>9. AstrayRight
    BY <1>3 DEF AstrayRight, BackToSret
  <1> QED
    BY <1>4, <1>5, <1>6, <1>7, <1>8, <1>9 DEF ContextInv

-----------------------------------------------------------------------------
(***************************************************************************)
(* What every handler's frame and every suspended thread's context lead    *)
(* back to: supervisorTrap, contextSwitch and popSppSpie fit together.     *)
(***************************************************************************)
THEOREM ContextInvariant == Spec => []ContextInv
  <1>1. Init => ContextInv
    BY InitContext
  <1>2. ContextInv /\ [Next]_vars => ContextInv'
    BY TrapKeeps, SwitchesKeep, ReturnKeeps, StartKeeps, PassThroughKeeps
    DEF Next
  <1> QED
    BY <1>1, <1>2, PTL DEF Spec

(***************************************************************************)
(* Every thread but the output thread has the interrupts it left with:     *)
(* neither a switch nor a nested handler changes them.                     *)
(***************************************************************************)
THEOREM InterruptsAlwaysKept == Spec => []InterruptsKept
  <1>1. ContextInv => InterruptsKept
    BY DEF ContextInv, RunningRight, InterruptsKept
  <1> QED
    BY <1>1, ContextInvariant, PTL

-----------------------------------------------------------------------------
(* How deep handlers nest *)

(* Frame i of thread t gives back enabled interrupts to a handler, to the  *)
(* start of a thread, or to the output thread, which may hand them on.     *)
Unmasked(t, i) ==
  /\ i \in 1 .. Len(frames[t]) /\ frames[t][i].SPIE
  /\ frames[t][i].sepc \notin Body \/ t = Out

(* Those the core has now are of that kind. *)
CoreUnmasked == SIE /\ (~InBody \/ running = Out)

(* There is one such permission: the output thread brings it, Sem::block   *)
(* hands it to a handler, and a tick of that handler puts it on its stack. *)
OneUnmasked ==
  /\ CoreUnmasked => \A t \in Threads : \A i : ~Unmasked(t, i)
  /\ \A t, u \in Threads : \A i, j :
       Unmasked(t, i) /\ Unmasked(u, j) => t = u /\ i = j

(* Above its first frame a thread has the call by which an exception's     *)
(* handler prints, and handlers that such a permission let in.             *)
DepthRight ==
  \A t \in Threads :
    /\ \A i \in 2 .. Len(frames[t]) : frames[t][i].kind # "exception"
    /\ \A i \in 3 .. Len(frames[t]) : frames[t][i].SPIE

NestingInv == ContextInv /\ OneUnmasked /\ DepthRight

(* A frame is pushed: the permission of the core goes with it. *)
LEMMA EnterUnmasked ==
  ASSUME NestingInv, NEW kind \in {"call", "tick", "exception"},
         NEW back \in Places, Enter(kind, back), running' = running,
         back \in Body <=> InBody
  PROVE  OneUnmasked'
  <1> DEFINE f == [kind |-> kind, sepc |-> back, SPP |-> mode, SPIE |-> SIE]
             q == frames[running]
             n == Len(q)
  <1>1. ContextType /\ OneUnmasked /\ running \in Threads
    BY DEF NestingInv, ContextInv, ContextType
  <1>2. f.sepc = back /\ f.SPIE = SIE
    OBVIOUS
  <1>3. frames' = [frames EXCEPT ![running] = Append(q, f)] /\ SIE' = FALSE
    BY DEF Enter, TrapEntry
  <1>4. q \in Seq(Frames) /\ frames \in [Threads -> Seq(Frames)]
    BY <1>1 DEF ContextType
  <1>5. mode \in Modes /\ f \in Frames
    <2>1. mode \in Modes
      BY PlaceFacts DEF NestingInv, ContextInv, RunningRight, Modes
    <2> QED
      BY <1>1, <2>1 DEF ContextType, Frames
  <1> HIDE DEF f
  <1>6. /\ Len(Append(q, f)) = n + 1 /\ n \in Nat
        /\ \A i \in 1 .. n : Append(q, f)[i] = q[i]
        /\ Append(q, f)[n + 1] = f
    BY <1>4, <1>5, AppendProperties, LenProperties
  <1>7. /\ frames'[running] = Append(q, f)
        /\ \A t \in Threads \ {running} : frames'[t] = frames[t]
    BY <1>1, <1>3, <1>4
  <1> HIDE DEF q, n
  <1>8. \A t \in Threads : \A i :
          Unmasked(t, i)' => \/ Unmasked(t, i)
                             \/ CoreUnmasked /\ t = running /\ i = n + 1
    <2>1. SUFFICES ASSUME NEW t \in Threads, NEW i, Unmasked(t, i)'
                   PROVE  \/ Unmasked(t, i)
                          \/ CoreUnmasked /\ t = running /\ i = n + 1
      OBVIOUS
    <2>2. CASE t # running
      BY <1>7, <2>1, <2>2 DEF Unmasked
    <2>3. CASE t = running /\ i \in 1 .. n
      BY <1>6, <1>7, <2>1, <2>3 DEF Unmasked, q, n
    <2>4. CASE t = running /\ i \notin 1 .. n
      <3>1. i = n + 1 /\ frames'[t][i] = f
        BY <1>6, <1>7, <2>1, <2>4 DEF Unmasked
      <3> QED
        BY <1>2, <2>1, <2>4, <3>1 DEF Unmasked, CoreUnmasked
    <2> QED
      BY <2>2, <2>3, <2>4
  <1>9. ~CoreUnmasked'
    BY <1>3 DEF CoreUnmasked
  <1> QED
    BY <1>1, <1>8, <1>9 DEF OneUnmasked

(* The frame is that of a call of an exception's handler or unmasked.      *)
LEMMA EnterDepth ==
  ASSUME NestingInv, NEW kind \in {"call", "tick", "exception"},
         NEW back \in Places, Enter(kind, back), running' = running,
         InHandler => /\ kind # "exception"
                      /\ Top.kind = "exception" \/ SIE
  PROVE  DepthRight'
  <1> DEFINE f == [kind |-> kind, sepc |-> back, SPP |-> mode, SPIE |-> SIE]
             q == frames[running]
             n == Len(q)
  <1>1. ContextType /\ RunningRight /\ DepthRight /\ running \in Threads
    BY DEF NestingInv, ContextInv, ContextType
  <1>2. f.kind = kind /\ f.SPIE = SIE
    OBVIOUS
  <1>3. frames' = [frames EXCEPT ![running] = Append(q, f)]
    BY DEF Enter, TrapEntry
  <1>4. q \in Seq(Frames) /\ frames \in [Threads -> Seq(Frames)]
    BY <1>1 DEF ContextType
  <1>5. mode \in Modes /\ f \in Frames
    <2>1. mode \in Modes
      BY PlaceFacts DEF NestingInv, ContextInv, RunningRight, Modes
    <2> QED
      BY <1>1, <2>1 DEF ContextType, Frames
  <1>6. InHandler <=> n # 0
    BY <1>1, <1>4, EmptySeq, LenProperties DEF RunningRight
  <1>7. Top = q[n]
    BY DEF Top
  <1> HIDE DEF f
  <1>8. /\ Len(Append(q, f)) = n + 1 /\ n \in Nat
        /\ \A i \in 1 .. n : Append(q, f)[i] = q[i]
        /\ Append(q, f)[n + 1] = f
    BY <1>4, <1>5, AppendProperties, LenProperties
  <1>9. /\ frames'[running] = Append(q, f)
        /\ \A t \in Threads \ {running} : frames'[t] = frames[t]
    BY <1>1, <1>3, <1>4
  <1>10. /\ \A i \in 2 .. n : q[i].kind # "exception"
         /\ \A i \in 3 .. n : q[i].SPIE
    BY <1>1 DEF DepthRight
  <1> HIDE DEF q, n
  <1>11. n > 0 => f.kind # "exception"
    BY <1>2, <1>6
  <1>12. n > 1 => f.SPIE
    <2>1. SUFFICES ASSUME n > 1 PROVE SIE
      BY <1>2
    <2>2. n \in 2 .. n /\ n # 0
      BY <1>8, <2>1
    <2> QED
      BY <1>6, <1>7, <1>10, <2>2
  <1>13. /\ \A i \in 2 .. Len(Append(q, f)) : Append(q, f)[i].kind # "exception"
         /\ \A i \in 3 .. Len(Append(q, f)) : Append(q, f)[i].SPIE
    <2>1. ASSUME NEW i \in 2 .. (n + 1)
          PROVE  Append(q, f)[i].kind # "exception"
      <3>1. CASE i = n + 1
        BY <1>8, <1>11, <3>1
      <3>2. CASE i # n + 1
        <4>1. i \in 2 .. n /\ i \in 1 .. n
          BY <1>8, <3>2
        <4> QED
          BY <1>8, <1>10, <4>1
      <3> QED
        BY <3>1, <3>2
    <2>2. ASSUME NEW i \in 3 .. (n + 1)
          PROVE  Append(q, f)[i].SPIE
      <3>1. CASE i = n + 1
        <4>1. n > 1
          BY <1>8, <3>1
        <4> QED
          BY <1>8, <1>12, <3>1, <4>1
      <3>2. CASE i # n + 1
        <4>1. i \in 3 .. n /\ i \in 1 .. n
          BY <1>8, <3>2
        <4> QED
          BY <1>8, <1>10, <4>1
      <3> QED
        BY <3>1, <3>2
    <2> QED
      BY <1>8, <2>1, <2>2
  <1> QED
    BY <1>1, <1>9, <1>13 DEF DepthRight

(* A trap. *)
LEMMA TrapNests ==
  ASSUME NestingInv, Ecall \/ Exception \/ NestedEcall \/ TickPreempts
  PROVE  OneUnmasked' /\ DepthRight'
  <1>1. /\ pc \in Places /\ pc.thread = running /\ running' = running
        /\ ~(InHandler /\ InBody) /\ (InHandler => mode = "S")
    BY PlaceFacts DEF NestingInv, ContextInv, ContextType, RunningRight,
       InHandler, InBody, Ecall, Exception, NestedEcall, TickPreempts
  <1>2. CASE Ecall
    <2>1. /\ After(pc) \in Body /\ After(pc) \in Places /\ InBody
          /\ Enter("call", After(pc))
      BY <1>2, PlaceFacts DEF Ecall, BackToNext, InBody
    <2> QED
      BY <1>1, <2>1, EnterUnmasked, EnterDepth
  <1>3. CASE Exception
    <2>1. Enter("exception", pc) /\ ~InHandler /\ (pc \in Body <=> InBody)
      BY <1>1, <1>3 DEF Exception, InBody, InHandler
    <2> QED
      BY <1>1, <2>1, EnterUnmasked, EnterDepth
  <1>4. CASE NestedEcall
    <2>1. Enter("call", pc) /\ Top.kind = "exception" /\ (pc \in Body <=> InBody)
      BY <1>4 DEF NestedEcall, InBody
    <2> QED
      BY <1>1, <2>1, EnterUnmasked, EnterDepth
  <1>5. CASE TickPreempts
    <2>1. /\ Enter("tick", pc) /\ (pc \in Body <=> InBody)
          /\ InHandler => SIE
      BY <1>1, <1>5 DEF TickPreempts, InBody, Interruptible
    <2> QED
      BY <1>1, <2>1, EnterUnmasked, EnterDepth
  <1> QED
    BY <1>2, <1>3, <1>4, <1>5

(* A frame is popped: its permission, if any, is the core's again, whose   *)
(* own is lost.                                                            *)
LEMMA ReturnNests ==
  ASSUME NestingInv, Return
  PROVE  OneUnmasked' /\ DepthRight'
  <1> DEFINE q == frames[running]
             n == Len(q)
             r == SubSeq(q, 1, n - 1)
  <1>1. ContextType /\ OneUnmasked /\ DepthRight /\ running \in Threads
    BY DEF NestingInv, ContextInv, ContextType
  <1>2. q \in Seq(Frames) /\ q # <<>> /\ frames \in [Threads -> Seq(Frames)]
    BY <1>1 DEF NestingInv, ContextInv, ContextType, RunningRight, Return
  <1>3. /\ pc' = q[n].sepc /\ SIE' = q[n].SPIE /\ running' = running
        /\ frames' = [frames EXCEPT ![running] = r]
    BY DEF Return, Restored, Top, Sret
  <1>4. n \in Nat \ {0} /\ Len(r) = n - 1 /\ \A i \in 1 .. n - 1 : r[i] = q[i]
    BY <1>2, Popped
  <1>5. /\ frames'[running] = r
        /\ \A t \in Threads \ {running} : frames'[t] = frames[t]
    BY <1>1, <1>2, <1>3
  <1> HIDE DEF r, q, n
  <1>6. \A t \in Threads : \A i :
          Unmasked(t, i)' => Unmasked(t, i) /\ ~(t = running /\ i = n)
    <2>1. SUFFICES ASSUME NEW t \in Threads, NEW i, Unmasked(t, i)'
                   PROVE  Unmasked(t, i) /\ ~(t = running /\ i = n)
      OBVIOUS
    <2>2. CASE t # running
      BY <1>5, <2>1, <2>2 DEF Unmasked
    <2>3. CASE t = running
      <3>1. i \in 1 .. (n - 1)
        BY <1>4, <1>5, <2>1, <2>3 DEF Unmasked
      <3>2. i \in 1 .. n /\ i # n /\ r[i] = q[i]
        BY <1>4, <3>1
      <3> QED
        BY <1>4, <1>5, <2>1, <2>3, <3>2 DEF Unmasked, q, n
    <2> QED
      BY <2>2, <2>3
  <1>7. CoreUnmasked' => Unmasked(running, n)
    <2>1. n \in 1 .. n
      BY <1>4
    <2> QED
      BY <1>3, <2>1 DEF CoreUnmasked, Unmasked, InBody, q, n
  <1>8. OneUnmasked'
    BY <1>1, <1>6, <1>7 DEF OneUnmasked
  <1>9. DepthRight'
    <2>1. /\ \A i \in 2 .. n : q[i].kind # "exception"
          /\ \A i \in 3 .. n : q[i].SPIE
      BY <1>1 DEF DepthRight, q, n
    <2>2. /\ \A i \in 2 .. Len(r) : r[i].kind # "exception"
          /\ \A i \in 3 .. Len(r) : r[i].SPIE
      <3>1. /\ \A i \in 2 .. Len(r) : i \in 2 .. n /\ r[i] = q[i]
            /\ \A i \in 3 .. Len(r) : i \in 3 .. n /\ r[i] = q[i]
        BY <1>4
      <3> QED
        BY <2>1, <3>1
    <2> QED
      BY <1>1, <1>5, <2>2 DEF DepthRight
  <1> QED
    BY <1>8, <1>9

(* Other steps: the core gets no permission that it did not have, except   *)
(* when the output thread starts, and then there is no other.              *)
LEMMA OthersNest ==
  ASSUME NestingInv, frames' = frames, CoreUnmasked' => CoreUnmasked \/ OutNew
  PROVE  OneUnmasked' /\ DepthRight'
  <1>1. OneUnmasked /\ DepthRight
    BY DEF NestingInv
  <1>2. \A t \in Threads : \A i : Unmasked(t, i)' <=> Unmasked(t, i)
    BY DEF Unmasked
  <1>3. OutNew => \A t \in Threads : \A i : ~Unmasked(t, i)
    <2>1. SUFFICES ASSUME OutNew, NEW t \in Threads, NEW i, Unmasked(t, i)
                   PROVE  FALSE
      OBVIOUS
    <2>2. MaskedStack(frames[t])
      BY <2>1 DEF NestingInv, ContextInv, StartsMasked
    <2>3. t = Out
      BY <2>1, <2>2 DEF Unmasked, MaskedStack
    <2>4. frames[Out] = <<>>
      <3>1. CASE running = Out
        BY <2>1, <3>1, StartedFacts
        DEF OutNew, NestingInv, ContextInv, RunningRight, InHandler
      <3>2. CASE running # Out
        <4>1. /\ context[Out] = At(Out, "wrapper") /\ Out \in Threads
              /\ Suspended(Out, context[Out], frames[Out], due[Out])
              /\ due[Out] \in Body
          BY <2>1, <3>2, PlaceFacts
          DEF OutNew, NestingInv, ContextInv, ContextType, SuspendedRight
        <4>2. At(Out, "wrapper") # At(Out, "handler") /\ At(Out, "wrapper") \notin Body
          BY <4>1, PlaceFacts
        <4> QED
          BY <4>1, <4>2 DEF Suspended
      <3> QED
        BY <3>1, <3>2
    <2>5. Len(<<>>) = 0
      OBVIOUS
    <2> QED
      BY <2>1, <2>3, <2>4, <2>5 DEF Unmasked
  <1>4. OneUnmasked'
    BY <1>1, <1>2, <1>3 DEF OneUnmasked
  <1>5. DepthRight'
    BY <1>1 DEF DepthRight
  <1> QED
    BY <1>4, <1>5

(* Every step keeps it. *)
LEMMA NestingNext ==
  ASSUME NestingInv, [Next]_vars
  PROVE  NestingInv'
  <1>1. ContextInv'
    BY TrapKeeps, SwitchesKeep, ReturnKeeps, StartKeeps, PassThroughKeeps
    DEF Next, NestingInv
  <1>2. CASE Ecall \/ Exception \/ NestedEcall \/ TickPreempts
    BY <1>1, <1>2, TrapNests DEF NestingInv
  <1>3. CASE Return
    BY <1>1, <1>3, ReturnNests DEF NestingInv
  <1>4. CASE \E t \in Threads : Switch(t) \/ BlockDirectly(t)
    <2>1. frames' = frames /\ SIE' = SIE
      BY <1>4 DEF Switch, BlockDirectly, contextSwitch, csrs
    <2>2. ~InBody \/ running = Out
      BY <1>4, PlaceFacts DEF Switch, BlockDirectly, InBody, InHandler
    <2> QED
      BY <1>1, <2>1, <2>2, OthersNest DEF NestingInv, CoreUnmasked
  <1>5. CASE popSpp \/ WriteSepc \/ popSpie
    <2>1. /\ frames' = frames /\ running' = running
          /\ pc.at \in {"wrapper", "pop", "sret"}
      BY <1>5 DEF popSpp, WriteSepc, popSpie
    <2>2. pc.at \notin Started /\ ~InBody
      BY <2>1, PlaceFacts, StartedFacts DEF InBody
    <2>3. CASE running = Out
      BY <1>1, <2>1, <2>2, <2>3, OthersNest DEF NestingInv, OutNew
    <2>4. CASE running # Out
      <3>1. CoreUnmasked' => CoreUnmasked
        <4>1. CASE popSpp \/ WriteSepc
          BY <2>1, <2>2, <4>1 DEF CoreUnmasked, popSpp, WriteSepc
        <4>2. CASE popSpie
          <5>1. CASE running \in astray
            <6>1. SIE
              BY <4>2, <5>1
              DEF popSpie, NestingInv, ContextInv, AstrayRight, AtSret
            <6> QED
              BY <2>2, <6>1 DEF CoreUnmasked
          <5>2. CASE running \notin astray
            <6>1. pc' = At(running, "first") /\ running \in Threads
              BY <4>2, <5>2
              DEF popSpie, Sret, NestingInv, ContextInv, RunningRight, ContextType
            <6>2. pc' \in Body
              BY <6>1, PlaceFacts
            <6> QED
              BY <2>1, <2>4, <6>2 DEF CoreUnmasked, InBody
          <5> QED
            BY <5>1, <5>2
        <4> QED
          BY <1>5, <4>1, <4>2
      <3> QED
        BY <1>1, <2>1, <3>1, OthersNest DEF NestingInv
    <2> QED
      BY <2>3, <2>4
  <1>6. CASE PassThrough \/ UNCHANGED vars
    <2>1. UNCHANGED <<frames, running, pc, SIE>>
      BY <1>6 DEF PassThrough, vars, csrs
    <2> QED
      BY <1>1, <2>1, OthersNest DEF NestingInv, CoreUnmasked, InBody
  <1> QED
    BY <1>2, <1>3, <1>4, <1>5, <1>6 DEF Next

(* At first there is neither a frame nor a permission. *)
LEMMA InitNesting ==
  ASSUME Init
  PROVE  NestingInv
  <1>1. \A t \in Threads : frames[t] = <<>> /\ Len(frames[t]) = 0
    BY DEF Init
  <1>2. OneUnmasked
    BY <1>1 DEF OneUnmasked, Unmasked
  <1>3. DepthRight
    BY <1>1 DEF DepthRight
  <1> QED
    BY <1>2, <1>3, InitContext DEF NestingInv

(***************************************************************************)
(* For any number of threads handlers nest at most three deep on a stack:  *)
(* there is one permission to interrupt a handler in the whole system, and *)
(* only the handler of an exception makes a call.                          *)
(***************************************************************************)
THEOREM NestingAlwaysBounded == Spec => []NestingBounded
  <1>1. Init => NestingInv
    BY InitNesting
  <1>2. NestingInv => NestingBounded
    <2>1. SUFFICES ASSUME NestingInv, NEW t \in Threads, ~(Len(frames[t]) <= 3)
                   PROVE  FALSE
      BY DEF NestingBounded
    <2>2. frames[t] \in Seq(Frames) /\ Len(frames[t]) \in Nat
      BY <2>1, LenProperties DEF NestingInv, ContextInv, ContextType
    <2>3. \A i \in {3, 4} :
            /\ i \in 3 .. Len(frames[t]) /\ i \in 2 .. Len(frames[t])
            /\ i \in 1 .. Len(frames[t])
      BY <2>1, <2>2
    <2>4. \A i \in {3, 4} : frames[t][i].SPIE
      BY <2>1, <2>3 DEF NestingInv, DepthRight
    <2>5. \A i \in {3, 4} : frames[t][i].sepc \notin Body
      <3>1. \A i \in {3, 4} : frames[t][i].sepc = At(t, "handler")
        BY <2>1, <2>3
        DEF NestingInv, ContextInv, FramesRight, StackRight, HandlerFrame
      <3> QED
        BY <3>1, PlaceFacts
    <2>6. Unmasked(t, 3) /\ Unmasked(t, 4)
      BY <2>3, <2>4, <2>5 DEF Unmasked
    <2>7. 3 = 4
      BY <2>1, <2>6 DEF NestingInv, OneUnmasked
    <2> QED
      BY <2>7
  <1> QED
    BY <1>1, <1>2, NestingNext, PTL DEF Spec
-----------------------------------------------------------------------------
(* Where threads are *)

(* It takes the one permission for a trap to lead a thread astray, and the *)
(* thread keeps it.                                                        *)
LEMMA OneStrays ==
  ASSUME NestingInv, \A t, u \in astray : t = u, [Next]_vars
  PROVE  \A t, u \in astray' : t = u
  <1>0. ContextType /\ RunningRight /\ AstrayRight /\ OneUnmasked
    BY DEF NestingInv, ContextInv
  <1>1. CASE astray' = astray
    BY <1>1
  <1>2. CASE astray' # astray
    <2>1. /\ astray' = astray \cup {running} /\ running \notin astray
          /\ pc.at = "sret" /\ mode = "S" /\ (Interruptible \/ InBody)
      BY <1>2 DEF Next, Ecall, Exception, NestedEcall, TickPreempts, PassThrough,
         Switch, BlockDirectly, contextSwitch, Return, popSpp, WriteSepc, popSpie,
         Strays, vars
    <2>2. CoreUnmasked
      <3>1. ~InBody
        BY <2>1, PlaceFacts, StartedFacts DEF InBody
      <3> QED
        BY <2>1, <3>1 DEF CoreUnmasked, Interruptible
    <2>3. ASSUME NEW t \in astray PROVE FALSE
      <3>1. /\ t \in Threads /\ BackToSret(t, frames[t]) /\ frames[t][1].SPIE
        BY <1>0, <2>1, <2>3, PlaceFacts DEF AstrayRight
      <3>2. 1 \in 1 .. Len(frames[t]) /\ frames[t][1].sepc \notin Body
        <4>1. frames[t] \in Seq(Frames) /\ frames[t] # <<>>
          BY <1>0, <3>1 DEF ContextType, BackToSret
        <4>2. Len(frames[t]) \in Nat /\ Len(frames[t]) # 0
          BY <4>1, EmptySeq, LenProperties
        <4>3. 1 \in 1 .. Len(frames[t])
          BY <4>2
        <4> QED
          BY <3>1, <4>3, PlaceFacts DEF BackToSret
      <3>3. Unmasked(t, 1)
        BY <3>1, <3>2 DEF Unmasked
      <3> QED
        BY <1>0, <2>2, <3>1, <3>3 DEF OneUnmasked
    <2> QED
      BY <2>1, <2>3
  <1> QED
    BY <1>1, <1>2

(***************************************************************************)
(* A thread that executes its body is where it left it and in its own      *)
(* mode, for any number of threads and any depth of nested handlers.  Of   *)
(* all threads at most one is kept from its body for good, by a trap       *)
(* between the last two instructions of popSppSpie.                        *)
(***************************************************************************)
THEOREM AlwaysResumesOwn == Spec => []ResumesOwn
  <1> DEFINE Inv == NestingInv /\ \A t, u \in astray : t = u
  <1>1. Init => Inv
    BY InitNesting DEF Init
  <1>2. Inv /\ [Next]_vars => Inv'
    BY NestingNext, OneStrays
  <1>3. Inv => ResumesOwn
    <2>1. SUFFICES ASSUME Inv PROVE ResumesOwn
      OBVIOUS
    <2>2. InBody => pc.at # "sret" /\ frames[running] = <<>>
      BY <2>1, PlaceFacts, StartedFacts
      DEF NestingInv, ContextInv, RunningRight, InBody, InHandler
    <2>3. InBody => running \notin astray
      BY <2>1, <2>2 DEF NestingInv, ContextInv, AstrayRight, BackToSret
    <2> QED
      BY <2>1, <2>3 DEF NestingInv, ContextInv, RunningRight, ResumesOwn
  <1> QED
    BY <1>1, <1>2, <1>3, PTL DEF Spec
=============================================================================
