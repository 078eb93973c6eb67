--------------------------- MODULE LifetimeProofs ---------------------------
(* Proofs about the lifetime of threads, for any objects and any memory. *)
EXTENDS LifetimeProperties, SequenceTheorems, TLAPS

Place == Memory \cup {Main, Idle}
Entries == [pcb : Place, of : Object \cup {Main, Idle}]

-----------------------------------------------------------------------------
(* Handles *)

HandleType ==
  /\ handle \in [Object -> Memory \cup {None}]
  /\ owner \in [Memory -> Object \cup {Main}]
  /\ phase \in [Object -> {"whole", "marked", "stackless", "freed"}]

(* A started thread's handle names its own PCB; the owner of a place tells *)
(* two objects apart, so ~Thread frees nobody else's PCB.                  *)
LEMMA HandlesNext ==
  ASSUME HandleType /\ HandlesOwn, [Next]_vars
  PROVE  HandleType' /\ HandlesOwn'
  <1> USE DEF HandleType, HandlesOwn
  <1>1. ASSUME NEW o \in Object, Start(o) PROVE HandleType' /\ HandlesOwn'
    <2>1. PICK m \in Memory \ (allocated \cup lent) :
            /\ handle' = [handle EXCEPT ![o] = m]
            /\ allocated' = allocated \cup {m}
            /\ owner' = [owner EXCEPT ![m] = o]
            /\ phase' = phase
      BY <1>1 DEF Start
    <2> QED
      BY <2>1
  <1>2. ASSUME NEW o \in Object, Mark(o) \/ FreeStack(o) \/ Terminate(o)
        PROVE  HandleType' /\ HandlesOwn'
    BY <1>2 DEF Mark, FreeStack, Terminate, objectVars, memoryVars
  <1>3. ASSUME NEW o \in Object, FreePCB(o) PROVE HandleType' /\ HandlesOwn'
    <2>1. ASSUME NEW other \in Object, handle[other] # None,
                 phase'[other] # "freed"
          PROVE  handle[other] \in allocated' /\ owner[handle[other]] = other
      <3>1. other # o /\ phase[other] # "freed" /\ phase[o] # "freed"
        BY <1>3, <2>1 DEF FreePCB
      <3>2. handle[other] # handle[o]
        BY <2>1, <3>1
      <3> QED
        BY <1>3, <2>1, <3>1, <3>2 DEF FreePCB
    <2> QED
      BY <1>3, <2>1 DEF FreePCB
  <1>4. CASE Dispatch \/ Block \/ Wake \/ UNCHANGED vars
    BY <1>4 DEF Dispatch, Block, Wake, vars, objectVars, memoryVars
  <1>5. CASE Exit
    BY <1>5 DEF Exit, LeftByExit, objectVars
  <1>6. ASSUME NEW m \in Memory, Overwrite(m) \/ GiveBack(m)
        PROVE  HandleType' /\ HandlesOwn'
    BY <1>6 DEF Overwrite, GiveBack, objectVars
  <1> QED
    BY <1>1, <1>2, <1>3, <1>4, <1>5, <1>6 DEF Next

(***************************************************************************)
(* For any objects and memory, the handle of an object that was started    *)
(* names the PCB that was made for it until ~Thread has freed it.          *)
(***************************************************************************)
THEOREM HandlesAlwaysOwn == Spec => []HandlesOwn
  <1>1. Init => HandleType /\ HandlesOwn
    BY DEF Init, HandleType, HandlesOwn
  <1>2. HandleType /\ HandlesOwn /\ [Next]_vars => HandleType' /\ HandlesOwn'
    BY HandlesNext
  <1> QED
    BY <1>1, <1>2, PTL DEF Spec

-----------------------------------------------------------------------------
(* The marks of deleted threads *)

(* An entry of a list names its thread's PCB, which is marked if the       *)
(* thread is deleted and nothing else was written there; by the handles h, *)
(* the deleted d, the overwritten w and the marks f.                       *)
Sound(e, h, d, w, f) ==
  e.of \in Object => /\ h[e.of] = e.pcb /\ e.pcb \in Memory
                     /\ e.of \in d \ w => f[e.pcb]

ListsType ==
  /\ HandleType
  /\ \A o \in deleted : handle[o] # None
  /\ finished \in [Place -> BOOLEAN]
  /\ running \in Entries /\ ready \in Seq(Entries) /\ away \subseteq Entries

ListsSound ==
  /\ Sound(running, handle, deleted, overwritten, finished)
  /\ running.of \notin deleted \ overwritten
  /\ \A i \in DOMAIN ready :
       Sound(ready[i], handle, deleted, overwritten, finished)
  /\ \A e \in away : Sound(e, handle, deleted, overwritten, finished)

MarksInv == ListsType /\ ListsSound

(* What remains of a list after its first i elements. *)
LEMMA Rest ==
  ASSUME NEW S, NEW q \in Seq(S), NEW i \in DOMAIN q
  PROVE  /\ q[i] \in S /\ SubSeq(q, i + 1, Len(q)) \in Seq(S)
         /\ DOMAIN SubSeq(q, i + 1, Len(q)) = 1 .. (Len(q) - i)
         /\ \A j \in 1 .. (Len(q) - i) :
              i + j \in DOMAIN q /\ SubSeq(q, i + 1, Len(q))[j] = q[i + j]
  <1>1. Len(q) \in Nat /\ DOMAIN q = 1 .. Len(q)
    BY LenProperties
  <1>2. \A k \in (i + 1) .. Len(q) : q[k] \in S
    BY <1>1, ElementOfSeq
  <1> DEFINE rest == SubSeq(q, i + 1, Len(q))
  <1>3. /\ rest \in Seq(S)
        /\ Len(rest) = IF i + 1 <= Len(q) THEN Len(q) - (i + 1) + 1 ELSE 0
        /\ \A j \in 1 .. Len(q) - (i + 1) + 1 : rest[j] = q[(i + 1) + j - 1]
    BY <1>1, <1>2, SubSeqProperties
  <1>4. DOMAIN rest = 1 .. Len(rest)
    BY <1>3, LenProperties
  <1> HIDE DEF rest
  <1>5. /\ rest \in Seq(S) /\ DOMAIN rest = 1 .. (Len(q) - i)
        /\ \A j \in 1 .. (Len(q) - i) :
             i + j \in DOMAIN q /\ rest[j] = q[i + j]
    BY <1>1, <1>3, <1>4
  <1> QED
    BY <1>1, <1>5, ElementOfSeq DEF rest

(* What Scheduler::get returns, and what it leaves of the list. *)
LEMMA SwitchTakes ==
  ASSUME NEW l \in Seq(Entries), NEW f, Switch(l, f)
  PROVE  /\ running' \in Entries /\ ready' \in Seq(Entries)
         /\ \/ running' = Entry(Idle, Idle)
            \/ \E i \in DOMAIN l : running' = l[i] /\ ~f[l[i].pcb]
         /\ \A j \in DOMAIN ready' : \E i \in DOMAIN l : ready'[j] = l[i]
  <1>1. CASE \E i \in DOMAIN l : /\ ~f[l[i].pcb]
                                 /\ running' = l[i]
                                 /\ ready' = SubSeq(l, i + 1, Len(l))
    <2>1. PICK i \in DOMAIN l : /\ ~f[l[i].pcb]
                                /\ running' = l[i]
                                /\ ready' = SubSeq(l, i + 1, Len(l))
      BY <1>1
    <2>2. running' \in Entries /\ ready' \in Seq(Entries)
      BY <2>1, Rest
    <2>3. ASSUME NEW j \in DOMAIN ready'
          PROVE  \E k \in DOMAIN l : ready'[j] = l[k]
      <3>1. i + j \in DOMAIN l /\ ready'[j] = l[i + j]
        BY <2>1, Rest
      <3> QED
        BY <3>1
    <2> QED
      BY <2>1, <2>2, <2>3
  <1>2. CASE running' = Entry(Idle, Idle) /\ ready' = <<>>
    BY <1>2 DEF Entry, Entries, Place
  <1> QED
    BY <1>1, <1>2 DEF Switch

(* A list of sound entries stays one when a sound entry is appended. *)
LEMMA Appended ==
  ASSUME NEW l \in Seq(Entries), NEW e \in Entries
  PROVE  /\ Append(l, e) \in Seq(Entries)
         /\ \A i \in DOMAIN Append(l, e) :
              Append(l, e)[i] = e
              \/ (i \in DOMAIN l /\ Append(l, e)[i] = l[i])
  <1>1. /\ Append(l, e) \in Seq(Entries) /\ Len(l) \in Nat
        /\ Len(Append(l, e)) = Len(l) + 1
        /\ \A i \in 1 .. Len(l) : Append(l, e)[i] = l[i]
        /\ Append(l, e)[Len(l) + 1] = e
    BY AppendProperties, LenProperties
  <1>2. DOMAIN l = 1 .. Len(l) /\ DOMAIN Append(l, e) = 1 .. (Len(l) + 1)
    BY <1>1, LenProperties
  <1> QED
    BY <1>1, <1>2

(***************************************************************************)
(* A switch among sound entries takes no deleted thread.                   *)
(***************************************************************************)
LEMMA SwitchSound ==
  ASSUME NEW l \in Seq(Entries), NEW h, NEW d \in SUBSET Object, NEW w,
         NEW f, Switch(l, f),
         \A i \in DOMAIN l : Sound(l[i], h, d, w, f)
  PROVE  /\ running' \in Entries /\ ready' \in Seq(Entries)
         /\ Sound(running', h, d, w, f) /\ running'.of \notin d \ w
         /\ \A j \in DOMAIN ready' : Sound(ready'[j], h, d, w, f)
  <1>1. /\ running' \in Entries /\ ready' \in Seq(Entries)
        /\ \/ running' = Entry(Idle, Idle)
           \/ \E i \in DOMAIN l : running' = l[i] /\ ~f[l[i].pcb]
        /\ \A j \in DOMAIN ready' : \E i \in DOMAIN l : ready'[j] = l[i]
    BY SwitchTakes
  <1>2. CASE running' = Entry(Idle, Idle)
    BY <1>1, <1>2, ObjectAssumption DEF Sound, Entry
  <1>3. CASE \E i \in DOMAIN l : running' = l[i] /\ ~f[l[i].pcb]
    BY <1>1, <1>3, ObjectAssumption DEF Sound
  <1> QED
    BY <1>1, <1>2, <1>3 DEF Sound

(* The same of the handles, the deleted and the overwritten there are.     *)
LEMMA SwitchSoundNow ==
  ASSUME ListsType, NEW l \in Seq(Entries), NEW f, Switch(l, f),
         \A i \in DOMAIN l : Sound(l[i], handle, deleted, overwritten, f)
  PROVE  /\ Sound(running', handle, deleted, overwritten, f)
         /\ running'.of \notin deleted \ overwritten
         /\ \A j \in DOMAIN ready' :
              Sound(ready'[j], handle, deleted, overwritten, f)
  <1>1. PICK h, d, w : h = handle /\ d = deleted /\ w = overwritten
    OBVIOUS
  <1>2. d \in SUBSET Object
    BY <1>1 DEF deleted
  <1>3. \A i \in DOMAIN l : Sound(l[i], h, d, w, f)
    BY <1>1
  <1>4. /\ Sound(running', h, d, w, f) /\ running'.of \notin d \ w
        /\ \A j \in DOMAIN ready' : Sound(ready'[j], h, d, w, f)
    BY <1>2, <1>3, SwitchSound
  <1> QED
    BY <1>1, <1>4

(* ~Thread adds to the deleted, and nothing takes from them. *)
LEMMA DeletedNext ==
  ASSUME HandleType, [Next]_vars
  PROVE  \/ deleted' = deleted
         \/ \E o \in Object : Mark(o) /\ deleted' = deleted \cup {o}
  <1>1. ASSUME NEW o \in Object, Mark(o) PROVE deleted' = deleted \cup {o}
    <2>1. \A p \in Object : phase'[p] = IF p = o THEN "marked" ELSE phase[p]
      BY <1>1 DEF Mark, HandleType
    <2> QED
      BY <2>1 DEF deleted
  <1>2. ASSUME NEW o \in Object, FreeStack(o) \/ FreePCB(o)
        PROVE  deleted' = deleted
    <2>1. \A p \in Object : (phase'[p] = "whole") <=> (phase[p] = "whole")
      BY <1>2 DEF FreeStack, FreePCB, HandleType
    <2> QED
      BY <2>1 DEF deleted
  <1>3. CASE phase' = phase
    BY <1>3 DEF deleted
  <1> QED
    BY <1>1, <1>2, <1>3
       DEF Next, Start, Terminate, Dispatch, Block, Wake, Exit, Overwrite,
           GiveBack, vars, objectVars

(* The lists keep their type. *)
LEMMA ListsTypeNext ==
  ASSUME ListsType, HandlesOwn, [Next]_vars
  PROVE  ListsType'
  <1> USE DEF ListsType
  <1>1. HandleType'
    BY HandlesNext
  <1> DEFINE Lists == /\ running \in Entries /\ ready \in Seq(Entries)
                      /\ away \subseteq Entries
             Handles == \A o \in deleted : handle[o] # None
  <1>2. Handles'
    <2>1. CASE \E o \in Object : Start(o)
      <3>1. PICK o \in Object, m \in Memory :
                   handle' = [handle EXCEPT ![o] = m] /\ phase' = phase
        BY <2>1 DEF Start
      <3> QED
        BY <3>1, ObjectAssumption DEF HandleType, deleted
    <2>2. CASE handle' = handle /\ deleted' = deleted
      BY <2>2
    <2>3. CASE \E o \in Object : Mark(o) /\ deleted' = deleted \cup {o}
      BY <2>3 DEF Mark
    <2>4. handle' = handle \/ \E o \in Object : Start(o)
      BY DEF Next, Mark, FreeStack, FreePCB, Terminate, Dispatch, Block, Wake,
             Exit, Overwrite, GiveBack, vars, objectVars
    <2> QED
      BY <2>1, <2>2, <2>3, <2>4, DeletedNext
  <1>3. finished' \in [Place -> BOOLEAN]
    <2>1. ASSUME NEW o \in Object, Start(o)
          PROVE  finished' \in [Place -> BOOLEAN]
      BY <2>1 DEF Start, Place
    <2>2. ASSUME NEW o \in Object,
                 Mark(o) \/ FreeStack(o) \/ FreePCB(o) \/ Terminate(o)
          PROVE  finished' \in [Place -> BOOLEAN]
      BY <2>2 DEF Mark, Marked, FreeStack, FreePCB, Terminate
    <2>3. ASSUME NEW m \in Memory, Overwrite(m) \/ GiveBack(m)
          PROVE  finished' \in [Place -> BOOLEAN]
      BY <2>3 DEF Overwrite, GiveBack, Place
    <2>4. CASE Dispatch \/ Block \/ Wake \/ Exit \/ UNCHANGED vars
      BY <2>4 DEF Dispatch, Block, Wake, Exit, vars
    <2> QED
      BY <2>1, <2>2, <2>3, <2>4 DEF Next
  <1>4. Lists'
    <2>1. ASSUME NEW o \in Object, Start(o) PROVE Lists'
      <3>1. PICK m \in Memory : /\ ready' = Append(ready, Entry(m, o))
                                /\ running' = running /\ away' = away
        BY <2>1 DEF Start
      <3>2. Entry(m, o) \in Entries
        BY DEF Entry, Entries, Place
      <3> QED
        BY <3>1, <3>2
    <2>2. CASE UNCHANGED listVars
      BY <2>2 DEF listVars
    <2>3. CASE Dispatch
      <3>1. Append(ready, running) \in Seq(Entries)
        OBVIOUS
      <3>2. Switch(ready, finished)
            \/ Switch(Append(ready, running), finished)
        BY <2>3 DEF Dispatch
      <3>3. running' \in Entries /\ ready' \in Seq(Entries)
        BY <3>1, <3>2, SwitchTakes
      <3> QED
        BY <2>3, <3>3 DEF Dispatch
    <2>4. CASE Block
      BY <2>4, SwitchTakes DEF Block
    <2>5. CASE Wake
      BY <2>5 DEF Wake
    <2>6. CASE Exit
      BY <2>6, SwitchTakes DEF Exit
    <2> QED
      BY <2>1, <2>2, <2>3, <2>4, <2>5, <2>6
         DEF Next, Mark, FreeStack, FreePCB, Terminate, Overwrite, GiveBack,
             vars, listVars
  <1> QED
    BY <1>1, <1>2, <1>3, <1>4

(* Lists that keep their entries stay sound when each entry does. *)
LEMMA Kept ==
  ASSUME ListsType, ListsSound, UNCHANGED listVars,
         \A e \in Entries :
           Sound(e, handle, deleted, overwritten, finished)
           => Sound(e, handle', deleted', overwritten', finished'),
         running.of \notin deleted' \ overwritten'
  PROVE  ListsSound'
  <1>1. \A i \in DOMAIN ready : ready[i] \in Entries
    BY Rest DEF ListsType
  <1> QED
    BY <1>1 DEF ListsSound, ListsType, listVars

(* So does an entry when a place is written and the threads with an entry  *)
(* there are noted.                                                        *)
LEMMA Noted ==
  ASSUME ListsType, ListsSound, NEW m \in Memory,
         overwritten' = overwritten \cup Named(m),
         finished' \in [Place -> BOOLEAN],
         \A p \in Place \ {m} : finished'[p] = finished[p],
         NEW e \in ToSet(ready) \cup away \cup {running}
  PROVE  Sound(e, handle, deleted, overwritten', finished')
  <1>1. \A i \in DOMAIN ready : ready[i] \in Entries
    BY Rest DEF ListsType
  <1>2. e \in Entries /\ Sound(e, handle, deleted, overwritten, finished)
    BY <1>1 DEF ListsType, ListsSound, ToSet
  <1>3. CASE e.pcb = m
    <2>1. e.of \in overwritten'
      BY <1>3 DEF Named
    <2> QED
      BY <1>2, <2>1 DEF Sound
  <1>4. CASE e.pcb # m
    <2>1. finished'[e.pcb] = finished[e.pcb]
      BY <1>2, <1>4 DEF Entries
    <2> QED
      BY <1>2, <2>1 DEF Sound
  <1> QED
    BY <1>3, <1>4

(* Sound lists stay sound. *)
LEMMA MarksNext ==
  ASSUME MarksInv, HandlesOwn, [Next]_vars
  PROVE  MarksInv'
  <1>1. /\ ListsType /\ ListsType' /\ ListsSound /\ HandleType
        /\ deleted \in SUBSET Object
    BY ListsTypeNext DEF MarksInv, ListsType, deleted
  <1> SUFFICES ListsSound'
    BY <1>1 DEF MarksInv
  <1>2. ASSUME NEW o \in Object, Start(o) PROVE ListsSound'
    <2>1. PICK m \in Memory \ (allocated \cup lent) :
            /\ handle' = [handle EXCEPT ![o] = m] /\ phase' = phase
            /\ finished' = [finished EXCEPT ![m] = FALSE]
            /\ ready' = Append(ready, Entry(m, o))
            /\ overwritten' = overwritten \cup Named(m)
            /\ running' = running /\ away' = away
      BY <1>2 DEF Start
    <2>2. deleted' = deleted /\ handle[o] = None
      BY <1>2, <2>1 DEF deleted, Start
    <2>3. o \notin deleted
      BY <1>1, <2>2 DEF ListsType
    <2>4. ASSUME NEW e \in ToSet(ready) \cup away \cup {running}
          PROVE  Sound(e, handle', deleted', overwritten', finished')
      <3>1. finished' \in [Place -> BOOLEAN]
            /\ \A p \in Place \ {m} : finished'[p] = finished[p]
        BY <1>1, <2>1 DEF ListsType, Place
      <3>2. Sound(e, handle, deleted, overwritten', finished')
        BY <1>1, <2>1, <3>1, Noted
      <3>3. CASE e.of \in Object
        <4>1. e.of # o
          BY <2>2, <3>2, <3>3, ObjectAssumption DEF Sound
        <4>2. handle'[e.of] = handle[e.of]
          BY <1>1, <2>1, <3>3, <4>1 DEF HandleType
        <4> QED
          BY <2>2, <3>2, <4>2 DEF Sound
      <3> QED
        BY <3>3 DEF Sound
    <2>5. running.of \notin deleted' \ overwritten'
      BY <1>1, <2>1, <2>2 DEF ListsSound
    <2>6. Sound(Entry(m, o), handle', deleted', overwritten', finished')
      BY <1>1, <2>1, <2>2, <2>3 DEF Sound, Entry, HandleType
    <2>7. Entry(m, o) \in Entries
      BY DEF Entry, Entries, Place
    <2>8. \A i \in DOMAIN ready' :
            Sound(ready'[i], handle', deleted', overwritten', finished')
      <3> DEFINE e == Entry(m, o)
      <3>1. \A i \in DOMAIN ready' :
              ready'[i] = e \/ (i \in DOMAIN ready /\ ready'[i] = ready[i])
        BY <1>1, <2>1, <2>7, Appended DEF ListsType
      <3>2. \A i \in DOMAIN ready : ready[i] \in ToSet(ready)
        BY DEF ToSet
      <3> HIDE DEF e
      <3>3. Sound(e, handle', deleted', overwritten', finished')
        BY <2>6 DEF e
      <3> QED
        BY <2>4, <3>1, <3>2, <3>3
    <2> QED
      BY <2>1, <2>4, <2>5, <2>8 DEF ListsSound
  <1>3. ASSUME NEW o \in Object, Mark(o) PROVE ListsSound'
    <2>1. deleted' = deleted \cup {o} /\ overwritten' = overwritten
      <3>1. \A p \in Object : phase'[p] = IF p = o THEN "marked" ELSE phase[p]
        BY <1>1, <1>3 DEF Mark, HandleType
      <3> QED
        BY <1>3, <3>1 DEF deleted, Mark, memoryVars
    <2>2. /\ finished' = [finished EXCEPT ![handle[o]] = TRUE]
          /\ handle' = handle /\ UNCHANGED listVars /\ running.of # o
      BY <1>3 DEF Mark, Marked
    <2>3. ASSUME NEW e \in Entries,
                 Sound(e, handle, deleted, overwritten, finished)
          PROVE  Sound(e, handle', deleted', overwritten', finished')
      BY <1>1, <2>1, <2>2, <2>3 DEF Sound, ListsType, Entries, Place
    <2>4. running.of \notin deleted' \ overwritten'
      BY <1>1, <2>1, <2>2 DEF ListsSound
    <2> QED
      BY <1>1, <2>2, <2>3, <2>4, Kept
  <1>4. ASSUME NEW o \in Object, FreeStack(o) \/ FreePCB(o) PROVE ListsSound'
    <2>1. deleted' = deleted
      <3>1. \A p \in Object : (phase'[p] = "whole") <=> (phase[p] = "whole")
        BY <1>1, <1>4 DEF FreeStack, FreePCB, HandleType
      <3> QED
        BY <3>1 DEF deleted
    <2>2. UNCHANGED <<handle, overwritten, finished, listVars>>
      BY <1>4 DEF FreeStack, FreePCB, memoryVars
    <2> QED
      BY <1>1, <2>1, <2>2, Kept DEF ListsSound
  <1>5. ASSUME NEW o \in Object, Terminate(o) PROVE ListsSound'
    <2>1. /\ finished' = [finished EXCEPT ![handle[o]] = TRUE]
          /\ UNCHANGED <<handle, phase, overwritten, listVars>>
      BY <1>5 DEF Terminate, objectVars, memoryVars
    <2>2. deleted' = deleted
      BY <2>1 DEF deleted
    <2>3. ASSUME NEW e \in Entries,
                 Sound(e, handle, deleted, overwritten, finished)
          PROVE  Sound(e, handle', deleted', overwritten', finished')
      BY <1>1, <2>1, <2>2, <2>3 DEF Sound, ListsType, Entries, Place
    <2> QED
      BY <1>1, <2>1, <2>2, <2>3, Kept DEF ListsSound
  <1>6. ASSUME NEW m \in Memory, Overwrite(m) PROVE ListsSound'
    <2>1. /\ overwritten' = overwritten \cup Named(m)
          /\ UNCHANGED <<handle, phase, listVars>>
      BY <1>6 DEF Overwrite, objectVars
    <2>2. deleted' = deleted /\ UNCHANGED <<running, ready, away>>
      BY <2>1 DEF deleted, listVars
    <2>3. finished' \in [Place -> BOOLEAN]
          /\ \A p \in Place \ {m} : finished'[p] = finished[p]
      BY <1>1, <1>6 DEF Overwrite, ListsType, Place
    <2>4. \A e \in ToSet(ready) \cup away \cup {running} :
            Sound(e, handle, deleted, overwritten', finished')
      BY <1>1, <2>1, <2>3, Noted
    <2>5. \A i \in DOMAIN ready : ready[i] \in ToSet(ready)
      BY DEF ToSet
    <2> QED
      BY <1>1, <2>1, <2>2, <2>4, <2>5 DEF ListsSound
  <1>7. ASSUME NEW m \in Memory, GiveBack(m) PROVE ListsSound'
    BY <1>1, <1>7 DEF GiveBack, objectVars, listVars, ListsSound, deleted
  <1>8. CASE Dispatch
    <2>1. /\ Append(ready, running) \in Seq(Entries)
          /\ \A i \in DOMAIN Append(ready, running) :
               Sound(Append(ready, running)[i], handle, deleted, overwritten,
                     finished)
      BY <1>1, Appended DEF ListsSound, ListsType
    <2>2. Switch(ready, finished) \/ Switch(Append(ready, running), finished)
      BY <1>8 DEF Dispatch
    <2>3. /\ Sound(running', handle, deleted, overwritten, finished)
          /\ running'.of \notin deleted \ overwritten
          /\ \A j \in DOMAIN ready' :
               Sound(ready'[j], handle, deleted, overwritten, finished)
      BY <1>1, <2>1, <2>2, SwitchSoundNow DEF ListsSound, ListsType
    <2>4. /\ UNCHANGED <<handle, overwritten, finished, away>>
          /\ deleted' = deleted
      BY <1>8 DEF Dispatch, objectVars, memoryVars, deleted
    <2> QED
      BY <1>1, <2>3, <2>4 DEF ListsSound
  <1>9. CASE Block
    <2>1. /\ Sound(running', handle, deleted, overwritten, finished)
          /\ running'.of \notin deleted \ overwritten
          /\ \A j \in DOMAIN ready' :
               Sound(ready'[j], handle, deleted, overwritten, finished)
      BY <1>1, <1>9, SwitchSoundNow DEF ListsSound, ListsType, Block
    <2>2. /\ UNCHANGED <<handle, overwritten, finished>>
          /\ deleted' = deleted /\ away' = away \cup {running}
      BY <1>9 DEF Block, objectVars, memoryVars, deleted
    <2> QED
      BY <1>1, <2>1, <2>2 DEF ListsSound
  <1>10. CASE Wake
    <2>1. PICK e \in away : /\ away' = away \ {e} /\ ready' = Append(ready, e)
                            /\ UNCHANGED <<objectVars, memoryVars, finished,
                                           running>>
      BY <1>10 DEF Wake
    <2>2. e \in Entries /\ ready \in Seq(Entries)
      BY <1>1 DEF ListsType
    <2>3. \A i \in DOMAIN ready' :
            ready'[i] = e \/ (i \in DOMAIN ready /\ ready'[i] = ready[i])
      BY <2>1, <2>2, Appended
    <2>4. UNCHANGED <<handle, overwritten, finished>> /\ deleted' = deleted
      BY <2>1 DEF objectVars, memoryVars, deleted
    <2> QED
      BY <1>1, <2>1, <2>3, <2>4 DEF ListsSound
  <1>11. CASE Exit
    <2> DEFINE f == [finished EXCEPT ![running.pcb] = TRUE]
    <2>1. Switch(ready, f) /\ finished' = f
      BY <1>11 DEF Exit
    <2>2. UNCHANGED <<handle, overwritten, away>> /\ deleted' = deleted
      BY <1>11 DEF Exit, objectVars, deleted
    <2>3. ASSUME NEW e, Sound(e, handle, deleted, overwritten, finished),
                 e \in Entries
          PROVE  Sound(e, handle, deleted, overwritten, f)
      BY <1>1, <2>3 DEF Sound, ListsType, Entries, Place
    <2>4. \A i \in DOMAIN ready : ready[i] \in Entries
      BY <1>1, Rest DEF ListsType
    <2>5. \A i \in DOMAIN ready :
            Sound(ready[i], handle, deleted, overwritten, f)
      BY <1>1, <2>3, <2>4 DEF ListsSound
    <2>6. \A e \in away : Sound(e, handle, deleted, overwritten, f)
      BY <1>1, <2>3 DEF ListsSound, ListsType
    <2> HIDE DEF f
    <2>7. /\ Sound(running', handle, deleted, overwritten, f)
          /\ running'.of \notin deleted \ overwritten
          /\ \A j \in DOMAIN ready' :
               Sound(ready'[j], handle, deleted, overwritten, f)
      BY <1>1, <2>1, <2>5, SwitchSoundNow DEF ListsType
    <2> QED
      BY <2>1, <2>2, <2>6, <2>7 DEF ListsSound
  <1>12. CASE UNCHANGED vars
    BY <1>1, <1>12 DEF ListsSound, vars, objectVars, memoryVars, listVars,
                       deleted
  <1> QED
    BY <1>2, <1>3, <1>4, <1>5, <1>6, <1>7, <1>8, <1>9, <1>10, <1>11, <1>12
       DEF Next

(***************************************************************************)
(* For any objects and memory, a thread whose object is deleted, or in the *)
(* middle of it, is never switched to unless the memory of its PCB was     *)
(* written by somebody else while a list still named it.                   *)
(***************************************************************************)
THEOREM DeletedThreadsNeverRun == Spec => []DeletedNeverRuns
  <1>1. Init => MarksInv
    <2> SUFFICES ASSUME Init PROVE MarksInv
      OBVIOUS
    <2>1. ready \in Seq(Entries) /\ DOMAIN ready = {}
      BY DEF Init
    <2>2. running \in Entries /\ running.of = Main
      BY DEF Init, Entry, Entries, Place
    <2>3. HandleType /\ finished \in [Place -> BOOLEAN] /\ deleted = {}
      BY DEF Init, HandleType, Place, deleted
    <2> QED
      BY <2>1, <2>2, <2>3, ObjectAssumption
         DEF Init, MarksInv, ListsType, ListsSound, Sound
  <1>2. MarksInv /\ HandlesOwn /\ [Next]_vars => MarksInv'
    BY MarksNext
  <1>3. MarksInv => DeletedNeverRuns
    BY DEF MarksInv, ListsSound, DeletedNeverRuns
  <1> QED
    BY <1>1, <1>2, <1>3, HandlesAlwaysOwn, PTL DEF Spec
=============================================================================
