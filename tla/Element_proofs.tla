--------------------------- MODULE Element_proofs ---------------------------
(***************************************************************************)
(* Proofs about the elements of a page and about the store their guests    *)
(* use: WorkerElement for every set of elements, with its types, what a    *)
(* report means and that a report is final; Kgraph for all terms, datoms   *)
(* and queries, with its types, that facts stand and that answers are      *)
(* right.  Between them, what the sequences of a store need.               *)
(***************************************************************************)
EXTENDS WorkerElement, Kgraph, SumTheorems, SequenceTheorems, FiniteSetTheorems, TLAPS

-----------------------------------------------------------------------------
(* WorkerElement.                                                          *)

\* The guest on the main thread belongs to an element that still waits; an
\* element that never was inserted has no worker; a result in the queue came
\* from the guest.
Origins ==
  /\ main # None => element[main] = "waiting"
  /\ \A e \in WorkerElements : element[e] = "absent" => host[e] = "none"
  /\ \A e \in WorkerElements : inbox[e] = "ok" => returned[e]

IInv == TypeOK /\ ReportsSound /\ Origins

\* A report is the last thing an element does.
FinalStep == \A e \in Elements : element[e] \in Reported => element'[e] = element[e]

-----------------------------------------------------------------------------
\* A page starts with no element inserted.
LEMMA InitInv == Init => IInv
<1> SUFFICES ASSUME Init PROVE IInv
  OBVIOUS
<1> QED
  BY DEF Init, IInv, TypeOK, ReportsSound, OneEvent, DoneIsReal, NoOrphan, Origins, Reported,
         HostStates, InnerStates, Elements

\* What a report changes, for an element that has not reported.
LEMMA ReportFacts ==
  ASSUME IInv, NEW e \in Elements, NEW outcome \in Reported, Reports(e, outcome), element[e] \notin Reported
  PROVE /\ element' \in [Elements -> {"absent", "waiting"} \cup Reported]
        /\ events' \in [Elements -> Nat]
        /\ element'[e] = outcome /\ events'[e] = 1
        /\ \A d \in Elements : d # e => element'[d] = element[d] /\ events'[d] = events[d]
        /\ OneEvent'
<1>1. element \in [Elements -> {"absent", "waiting"} \cup Reported] /\ events \in [Elements -> Nat]
  BY DEF IInv, TypeOK
<1>2. events[e] = 0 /\ OneEvent
  BY DEF IInv, ReportsSound, OneEvent
<1>3. /\ element' \in [Elements -> {"absent", "waiting"} \cup Reported]
      /\ events' \in [Elements -> Nat]
      /\ element'[e] = outcome /\ events'[e] = 1
      /\ \A d \in Elements : d # e => element'[d] = element[d] /\ events'[d] = events[d]
  BY <1>1, <1>2 DEF Reports
<1>4. OneEvent'
  BY <1>2, <1>3 DEF OneEvent
<1> QED
  BY <1>3, <1>4

-----------------------------------------------------------------------------
(* The main thread.                                                        *)

\* Inserting arms the deadline before the worker can report.
LEMMA InsertsKeeps == ASSUME IInv, NEW e \in WorkerElements, Inserts(e) PROVE IInv' /\ FinalStep
<1>1. /\ main = None /\ element[e] = "absent" /\ e \in Elements
      /\ UNCHANGED <<main, inbox, terminated, inner, returned>>
  BY DEF Inserts, Elements
<1>2. host[e] = "none"
  BY <1>1 DEF IInv, Origins
<1>3. CASE Reports(e, "error") /\ UNCHANGED <<timer, host>>
  <2>1. /\ element' \in [Elements -> {"absent", "waiting"} \cup Reported] /\ events' \in [Elements -> Nat]
        /\ element'[e] = "error"
        /\ \A d \in Elements : d # e => element'[d] = element[d]
        /\ OneEvent'
    BY <1>1, <1>3, ReportFacts DEF Reported
  <2>2. TypeOK'
    BY <1>1, <1>3, <2>1 DEF IInv, TypeOK, Elements
  <2>3. DoneIsReal' /\ NoOrphan' /\ Origins' /\ FinalStep
    BY <1>1, <1>2, <1>3, <2>1
    DEF IInv, ReportsSound, DoneIsReal, NoOrphan, Origins, FinalStep, Reported, Elements
  <2> QED
    BY <2>1, <2>2, <2>3 DEF IInv, ReportsSound
<1>4. CASE /\ element' = [element EXCEPT ![e] = "waiting"]
           /\ timer' = Armed(e) /\ host' = [host EXCEPT ![e] = "loads"]
           /\ UNCHANGED events
  <2>1. /\ element' \in [Elements -> {"absent", "waiting"} \cup Reported]
        /\ element'[e] = "waiting"
        /\ \A d \in Elements : d # e => element'[d] = element[d]
    BY <1>1, <1>4 DEF IInv, TypeOK
  <2>2. /\ timer' \in [WorkerElements -> {"none", "armed", "cleared", "fired"}] /\ timer'[e] = "armed"
        /\ \A d \in WorkerElements : d # e => timer'[d] = timer[d]
    BY <1>4 DEF IInv, TypeOK, Armed
  <2>3. /\ host' \in [WorkerElements -> HostStates]
        /\ \A d \in WorkerElements : d # e => host'[d] = host[d]
    BY <1>4 DEF IInv, TypeOK, HostStates
  <2>4. TypeOK'
    BY <1>1, <1>4, <2>1, <2>2, <2>3 DEF IInv, TypeOK, Elements
  <2>5. OneEvent' /\ FinalStep
    BY <1>1, <1>4, <2>1 DEF IInv, ReportsSound, OneEvent, FinalStep, Reported
  <2>6. DoneIsReal' /\ NoOrphan' /\ Origins'
    BY <1>1, <2>1, <2>2, <2>3 DEF IInv, ReportsSound, DoneIsReal, NoOrphan, Origins, Elements
  <2> QED
    BY <2>4, <2>5, <2>6 DEF IInv, ReportsSound
<1> QED
  BY <1>3, <1>4 DEF Inserts

\* A result is in the queue only when the guest returned it.
LEMMA TakesMessageKeeps == ASSUME IInv, NEW e \in WorkerElements, TakesMessage(e) PROVE IInv' /\ FinalStep
<1>1. /\ UNCHANGED <<main, host, inner, returned>> /\ inbox' = [inbox EXCEPT ![e] = "none"]
      /\ main = None /\ inbox[e] \in {"ok", "error"} /\ e \in Elements
  BY DEF TakesMessage, workerVars, IInv, TypeOK, Elements
<1>2. /\ inbox' \in [WorkerElements -> {"none", "ok", "error"}]
      /\ \A d \in WorkerElements : inbox'[d] \in {"none", inbox[d]}
  BY <1>1 DEF IInv, TypeOK
<1>3. CASE Unsettled(e)
  <2>1. PICK outcome \in Outcomes(inbox[e]) : Reports(e, outcome)
    BY <1>3 DEF TakesMessage
  <2>2. outcome \in Reported /\ (outcome = "done" => inbox[e] = "ok") /\ element[e] \notin Reported
    BY <1>3 DEF Outcomes, Reported, Unsettled
  <2>3. /\ element' \in [Elements -> {"absent", "waiting"} \cup Reported] /\ events' \in [Elements -> Nat]
        /\ element'[e] = outcome
        /\ \A d \in Elements : d # e => element'[d] = element[d]
        /\ OneEvent'
    BY <1>1, <2>1, <2>2, ReportFacts
  <2>4. /\ timer' \in [WorkerElements -> {"none", "armed", "cleared", "fired"}]
        /\ inbox[e] = "ok" => timer'[e] = "cleared"
        /\ \A d \in WorkerElements : d # e => timer'[d] = timer[d]
    BY <1>3 DEF TakesMessage, IInv, TypeOK
  <2>5. /\ terminated' \in [WorkerElements -> BOOLEAN] /\ terminated'[e] = TRUE
        /\ \A d \in WorkerElements : d # e => terminated'[d] = terminated[d]
    <3>1. terminated' = [terminated EXCEPT ![e] = TRUE] /\ terminated \in [WorkerElements -> BOOLEAN]
      BY <1>3 DEF TakesMessage, Terminates, IInv, TypeOK
    <3> QED
      BY <3>1
  <2>6. TypeOK'
    BY <1>1, <1>2, <2>2, <2>3, <2>4, <2>5 DEF IInv, TypeOK, Elements, Reported
  <2>7. FinalStep
    BY <2>2, <2>3 DEF FinalStep
  <2>8. DoneIsReal'
    BY <1>1, <2>2, <2>3, <2>4 DEF IInv, ReportsSound, DoneIsReal, Origins, Elements
  <2>9. NoOrphan' /\ Origins'
    BY <1>1, <1>2, <2>2, <2>3, <2>5 DEF IInv, ReportsSound, NoOrphan, Origins, Elements, Reported
  <2> QED
    BY <2>3, <2>6, <2>7, <2>8, <2>9 DEF IInv, ReportsSound
<1>4. CASE ~Unsettled(e)
  <2>1. UNCHANGED <<element, events, timer, terminated>>
    BY <1>4 DEF TakesMessage
  <2>2. TypeOK'
    BY <1>1, <1>2, <2>1 DEF IInv, TypeOK
  <2>3. Origins' /\ FinalStep
    BY <1>1, <1>2, <2>1 DEF IInv, Origins, FinalStep
  <2> QED
    BY <1>1, <2>1, <2>2, <2>3 DEF IInv, ReportsSound, OneEvent, DoneIsReal, NoOrphan
<1> QED
  BY <1>3, <1>4

\* A deadline that fires finds an element that has not reported, and ends its
\* worker.
LEMMA TimerFiresKeeps == ASSUME IInv, NEW e \in WorkerElements, TimerFires(e) PROVE IInv' /\ FinalStep
<1>1. /\ UNCHANGED <<main, inbox, host, inner, returned>> /\ main = None /\ timer[e] = "armed" /\ e \in Elements
  BY DEF TimerFires, workerVars, Elements
<1>2. /\ timer' \in [WorkerElements -> {"none", "armed", "cleared", "fired"}]
      /\ \A d \in WorkerElements : d # e => timer'[d] = timer[d]
  BY DEF TimerFires, IInv, TypeOK
<1>3. /\ terminated' \in [WorkerElements -> BOOLEAN] /\ terminated'[e] = TRUE
      /\ \A d \in WorkerElements : d # e => terminated'[d] = terminated[d]
  <2>1. terminated' = [terminated EXCEPT ![e] = TRUE] /\ terminated \in [WorkerElements -> BOOLEAN]
    BY DEF TimerFires, IInv, TypeOK
  <2> QED
    BY <2>1
<1>4. CASE Unsettled(e)
  <2>1. Reports(e, "error") /\ element[e] \notin Reported
    BY <1>4 DEF TimerFires, Unsettled, Reported
  <2>2. /\ element' \in [Elements -> {"absent", "waiting"} \cup Reported] /\ events' \in [Elements -> Nat]
        /\ element'[e] = "error"
        /\ \A d \in Elements : d # e => element'[d] = element[d]
        /\ OneEvent'
    BY <1>1, <2>1, ReportFacts DEF Reported
  <2>3. TypeOK'
    BY <1>1, <1>2, <1>3, <2>2 DEF IInv, TypeOK, Elements
  <2>4. FinalStep
    BY <2>1, <2>2 DEF FinalStep
  <2>5. DoneIsReal' /\ NoOrphan' /\ Origins'
    BY <1>1, <1>2, <1>3, <2>2 DEF IInv, ReportsSound, DoneIsReal, NoOrphan, Origins, Elements
  <2> QED
    BY <2>2, <2>3, <2>4, <2>5 DEF IInv, ReportsSound
<1>5. CASE ~Unsettled(e)
  <2>1. UNCHANGED <<element, events>> /\ element[e] # "waiting"
    BY <1>5 DEF TimerFires, Unsettled
  <2>2. TypeOK'
    BY <1>1, <1>2, <1>3, <2>1 DEF IInv, TypeOK
  <2>3. OneEvent' /\ FinalStep
    BY <2>1 DEF IInv, ReportsSound, OneEvent, FinalStep
  <2>4. DoneIsReal'
    BY <1>1, <1>2, <2>1 DEF IInv, ReportsSound, DoneIsReal
  <2>5. NoOrphan' /\ Origins'
    BY <1>1, <1>3, <2>1 DEF IInv, ReportsSound, NoOrphan, Origins
  <2> QED
    BY <2>2, <2>3, <2>4, <2>5 DEF IInv, ReportsSound
<1> QED
  BY <1>4, <1>5

\* Plain elements: only the element whose guest has the main thread ends.
LEMMA PlainKeeps ==
  ASSUME IInv, NEW e \in PlainElements, PlainInserts(e) \/ PlainStarts(e) \/ PlainEnds(e)
  PROVE IInv' /\ FinalStep
<1>1. /\ UNCHANGED <<timer, inbox, terminated, host, inner>>
      /\ e \in Elements /\ e # None /\ e \notin WorkerElements
  BY ElementsAssumption DEF PlainInserts, PlainStarts, PlainEnds, workerVars, Elements
<1>2. ASSUME UNCHANGED returned, main' \in {main, None, e},
             \/ Reports(e, "error") /\ element[e] = "waiting" /\ main' = None
             \/ UNCHANGED <<element, events>> /\ (main' # None => element[main'] = "waiting")
      PROVE  IInv' /\ FinalStep
  <2>1. CASE Reports(e, "error") /\ element[e] = "waiting" /\ main' = None
    <3>1. /\ element' \in [Elements -> {"absent", "waiting"} \cup Reported] /\ events' \in [Elements -> Nat]
          /\ element'[e] = "error"
          /\ \A d \in Elements : d # e => element'[d] = element[d]
          /\ OneEvent'
      BY <1>1, <2>1, ReportFacts DEF Reported
    <3>2. TypeOK'
      BY <1>1, <1>2, <2>1, <3>1 DEF IInv, TypeOK, Elements
    <3>3. DoneIsReal' /\ NoOrphan' /\ Origins' /\ FinalStep
      BY <1>1, <1>2, <2>1, <3>1
      DEF IInv, ReportsSound, DoneIsReal, NoOrphan, Origins, FinalStep, Reported, Elements
    <3> QED
      BY <3>1, <3>2, <3>3 DEF IInv, ReportsSound
  <2>2. CASE UNCHANGED <<element, events>> /\ (main' # None => element[main'] = "waiting")
    <3>1. TypeOK'
      BY <1>1, <1>2, <2>2 DEF IInv, TypeOK
    <3>2. Origins' /\ FinalStep
      BY <1>1, <1>2, <2>2 DEF IInv, Origins, FinalStep
    <3> QED
      BY <1>1, <1>2, <2>2, <3>1, <3>2 DEF IInv, ReportsSound, OneEvent, DoneIsReal, NoOrphan
  <2> QED
    BY <1>2, <2>1, <2>2
<1>3. CASE PlainInserts(e)
  <2>1. /\ UNCHANGED <<main, events, returned>> /\ main = None /\ element[e] = "absent"
        /\ element' = [element EXCEPT ![e] = "waiting"]
    BY <1>3 DEF PlainInserts, workerVars
  <2>2. /\ element' \in [Elements -> {"absent", "waiting"} \cup Reported]
        /\ element'[e] = "waiting"
        /\ \A d \in Elements : d # e => element'[d] = element[d]
    BY <1>1, <2>1 DEF IInv, TypeOK
  <2>3. TypeOK'
    BY <1>1, <2>1, <2>2 DEF IInv, TypeOK, Elements
  <2>4. ReportsSound' /\ Origins' /\ FinalStep
    BY <1>1, <2>1, <2>2
    DEF IInv, ReportsSound, OneEvent, DoneIsReal, NoOrphan, Origins, FinalStep, Reported, Elements
  <2> QED
    BY <2>3, <2>4 DEF IInv
<1>4. CASE PlainStarts(e)
  <2>1. /\ UNCHANGED returned /\ main = None /\ element[e] = "waiting"
        /\ \/ Reports(e, "error") /\ UNCHANGED main
           \/ main' = e /\ UNCHANGED <<element, events>>
    BY <1>4 DEF PlainStarts, workerVars
  <2> QED
    BY <1>2, <2>1
<1>5. CASE PlainEnds(e)
  <2>1. main = e /\ main' = None /\ element[e] = "waiting"
    BY <1>1, <1>5 DEF PlainEnds, IInv, Origins
  <2>2. CASE Reports(e, "error") /\ UNCHANGED returned
    BY <1>2, <2>1, <2>2
  <2>3. CASE returned' = [returned EXCEPT ![e] = TRUE] /\ \E outcome \in Outcomes("ok") : Reports(e, outcome)
    <3>1. PICK outcome \in Reported : Reports(e, outcome)
      BY <2>3 DEF Outcomes, Reported
    <3>2. /\ element' \in [Elements -> {"absent", "waiting"} \cup Reported] /\ events' \in [Elements -> Nat]
          /\ element'[e] = outcome
          /\ \A d \in Elements : d # e => element'[d] = element[d]
          /\ OneEvent'
      BY <1>1, <2>1, <3>1, ReportFacts DEF Reported
    <3>3. /\ returned' \in [Elements -> BOOLEAN] /\ returned'[e]
          /\ \A d \in Elements : d # e => returned'[d] = returned[d]
      <4>1. returned \in [Elements -> BOOLEAN]
        BY DEF IInv, TypeOK
      <4> QED
        BY <1>1, <2>3, <4>1
    <3>4. TypeOK'
      BY <1>1, <2>1, <3>1, <3>2, <3>3 DEF IInv, TypeOK, Elements
    <3>5. DoneIsReal' /\ NoOrphan'
      BY <1>1, <3>2, <3>3 DEF IInv, ReportsSound, DoneIsReal, NoOrphan, Elements
    <3>6. Origins' /\ FinalStep
      BY <1>1, <2>1, <3>2, <3>3 DEF IInv, Origins, FinalStep, Elements, Reported
    <3> QED
      BY <3>2, <3>4, <3>5, <3>6 DEF IInv, ReportsSound
  <2> QED
    BY <1>5, <2>2, <2>3 DEF PlainEnds
<1> QED
  BY <1>3, <1>4, <1>5

-----------------------------------------------------------------------------
(* The host and the worker inside it change nothing on the main thread.     *)

\* Where a step of the host can come from and lead.
LEMMA HostMoves ==
  ASSUME IInv, NEW e \in WorkerElements, UNCHANGED <<mainVars, terminated>>,
         inner' \in [WorkerElements -> InnerStates],
         host' \in [WorkerElements -> HostStates],
         \A d \in WorkerElements : host'[d] \in {host[d], "none"} \/ host[d] # "none",
         inbox' \in [WorkerElements -> {"none", "ok", "error"}],
         returned' \in [Elements -> BOOLEAN],
         \A d \in Elements : returned[d] => returned'[d],
         \A d \in WorkerElements : inbox'[d] \in {inbox[d], "none", "error"} \/ returned'[d]
  PROVE IInv' /\ FinalStep
<1>1. UNCHANGED <<main, element, events, timer, terminated>>
  BY DEF mainVars
<1>2. TypeOK'
  BY <1>1 DEF IInv, TypeOK
<1>3. OneEvent' /\ FinalStep
  BY <1>1 DEF IInv, ReportsSound, OneEvent, FinalStep
<1>4. DoneIsReal'
  BY <1>1 DEF IInv, ReportsSound, DoneIsReal
<1>5. NoOrphan'
  BY <1>1 DEF IInv, ReportsSound, NoOrphan
<1>6. Origins'
  <2>1. \A d \in WorkerElements : d \in Elements
    BY DEF Elements
  <2>2. \A d \in WorkerElements : inbox'[d] = "ok" => returned'[d]
    BY <2>1 DEF IInv, Origins
  <2>3. \A d \in WorkerElements : element[d] = "absent" => host'[d] = "none"
    BY DEF IInv, Origins
  <2> QED
    BY <1>1, <2>2, <2>3 DEF IInv, Origins
<1> QED
  BY <1>2, <1>3, <1>4, <1>5, <1>6 DEF IInv, ReportsSound

\* A message leaves those of the other elements alone.
LEMMA PostFacts ==
  ASSUME IInv, NEW e \in WorkerElements, NEW message \in {"ok", "error"}, Posts(e, message)
  PROVE /\ inbox' \in [WorkerElements -> {"none", "ok", "error"}]
        /\ \A d \in WorkerElements : inbox'[d] = inbox[d] \/ (d = e /\ inbox'[d] = message)
BY DEF IInv, TypeOK, Posts

\* A step of one host is no step of another.
LEMMA MoveFacts ==
  ASSUME IInv, NEW e \in WorkerElements, NEW from \in HostStates \ {"none"}, NEW to \in HostStates, Moves(e, from, to)
  PROVE /\ host' \in [WorkerElements -> HostStates]
        /\ \A d \in WorkerElements : host'[d] = host[d] \/ host[d] # "none"
BY DEF IInv, TypeOK, Moves

\* A step of the worker reports nothing; what it posts waits.
LEMMA HostKeeps == ASSUME IInv, NEW e \in WorkerElements, HostStep(e) \/ HostStops(e) PROVE IInv' /\ FinalStep
<1> DEFINE Same(d) == host'[d] = host[d] \/ host[d] # "none"
<1>1. /\ inner \in [WorkerElements -> InnerStates] /\ host \in [WorkerElements -> HostStates]
      /\ inbox \in [WorkerElements -> {"none", "ok", "error"}] /\ returned \in [Elements -> BOOLEAN]
      /\ e \in Elements
  BY DEF IInv, TypeOK, Elements
<1>2. /\ UNCHANGED <<mainVars, terminated>>
      /\ inner' \in [WorkerElements -> InnerStates]
  BY <1>1 DEF HostStep, HostLoads, InnerLoads, HostBridges, HostInstantiates, GuestCalls, InnerAnswers,
     GuestEnds, HostDisposes, HostStops, InnerStates
<1>3. CASE GuestEnds(e)
  <2>1. host' \in [WorkerElements -> HostStates] /\ \A d \in WorkerElements : Same(d)
    BY <1>3, MoveFacts DEF GuestEnds, HostStates
  <2>2. CASE Posts(e, "ok") /\ returned' = [returned EXCEPT ![e] = TRUE]
    <3>1. /\ returned' \in [Elements -> BOOLEAN] /\ returned'[e]
          /\ \A d \in Elements : returned[d] => returned'[d]
      BY <1>1, <2>2
    <3>2. /\ inbox' \in [WorkerElements -> {"none", "ok", "error"}]
          /\ \A d \in WorkerElements : inbox'[d] = inbox[d] \/ (d = e /\ inbox'[d] = "ok")
      BY <2>2, PostFacts
    <3> QED
      BY <1>2, <2>1, <3>1, <3>2, HostMoves
  <2>3. CASE Posts(e, "error") /\ UNCHANGED returned
    <3>1. /\ inbox' \in [WorkerElements -> {"none", "ok", "error"}]
          /\ \A d \in WorkerElements : inbox'[d] = inbox[d] \/ (d = e /\ inbox'[d] = "error")
      BY <2>3, PostFacts
    <3> QED
      BY <1>1, <1>2, <2>1, <2>3, <3>1, HostMoves
  <2> QED
    BY <1>3, <2>2, <2>3 DEF GuestEnds
<1>4. CASE ~GuestEnds(e)
  <2>1. returned' = returned
    BY <1>4 DEF HostStep, HostLoads, InnerLoads, HostBridges, HostInstantiates, GuestCalls, InnerAnswers,
       HostDisposes, HostStops
  <2>2. inbox' = inbox \/ Posts(e, "error")
    BY <1>4 DEF HostStep, HostLoads, InnerLoads, HostBridges, HostInstantiates, GuestCalls, InnerAnswers,
       HostDisposes, HostStops
  <2>3. /\ inbox' \in [WorkerElements -> {"none", "ok", "error"}]
        /\ \A d \in WorkerElements : inbox'[d] = inbox[d] \/ inbox'[d] = "error"
    BY <1>1, <2>2, PostFacts
  <2>4. CASE HostStops(e)
    <3>1. /\ host' \in [WorkerElements -> HostStates]
          /\ \A d \in WorkerElements : host'[d] \in {host[d], "none"}
      BY <1>1, <2>4 DEF HostStops, HostStates
    <3> QED
      BY <1>1, <1>2, <2>1, <2>3, <3>1, HostMoves
  <2>5. CASE HostStep(e)
    <3>1. \/ host' = host
          \/ \E from \in HostStates \ {"none"}, to \in HostStates : Moves(e, from, to)
      BY <1>4, <2>5 DEF HostStep, HostLoads, InnerLoads, HostBridges, HostInstantiates, GuestCalls,
         InnerAnswers, HostDisposes, HostStates
    <3>2. host' \in [WorkerElements -> HostStates] /\ \A d \in WorkerElements : Same(d)
      BY <1>1, <3>1, MoveFacts
    <3> QED
      BY <1>1, <1>2, <2>1, <2>3, <3>2, HostMoves
  <2> QED
    BY <2>4, <2>5
<1> QED
  BY <1>3, <1>4

-----------------------------------------------------------------------------
(* The theorems.                                                           *)

\* Every step keeps the invariant and what was reported.
LEMMA NextKeeps == IInv /\ [Next]_vars => IInv' /\ FinalStep
<1> SUFFICES ASSUME IInv, [Next]_vars PROVE IInv' /\ FinalStep
  OBVIOUS
<1>1. CASE Next
  BY <1>1, InsertsKeeps, TakesMessageKeeps, TimerFiresKeeps, HostKeeps, PlainKeeps DEF Next
<1>2. CASE UNCHANGED vars
  <2>1. UNCHANGED <<main, element, events, timer, inbox, terminated, host, inner, returned>>
    BY <1>2 DEF vars, mainVars, workerVars
  <2>2. TypeOK'
    BY <2>1 DEF IInv, TypeOK
  <2> QED
    BY <2>1, <2>2 DEF IInv, ReportsSound, OneEvent, DoneIsReal, NoOrphan, Origins, FinalStep
<1> QED
  BY <1>1, <1>2

\* The invariant holds.
LEMMA Inductive == Spec => []IInv
<1> QED
  BY InitInv, NextKeeps, PTL DEF Spec

\* Every variable keeps its type, and an element that waits has its deadline
\* armed.
THEOREM TypeCorrect == Spec => []TypeOK
<1>1. IInv => TypeOK
  BY DEF IInv
<1> QED
  BY <1>1, Inductive, PTL

\* An element dispatches one event, reports a result only when its guest gave
\* it in time, and leaves no worker running that was not told to stop.
THEOREM ReportsHold == Spec => []ReportsSound
<1>1. IInv => ReportsSound
  BY DEF IInv
<1> QED
  BY <1>1, Inductive, PTL

\* Whatever result, error or deadline comes later, the first report stands.
THEOREM ReportsAreFinal == Spec => [][FinalStep]_vars
<1>1. IInv /\ [Next]_vars => [FinalStep]_vars
  BY NextKeeps
<1> QED
  BY <1>1, Inductive, PTL DEF Spec

-----------------------------------------------------------------------------
(* Sequences.                                                              *)

\* Induction up to N, for a set: a smallest number outside it is not 0.
LEMMA UpTo ==
  ASSUME NEW N \in Nat, NEW T, 0 \in T, \A n \in 1..N : n - 1 \in T => n \in T
  PROVE \A n \in 0..N : n \in T
<1> DEFINE bad == {n \in 0..N : n \notin T}
<1> SUFFICES ASSUME bad # {} PROVE FALSE
  OBVIOUS
<1>1. PICK n \in bad : \A m \in bad : 0..m \subseteq 0..n => 0..m = 0..n
  <2> DEFINE upTo == {0..m : m \in bad}
             all == 0..N
  <2>1. IsFiniteSet(all)
    BY FS_Interval
  <2>3. upTo \in SUBSET (SUBSET all)
    <3>1. \A m \in bad : 0..m \subseteq 0..N
      OBVIOUS
    <3> QED
      BY <3>1
  <2>4. upTo # {}
    <3>1. PICK m : m \in bad
      OBVIOUS
    <3> QED
      BY <3>1
  <2>2. \E t \in upTo : \A s \in upTo : s \subseteq t => s = t
    <3> HIDE DEF upTo, all
    <3> QED
      BY <2>1, <2>3, <2>4, SmallestSet
  <2>5. PICK t \in upTo : \A s \in upTo : s \subseteq t => s = t
    BY <2>2
  <2>6. PICK n \in bad : t = 0..n
    OBVIOUS
  <2>7. \A m \in bad : 0..m \in upTo
    OBVIOUS
  <2> QED
    BY <2>5, <2>6, <2>7
<1>2. \A m \in bad : ~ (m < n)
  <2> SUFFICES ASSUME NEW m \in bad, m < n PROVE FALSE
    OBVIOUS
  <2>1. 0..m = 0..n
    BY <1>1
  <2>2. n \in 0..n /\ n \notin 0..m
    OBVIOUS
  <2> QED
    BY <2>1, <2>2
<1>3. n \in 1..N /\ n - 1 \notin bad
  BY <1>2
<1> QED
  BY <1>3

\* A function on 0..N defined by its first value and by its steps.
Steps(step, N, S) == step \in [(1..N) \X S -> S]
Recurs(f, base, step, N, S) ==
  f \in [0..N -> S] /\ f[0] = base /\ \A n \in 1..N : f[n] = step[<<n, f[n - 1]>>]

\* Such a function exists, by induction up to N.
LEMMA Recursion ==
  ASSUME NEW N \in Nat, NEW S, NEW base \in S, NEW step, Steps(step, N, S)
  PROVE \E f : Recurs(f, base, step, N, S)
<1> USE DEF Steps
<1> DEFINE Made(m, f) == f \in [0..m -> S] /\ f[0] = base /\ \A n \in 1..m : f[n] = step[<<n, f[n - 1]>>]
           T == {m \in 0..N : \E f : Made(m, f)}
<1>1. 0 \in T
  <2>1. Made(0, [n \in 0..0 |-> base])
    OBVIOUS
  <2> HIDE DEF Made
  <2> QED
    BY <2>1
<1>2. ASSUME NEW m \in 1..N, m - 1 \in T PROVE m \in T
  <2>1. PICK f : Made(m - 1, f)
    BY <1>2
  <2> DEFINE g == [n \in 0..m |-> IF n = m THEN step[<<m, f[m - 1]>>] ELSE f[n]]
  <2>2. f[m - 1] \in S /\ step[<<m, f[m - 1]>>] \in S
    BY <2>1
  <2>3. g \in [0..m -> S] /\ g[0] = base
    BY <2>1, <2>2
  <2>4. ASSUME NEW n \in 1..m PROVE g[n] = step[<<n, g[n - 1]>>]
    <3>1. CASE n = m
      <4>1. g[m] = step[<<m, f[m - 1]>>] /\ m - 1 \in 0..m /\ m - 1 # m
        OBVIOUS
      <4>2. g[m - 1] = f[m - 1]
        BY <4>1
      <4> QED
        BY <3>1, <4>1, <4>2
    <3>2. CASE n # m
      <4>1. n \in 1..(m - 1) /\ n - 1 \in 0..m /\ n - 1 # m
        BY <3>2
      <4> QED
        BY <2>1, <4>1
    <3> QED
      BY <3>1, <3>2
  <2> HIDE DEF g
  <2>5. Made(m, g)
    BY <2>3, <2>4
  <2> HIDE DEF Made
  <2> QED
    BY <2>5
<1> HIDE DEF T
<1>3. \A n \in 0..N : n \in T
  BY <1>1, <1>2, UpTo
<1>4. PICK f : Made(N, f)
  BY <1>3 DEF T
<1> QED
  BY <1>4 DEF Recurs

\* FlattenSeq is a concatenation from left to right.
Concats(f, seqs, S) ==
  /\ f \in [0..Len(seqs) -> Seq(S)] /\ f[0] = <<>>
  /\ \A n \in 1..Len(seqs) : f[n] = f[n - 1] \o seqs[n]
  /\ f[Len(seqs)] = FlattenSeq(seqs)

\* FlattenSeq ends what appending one sequence after another begins.
LEMMA FlattenIs == ASSUME NEW S, NEW seqs \in Seq(Seq(S)) PROVE \E f : Concats(f, seqs, S)
<1> DEFINE N == Len(seqs)
           step == [p \in (1..N) \X Seq(S) |-> p[2] \o seqs[p[1]]]
<1>1. N \in Nat /\ <<>> \in Seq(S) /\ step \in [(1..N) \X Seq(S) -> Seq(S)]
  OBVIOUS
<1>2. PICK f \in [0..N -> Seq(S)] : f[0] = <<>> /\ \A n \in 1..N : f[n] = step[<<n, f[n - 1]>>]
  <2>1. Steps(step, N, Seq(S))
    BY <1>1 DEF Steps
  <2> HIDE DEF N, step
  <2>2. PICK f : Recurs(f, <<>>, step, N, Seq(S))
    BY <1>1, <2>1, Recursion
  <2> QED
    BY <2>2 DEF Recurs
<1>3. \A n \in 1..N : f[n] = f[n - 1] \o seqs[n]
  BY <1>2
<1>5. seqs \in [1..N -> Seq(S)] /\ \A n \in 1..N : seqs[n] \in Seq(S) /\ <<>> \o seqs[n] = seqs[n]
  BY ConcatEmptySeq
<1>6. \A n \in 1..N : n = 1 => f[n] = seqs[n]
  <2> SUFFICES ASSUME NEW n \in 1..N, n = 1 PROVE f[n] = seqs[n]
    OBVIOUS
  <2> HIDE DEF N
  <2>1. f[n] = f[n - 1] \o seqs[n] /\ <<>> \o seqs[n] = seqs[n]
    BY <1>3, <1>5, Zenon
  <2>2. n - 1 = 0 /\ f[0] = <<>>
    BY <1>2
  <2> QED
    BY <2>1, <2>2
<1>4. f[N] = FlattenSeq(seqs)
  <2>1. CASE N = 0
    BY <1>2, <2>1 DEF FlattenSeq
  <2>2. CASE N # 0
    <3> DEFINE Is(g) == g = [i \in 1..N |-> IF i = 1 THEN seqs[i] ELSE g[i - 1] \o seqs[i]]
               flat == CHOOSE g : Is(g)
               h == [i \in 1..N |-> f[i]]
    <3>1. Is(h)
      <4>1. ASSUME NEW i \in 1..N PROVE h[i] = IF i = 1 THEN seqs[i] ELSE h[i - 1] \o seqs[i]
        <5>1. CASE i = 1
          BY <1>6, <5>1
        <5>2. CASE i # 1
          <6>1. i - 1 \in 1..N /\ h[i - 1] = f[i - 1] /\ h[i] = f[i]
            BY <5>2
          <6> QED
            BY <1>3, <5>2, <6>1
        <5> QED
          BY <5>1, <5>2
      <4> QED
        BY <4>1
    <3>2. Is(flat)
      BY <3>1
    <3> DEFINE T == {n \in 0..N : n = 0 \/ flat[n] = f[n]}
    <3> HIDE DEF flat
    <3>3. ASSUME NEW n \in 1..N, n - 1 \in T PROVE n \in T
      <4>1. CASE n = 1
        BY <1>6, <3>2, <4>1
      <4>2. CASE n # 1
        <5>1. n - 1 # 0 /\ flat[n - 1] = f[n - 1]
          BY <3>3, <4>2
        <5>2. flat[n] = flat[n - 1] \o seqs[n]
          BY <3>2, <4>2
        <5>3. f[n] = f[n - 1] \o seqs[n]
          <6> HIDE DEF N, T
          <6> QED
            BY <1>3
        <5>4. flat[n] = f[n] /\ n \in 0..N
          <6> HIDE DEF T
          <6> QED
            BY <5>1, <5>2, <5>3
        <5> QED
          BY <5>4
      <4> QED
        BY <4>1, <4>2
    <3>4. 0 \in T
      OBVIOUS
    <3>5. N \in T
      <4> HIDE DEF T
      <4> QED
        <5> HIDE DEF N
        <5>1. \A n \in 0..N : n \in T
          BY <1>1, <3>3, <3>4, UpTo
        <5> QED
          BY <1>1, <5>1
    <3> QED
      BY <2>2, <3>5 DEF FlattenSeq, flat
  <2> QED
    BY <2>1, <2>2
<1>7. Concats(f, seqs, S)
  BY <1>2, <1>3, <1>4 DEF Concats
<1> QED
  BY <1>7

\* Its elements are those of all the sequences.
LEMMA ConcatSet ==
  ASSUME NEW S, NEW a \in Seq(S), NEW b \in Seq(S)
  PROVE ToSet(a \o b) = ToSet(a) \cup ToSet(b)
<1>1. /\ Len(a) \in Nat /\ DOMAIN a = 1..Len(a) /\ Len(b) \in Nat /\ DOMAIN b = 1..Len(b)
      /\ DOMAIN (a \o b) = 1..(Len(a) + Len(b))
  BY ConcatProperties
<1>2. /\ \A k \in DOMAIN a : k \in DOMAIN (a \o b) /\ (a \o b)[k] = a[k]
      /\ \A k \in DOMAIN b : k + Len(a) \in DOMAIN (a \o b) /\ (a \o b)[k + Len(a)] = b[k]
  BY <1>1, ConcatProperties
<1>3. \A k \in DOMAIN (a \o b) : k \in DOMAIN a \/ (k - Len(a) \in DOMAIN b /\ (k - Len(a)) + Len(a) = k)
  BY <1>1
<1>4. ToSet(a \o b) \subseteq ToSet(a) \cup ToSet(b)
  BY <1>2, <1>3 DEF ToSet
<1>5. ToSet(a) \subseteq ToSet(a \o b) /\ ToSet(b) \subseteq ToSet(a \o b)
  BY <1>2 DEF ToSet
<1> QED
  BY <1>4, <1>5

Gathers(s, seqs, n) == \A x : x \in ToSet(s) <=> \E k \in 1..n : x \in ToSet(seqs[k])

\* A flattened sequence has the elements of all its sequences.
LEMMA FlattenGathers ==
  ASSUME NEW S, NEW seqs, seqs \in Seq(Seq(S))
  PROVE FlattenSeq(seqs) \in Seq(S) /\ Gathers(FlattenSeq(seqs), seqs, Len(seqs))
<1>0. PICK f : Concats(f, seqs, S)
  <2>1. \E f : Concats(f, seqs, S)
    BY FlattenIs
  <2> QED
    BY <2>1
<1>1. /\ f \in [0..Len(seqs) -> Seq(S)] /\ f[0] = <<>>
      /\ \A n \in 1..Len(seqs) : f[n] = f[n - 1] \o seqs[n]
      /\ f[Len(seqs)] = FlattenSeq(seqs)
  BY <1>0 DEF Concats
<1> DEFINE T == {n \in 0..Len(seqs) : Gathers(f[n], seqs, n)}
<1>2. Len(seqs) \in Nat /\ \A k \in 1..Len(seqs) : seqs[k] \in Seq(S)
  OBVIOUS
<1>3. 0 \in T
  BY <1>1, <1>2 DEF ToSet, Gathers
<1>4. ASSUME NEW n \in 1..Len(seqs), n - 1 \in T PROVE n \in T
  <2>1. Gathers(f[n - 1], seqs, n - 1)
    BY <1>4
  <2>2. f[n] = f[n - 1] \o seqs[n] /\ f[n - 1] \in Seq(S) /\ seqs[n] \in Seq(S)
    <3>1. n - 1 \in 0..Len(seqs)
      BY <1>2
    <3> QED
      BY <1>1, <1>2, <3>1
  <2>3. ToSet(f[n]) = ToSet(f[n - 1]) \cup ToSet(seqs[n])
    BY <2>2, ConcatSet
  <2>4. \A k : k \in 1..n <=> k \in 1..(n - 1) \/ k = n
    BY <1>2
  <2> HIDE DEF T
  <2>5. Gathers(f[n], seqs, n)
    BY <2>1, <2>3, <2>4, Zenon DEF Gathers
  <2> QED
    BY <1>2, <2>5 DEF T
<1> HIDE DEF T
<1>5. \A n \in 0..Len(seqs) : n \in T
  BY <1>2, <1>3, <1>4, UpTo
<1>6. Gathers(f[Len(seqs)], seqs, Len(seqs))
  BY <1>2, <1>5 DEF T
<1>7. f[Len(seqs)] \in Seq(S)
  BY <1>1, <1>2
<1> QED
  BY <1>1, <1>6, <1>7

\* How many elements of a sequence are in a set.
CountIn(s, P) == Cardinality({k \in DOMAIN s : s[k] \in P})

\* An element appended counts if it is in the set.
LEMMA CountAppend ==
  ASSUME NEW S, NEW s \in Seq(S), NEW e \in S, NEW P
  PROVE CountIn(Append(s, e), P) = CountIn(s, P) + (IF e \in P THEN 1 ELSE 0) /\ CountIn(s, P) \in Nat
<1> DEFINE t == Append(s, e)
           A == {k \in DOMAIN s : s[k] \in P}
           B == {k \in DOMAIN t : t[k] \in P}
<1>1. Len(s) \in Nat /\ DOMAIN s = 1..Len(s) /\ DOMAIN t = 1..(Len(s) + 1)
  OBVIOUS
<1>2. t[Len(s) + 1] = e /\ \A k \in 1..Len(s) : t[k] = s[k]
  OBVIOUS
<1>3. IsFiniteSet(A) /\ Cardinality(A) \in Nat /\ Len(s) + 1 \notin A
  <2>1. IsFiniteSet(1..Len(s)) /\ A \subseteq 1..Len(s)
    BY <1>1, FS_Interval
  <2>2. Len(s) + 1 \notin A
    BY <1>1
  <2> HIDE DEF A
  <2> QED
    BY <2>1, <2>2, FS_Subset, FS_CardinalityType
<1>4. CASE e \in P
  <2>1. B = A \cup {Len(s) + 1}
    BY <1>1, <1>2, <1>4
  <2> HIDE DEF A, B
  <2>2. Cardinality(B) = Cardinality(A) + 1
    BY <1>3, <2>1, FS_AddElement
  <2> QED
    BY <1>3, <1>4, <2>2 DEF CountIn, A, B
<1>5. CASE e \notin P
  <2>1. B = A
    BY <1>1, <1>2, <1>5
  <2> HIDE DEF A, B
  <2>2. Cardinality(B) = Cardinality(A) + 0
    BY <1>3, <2>1
  <2> QED
    BY <1>3, <1>5, <2>2 DEF CountIn, A, B
<1> QED
  BY <1>4, <1>5

\* A concatenation of sequences of one element at most, as a filter makes it.
Pieces(seqs, S) == seqs \in Seq(Seq(S)) /\ \A k \in 1..Len(seqs) : seqs[k] = <<>> \/ \E e \in S : seqs[k] = <<e>>

\* A flattened filter has what it was to keep.
LEMMA FlattenCounts ==
  ASSUME NEW S, NEW seqs, Pieces(seqs, S), NEW P
  PROVE /\ CountIn(FlattenSeq(seqs), P) = Cardinality({k \in 1..Len(seqs) : seqs[k] # <<>> /\ seqs[k][1] \in P})
        /\ Len(FlattenSeq(seqs)) <= Len(seqs)
<1>0. PICK f : Concats(f, seqs, S)
  BY FlattenIs DEF Pieces
<1>1. /\ f \in [0..Len(seqs) -> Seq(S)] /\ f[0] = <<>>
      /\ \A n \in 1..Len(seqs) : f[n] = f[n - 1] \o seqs[n]
      /\ f[Len(seqs)] = FlattenSeq(seqs)
  BY <1>0 DEF Concats
<1> DEFINE Found(n) == {k \in 1..n : seqs[k] # <<>> /\ seqs[k][1] \in P}
           Counted(n) == CountIn(f[n], P) = Cardinality(Found(n)) /\ Len(f[n]) <= n
           T == {n \in 0..Len(seqs) : Counted(n)}
<1>2. Len(seqs) \in Nat
  BY DEF Pieces
<1>3. 0 \in T
  <2>1. {k \in DOMAIN f[0] : f[0][k] \in P} = {} /\ Found(0) = {} /\ Len(f[0]) = 0
    BY <1>1
  <2> HIDE DEF Found
  <2> QED
    BY <1>2, <2>1, FS_EmptySet DEF CountIn
<1>4. ASSUME NEW n \in 1..Len(seqs), n - 1 \in T PROVE n \in T
  <2>1. Counted(n - 1) /\ n - 1 \in Nat /\ n - 1 \in 0..Len(seqs) /\ n \in 0..Len(seqs) /\ n \in Nat
    BY <1>2, <1>4
  <2>2. f[n] = f[n - 1] \o seqs[n] /\ f[n - 1] \in Seq(S)
    BY <1>1, <2>1
  <2>3. IsFiniteSet(Found(n - 1)) /\ n \notin Found(n - 1) /\ Cardinality(Found(n - 1)) \in Nat
    <3>1. IsFiniteSet(1..(n - 1)) /\ Found(n - 1) \subseteq 1..(n - 1) /\ n \notin 1..(n - 1)
      BY <2>1, FS_Interval
    <3> HIDE DEF Found
    <3> QED
      BY <3>1, FS_Subset, FS_CardinalityType
  <2>4. 1..n = 1..(n - 1) \cup {n}
    BY <2>1
  <2>5. CASE seqs[n] = <<>>
    <3>1. f[n] = f[n - 1]
      BY <2>2, <2>5, ConcatEmptySeq
    <3>2. Found(n) = Found(n - 1)
      BY <2>4, <2>5
    <3>3. Counted(n)
      <4> HIDE DEF Found
      <4>1. Len(f[n - 1]) \in Nat
        BY <2>2
      <4> QED
        BY <2>1, <3>1, <3>2, <4>1
    <3> QED
      BY <2>1, <3>3
  <2>6. ASSUME NEW e \in S, seqs[n] = <<e>> PROVE n \in T
    <3>1. f[n] = Append(f[n - 1], e)
      BY <2>2, <2>6, AppendIsConcat
    <3>2. CountIn(f[n], P) = CountIn(f[n - 1], P) + (IF e \in P THEN 1 ELSE 0)
      BY <2>2, <3>1, CountAppend
    <3>3. Len(f[n]) = Len(f[n - 1]) + 1 /\ Len(f[n - 1]) \in Nat
      BY <2>2, <3>1
    <3>4. seqs[n] # <<>> /\ seqs[n][1] = e
      BY <2>6
    <3>5. CASE e \in P
      <4>1. Found(n) = Found(n - 1) \cup {n}
        BY <2>4, <3>4, <3>5
      <4> HIDE DEF Found
      <4>2. Cardinality(Found(n)) = Cardinality(Found(n - 1)) + 1
        BY <2>3, <4>1, FS_AddElement
      <4>3. Counted(n)
        BY <2>1, <2>3, <3>2, <3>3, <3>5, <4>2
      <4> QED
        BY <2>1, <4>3
    <3>6. CASE e \notin P
      <4>1. Found(n) = Found(n - 1)
        BY <2>4, <3>4, <3>6
      <4> HIDE DEF Found
      <4>3. Counted(n)
        BY <2>1, <2>3, <3>2, <3>3, <3>6, <4>1
      <4> QED
        BY <2>1, <4>3
    <3> QED
      BY <3>5, <3>6
  <2> QED
    BY <2>5, <2>6 DEF Pieces
<1> HIDE DEF T
<1>5. \A n \in 0..Len(seqs) : n \in T
  BY <1>2, <1>3, <1>4, UpTo
<1>6. Len(seqs) \in T
  BY <1>2, <1>5
<1> QED
  BY <1>1, <1>6 DEF T

-----------------------------------------------------------------------------
(* Kgraph: the items of a store.                                           *)

\* What the store is a sequence of.
Items == [what : Things, reading : 1..MaxFacts]

-----------------------------------------------------------------------------
(* What a filter keeps.                                                    *)

\* The items kept, in number no more than there were, and of each kind as
\* many as there were among those to keep.
LEMMA ThoseAre ==
  ASSUME store \in Seq(Items), NEW keep
  PROVE /\ Those(keep) \in Seq(Items) /\ Len(Those(keep)) <= Len(store)
        /\ \A x : x \in ToSet(Those(keep)) <=> \E k \in DOMAIN store : k \in keep /\ x = store[k]
        /\ \A P : CountIn(Those(keep), P) = Cardinality({k \in DOMAIN store : k \in keep /\ store[k] \in P})
<1> DEFINE seqs == [k \in DOMAIN store |-> IF k \in keep THEN <<store[k]>> ELSE <<>>]
<1>1. Len(store) \in Nat /\ DOMAIN store = 1..Len(store) /\ \A k \in DOMAIN store : store[k] \in Items
  OBVIOUS
<1>2. seqs \in Seq(Seq(Items)) /\ Len(seqs) = Len(store) /\ DOMAIN seqs = 1..Len(store)
  <2>1. \A k \in 1..Len(store) : seqs[k] \in Seq(Items)
    BY <1>1
  <2>2. seqs \in [1..Len(store) -> Seq(Items)]
    BY <1>1, <2>1
  <2> HIDE DEF seqs
  <2> QED
    BY <1>1, <2>2, IsASeq, LenProperties
<1>3. \A k \in 1..Len(store) : seqs[k] = IF k \in keep THEN <<store[k]>> ELSE <<>>
  BY <1>1
<1>4. Those(keep) = FlattenSeq(seqs)
  BY DEF Those
<1> HIDE DEF seqs
<1>5. Pieces(seqs, Items)
  BY <1>1, <1>2, <1>3 DEF Pieces
<1>6. Those(keep) \in Seq(Items) /\ Gathers(Those(keep), seqs, Len(seqs)) /\ Len(Those(keep)) <= Len(store)
  BY <1>2, <1>4, <1>5, FlattenGathers, FlattenCounts
<1>7. ASSUME NEW k \in 1..Len(store) PROVE \A x : x \in ToSet(seqs[k]) <=> k \in keep /\ x = store[k]
  <2>1. ToSet(<<store[k]>>) = {store[k]} /\ ToSet(<<>>) = {}
    BY DEF ToSet
  <2> QED
    BY <1>3, <2>1
<1>8. \A x : x \in ToSet(Those(keep)) <=> \E k \in DOMAIN store : k \in keep /\ x = store[k]
  BY <1>1, <1>2, <1>6, <1>7 DEF Gathers
<1>9. ASSUME NEW P
      PROVE CountIn(Those(keep), P) = Cardinality({k \in DOMAIN store : k \in keep /\ store[k] \in P})
  <2>1. {k \in 1..Len(seqs) : seqs[k] # <<>> /\ seqs[k][1] \in P} = {k \in DOMAIN store : k \in keep /\ store[k] \in P}
    BY <1>1, <1>2, <1>3
  <2> QED
    BY <1>4, <1>5, <2>1, FlattenCounts
<1> QED
  BY <1>6, <1>8, <1>9

\* A store with room has a number for the next reading.
LEMMA ReadingIs == ASSUME store \in Seq(Items), Len(store) < MaxFacts PROVE Reading \in 1..MaxFacts
<1> DEFINE f == [k \in DOMAIN store |-> store[k].reading]
           read == {store[k].reading : k \in DOMAIN store}
<1>1. MaxFacts \in Nat /\ Len(store) \in Nat /\ DOMAIN store = 1..Len(store)
  BY KgraphAssumption
<1>2. IsFiniteSet(read) /\ Cardinality(read) <= Len(store)
  <2>1. f \in Surjection(DOMAIN store, read)
    BY DEF Surjection
  <2>2. IsFiniteSet(DOMAIN store) /\ Cardinality(DOMAIN store) = Len(store)
    <3>1. PICK n \in Nat : n = Len(store) /\ DOMAIN store = 1..n
      BY <1>1
    <3>2. IsFiniteSet(1..n) /\ Cardinality(1..n) = n
      BY FS_Interval
    <3> QED
      BY <3>1, <3>2
  <2> HIDE DEF f, read
  <2> QED
    BY <2>1, <2>2, FS_Surjection
<1>3. ~ (1..MaxFacts \subseteq read)
  <2> SUFFICES ASSUME 1..MaxFacts \subseteq read PROVE FALSE
    OBVIOUS
  <2> HIDE DEF read
  <2>1. Cardinality(1..MaxFacts) = MaxFacts
    BY <1>1, FS_Interval
  <2>2. Cardinality(1..MaxFacts) <= Cardinality(read) /\ Cardinality(read) \in Nat
    BY <1>2, FS_Subset, FS_CardinalityType
  <2> QED
    BY <1>1, <1>2, <2>1, <2>2
<1>4. \E n \in 1..MaxFacts : \A k \in DOMAIN store : store[k].reading # n
  BY <1>3
<1> QED
  BY <1>4 DEF Reading

-----------------------------------------------------------------------------
(* Unification and joins.                                                  *)

\* What a query has and what its bindings are.
Clauses == (Terms \cup LogicVars) \X (Terms \cup LogicVars) \X (Terms \cup LogicVars)
Bindings == UNION {[D -> Values] : D \in SUBSET LogicVars}

\* A binding cut to fewer variables; what a unification has found; what it is
\* for a position of a clause to be met.
Cut(c, D) == [v \in D |-> c[v]]
FoundBy(u) == {u} \ {Null}
Meets(c, x, t) == (IF x \in LogicVars THEN c[x] ELSE Pattern(x)) = t
VarsOf(clause) == {clause[1], clause[2], clause[3]} \cap LogicVars
Fits(c, clause, item) == \A j \in 1..3 : Meets(c, clause[j], Term(item, j))

\* No binding is Null.
LEMMA NullIsNone == ASSUME NEW D \in SUBSET LogicVars PROVE Null \notin [D -> Values]
BY KgraphAssumption

\* A binding cut to its own variables is itself.
LEMMA CutAll == ASSUME NEW D, NEW c \in [D -> Values] PROVE Cut(c, D) = c
BY DEF Cut

\* Unification finds the one binding that extends what was found and meets the
\* term, if there is one.
BoundIn(u, D) == D \in SUBSET LogicVars /\ FoundBy(u) \subseteq [D -> Values]
Joinable(x, t) == x \in Terms \cup LogicVars /\ t \in Values
Extended(u, D, x, t) ==
  {c \in [D \cup ({x} \cap LogicVars) -> Values] : Cut(c, D) \in FoundBy(u) /\ Meets(c, x, t)}

\* Which is what unify returns, Null standing for none.
LEMMA UnifyIs ==
  ASSUME NEW D, NEW u, NEW x, NEW t, BoundIn(u, D), Joinable(x, t)
  PROVE FoundBy(Unify(u, x, t)) = Extended(u, D, x, t)
<1> USE DEF BoundIn, Joinable, Extended
<1> DEFINE E == D \cup ({x} \cap LogicVars)
           A == {c \in [E -> Values] : Cut(c, D) \in FoundBy(u) /\ Meets(c, x, t)}
<1>1. CASE u = Null
  <2>1. FoundBy(u) = {} /\ Unify(u, x, t) = Null
    BY <1>1 DEF FoundBy, Unify
  <2> QED
    BY <1>1, <2>1
<1>2. CASE u # Null
  <2>1. u \in [D -> Values] /\ FoundBy(u) = {u} /\ DOMAIN u = D
    BY <1>2 DEF FoundBy
  <2>2. E \in SUBSET LogicVars /\ Null \notin [E -> Values]
    BY NullIsNone
  <2>3. CASE x \in D
    <3>1. E = D /\ x \in LogicVars /\ A = {c \in {u} : c[x] = t}
      BY <2>1, <2>3, CutAll DEF Meets
    <3>2. CASE u[x] = t
      <4>1. Unify(u, x, t) = u
        <5>1. Unify(u, x, t) = [v \in D |-> u[v]]
          BY <1>2, <2>1, <2>3, <3>1, <3>2 DEF Unify, Agrees, EdnEqual
        <5> QED
          BY <2>1, <5>1
      <4> QED
        BY <2>1, <3>1, <3>2, <4>1
    <3>3. CASE u[x] # t
      <4>1. Unify(u, x, t) = Null
        BY <1>2, <2>1, <2>3, <3>3 DEF Unify, Agrees, EdnEqual
      <4> QED
        BY <3>1, <3>3, <4>1 DEF FoundBy
    <3> QED
      BY <3>2, <3>3
  <2>4. CASE x \in LogicVars \ D
    <3> DEFINE e == [v \in E |-> IF v \in D THEN u[v] ELSE t]
    <3>1. Unify(u, x, t) = e
      BY <1>2, <2>1, <2>4 DEF Unify, Agrees
    <3>2. E = D \cup {x} /\ e \in [E -> Values] /\ e[x] = t /\ Cut(e, D) = u
      BY <2>1, <2>4 DEF Cut
    <3>3. ASSUME NEW c \in [E -> Values], Cut(c, D) = u, c[x] = t PROVE c = e
      <4>1. \A v \in D : c[v] = u[v]
        BY <3>3 DEF Cut
      <4>2. \A v \in E : c[v] = e[v]
        BY <3>2, <3>3, <4>1
      <4> HIDE DEF e
      <4> QED
        BY <3>2, <4>2
    <3> HIDE DEF e
    <3>4. A = {e}
      BY <2>1, <2>4, <3>2, <3>3 DEF Meets
    <3>5. FoundBy(e) = {e}
      BY <2>2, <3>2 DEF FoundBy
    <3> QED
      BY <3>1, <3>4, <3>5
  <2>5. CASE x \notin LogicVars
    <3>1. E = D /\ A = {c \in {u} : Pattern(x) = t}
      BY <2>1, <2>5, CutAll DEF Meets
    <3>2. CASE Pattern(x) = t
      <4>1. Unify(u, x, t) = u
        <5>1. Unify(u, x, t) = [v \in D |-> u[v]]
          BY <1>2, <2>1, <2>5, <3>1, <3>2 DEF Unify, Agrees, EdnEqual
        <5> QED
          BY <2>1, <5>1
      <4> QED
        BY <2>1, <3>1, <3>2, <4>1
    <3>3. CASE Pattern(x) # t
      <4>1. Unify(u, x, t) = Null
        BY <1>2, <2>1, <2>5, <3>3 DEF Unify, Agrees, EdnEqual
      <4> QED
        BY <3>1, <3>3, <4>1 DEF FoundBy
    <3> QED
      BY <3>2, <3>3
  <2> QED
    BY <2>3, <2>4, <2>5
<1> QED
  BY <1>1, <1>2

\* What a datom has in a position is a value, and was a term.
LEMMA TermIs ==
  ASSUME NEW item \in Items, item.what \in Facts, NEW j \in 1..3
  PROVE Term(item, j) \in Values /\ item.what[j] \in Terms
<1>1. item.what[j] \in Terms /\ item.reading \in Nat
  BY KgraphAssumption DEF Items
<1> QED
  BY <1>1 DEF Term, Values

\* What is met stays met when a binding is cut to variables enough.
LEMMA CutMeets ==
  ASSUME NEW D, NEW c, NEW x, x \in LogicVars => x \in D, NEW t
  PROVE Meets(Cut(c, D), x, t) <=> Meets(c, x, t)
BY DEF Cut, Meets

\* Cutting twice is cutting once.
LEMMA CutCut == ASSUME NEW D, NEW E, D \subseteq E, NEW c PROVE Cut(Cut(c, E), D) = Cut(c, D)
BY DEF Cut

\* A cut binding is a binding.
LEMMA CutIs == ASSUME NEW D, NEW E, D \subseteq E, NEW c \in [E -> Values] PROVE Cut(c, D) \in [D -> Values]
BY DEF Cut

\* A binding is found for a datom that extends what is bound and fits.
Fitting(b, D, clause, item) ==
  {c \in [D \cup VarsOf(clause) -> Values] : Cut(c, D) = b /\ Fits(c, clause, item)}

\* The three unifications of matchClause find that binding, or none.
LEMMA UnifiedIs ==
  ASSUME NEW D \in SUBSET LogicVars, NEW b \in [D -> Values], NEW clause \in Clauses,
         NEW item \in Items, item.what \in Facts
  PROVE FoundBy(Unified(b, clause, item)) = Fitting(b, D, clause, item)
<1> DEFINE x(j) == clause[j]
           t(j) == Term(item, j)
           D1 == D \cup ({x(1)} \cap LogicVars)
           D2 == D1 \cup ({x(2)} \cap LogicVars)
           D3 == D2 \cup ({x(3)} \cap LogicVars)
           u1 == Unify(b, x(1), t(1))
           u2 == Unify(u1, x(2), t(2))
           u3 == Unify(u2, x(3), t(3))
<1>1. \A j \in 1..3 : x(j) \in Terms \cup LogicVars /\ t(j) \in Values
  BY TermIs DEF Clauses
<1>0. /\ x(1) \in Terms \cup LogicVars /\ t(1) \in Values
      /\ x(2) \in Terms \cup LogicVars /\ t(2) \in Values
      /\ x(3) \in Terms \cup LogicVars /\ t(3) \in Values
  <2> HIDE DEF x, t
  <2> QED
    BY <1>1
<1>2. FoundBy(b) = {b}
  BY NullIsNone DEF FoundBy
<1>3. D1 \in SUBSET LogicVars /\ D2 \in SUBSET LogicVars /\ D3 = D \cup VarsOf(clause)
  BY DEF VarsOf
<1>4. u3 = Unified(b, clause, item)
  BY DEF Unified
<1>5. Fits(b, clause, item) <=> Meets(b, x(1), t(1)) /\ Meets(b, x(2), t(2)) /\ Meets(b, x(3), t(3))
  BY DEF Fits
<1>6. \A c : Fits(c, clause, item) <=> Meets(c, x(1), t(1)) /\ Meets(c, x(2), t(2)) /\ Meets(c, x(3), t(3))
  BY DEF Fits
<1>7. /\ \A c : Meets(Cut(c, D1), x(1), t(1)) <=> Meets(c, x(1), t(1))
      /\ \A c : Meets(Cut(c, D2), x(1), t(1)) <=> Meets(c, x(1), t(1))
      /\ \A c : Meets(Cut(c, D2), x(2), t(2)) <=> Meets(c, x(2), t(2))
  <2>1. /\ x(1) \in LogicVars => x(1) \in D1 /\ x(1) \in D2
        /\ x(2) \in LogicVars => x(2) \in D2
    OBVIOUS
  <2> HIDE DEF x, t, D1, D2
  <2> QED
    BY <2>1, CutMeets
<1>8. /\ \A c : Cut(Cut(c, D2), D1) = Cut(c, D1) /\ Cut(Cut(c, D1), D) = Cut(c, D)
      /\ \A c \in [D3 -> Values] : Cut(c, D2) \in [D2 -> Values] /\ Cut(c, D1) \in [D1 -> Values]
  <2>1. D \subseteq D1 /\ D1 \subseteq D2 /\ D2 \subseteq D3 /\ D1 \subseteq D3
    OBVIOUS
  <2> HIDE DEF D1, D2, D3
  <2> QED
    BY <2>1, CutCut, CutIs
<1>9. FoundBy(u1) = {c \in [D1 -> Values] : Cut(c, D) \in {b} /\ Meets(c, x(1), t(1))}
  <2>1. BoundIn(b, D) /\ Joinable(x(1), t(1))
    BY <1>0, <1>2 DEF BoundIn, Joinable
  <2>2. FoundBy(u1) = Extended(b, D, x(1), t(1))
    BY <2>1, UnifyIs
  <2> QED
    BY <1>2, <2>2 DEF Extended
<1>10. FoundBy(u2) = {c \in [D2 -> Values] : Cut(c, D1) \in FoundBy(u1) /\ Meets(c, x(2), t(2))}
  <2> HIDE DEF u1, D1
  <2>1. BoundIn(u1, D1) /\ Joinable(x(2), t(2))
    BY <1>0, <1>3, <1>9 DEF BoundIn, Joinable
  <2>2. FoundBy(u2) = Extended(u1, D1, x(2), t(2))
    BY <2>1, UnifyIs
  <2> QED
    BY <2>2 DEF Extended
<1>11. FoundBy(u3) = {c \in [D3 -> Values] : Cut(c, D2) \in FoundBy(u2) /\ Meets(c, x(3), t(3))}
  <2> HIDE DEF u2, D2
  <2>1. BoundIn(u2, D2) /\ Joinable(x(3), t(3))
    BY <1>0, <1>3, <1>10 DEF BoundIn, Joinable
  <2>2. FoundBy(u3) = Extended(u2, D2, x(3), t(3))
    BY <2>1, UnifyIs
  <2> QED
    BY <2>2 DEF Extended
<1> HIDE DEF x, t, D1, D2, D3, u1, u2, u3
<1>12. ASSUME NEW c \in [D3 -> Values]
       PROVE Cut(c, D2) \in FoundBy(u2) <=> Cut(c, D) = b /\ Meets(c, x(1), t(1)) /\ Meets(c, x(2), t(2))
  <2>1. Cut(c, D2) \in FoundBy(u2) <=> Cut(c, D1) \in FoundBy(u1) /\ Meets(c, x(2), t(2))
    BY <1>7, <1>8, <1>10
  <2>2. Cut(c, D1) \in FoundBy(u1) <=> Cut(c, D) = b /\ Meets(c, x(1), t(1))
    BY <1>7, <1>8, <1>9
  <2> QED
    BY <2>1, <2>2
<1> QED
  BY <1>3, <1>4, <1>6, <1>11, <1>12 DEF Fitting

\* What a clause makes of a set of bindings.
StoreOfFacts == store \in Seq(Items) /\ Iterable
Joined(S, D, clause) ==
  {c \in [D \cup VarsOf(clause) -> Values] :
     Cut(c, D) \in S /\ \E k \in DOMAIN store : Fits(c, clause, store[k])}

\* A function on 1..n is a sequence.
LEMMA MadeSeq ==
  ASSUME NEW n \in Nat, NEW S, NEW s, DOMAIN s = 1..n, s = [k \in 1..n |-> s[k]], \A k \in 1..n : s[k] \in S
  PROVE s \in Seq(S) /\ Len(s) = n
<1>1. s \in [1..n -> S]
  OBVIOUS
<1> QED
  BY <1>1, IsASeq, LenProperties

\* matchClause finds the bindings that extend the one it is given.
LEMMA MatchClauseIs ==
  ASSUME StoreOfFacts, NEW D \in SUBSET LogicVars, NEW b \in [D -> Values], NEW clause \in Clauses
  PROVE /\ MatchClause(b, clause) \in Seq([D \cup VarsOf(clause) -> Values])
        /\ ToSet(MatchClause(b, clause)) = Joined({b}, D, clause)
<1> DEFINE E == D \cup VarsOf(clause)
           B == [E -> Values]
           u == [k \in DOMAIN store |-> Unified(b, clause, store[k])]
           seqs == [k \in DOMAIN store |-> IF u[k] = Null THEN <<>> ELSE <<u[k]>>]
           N == Len(store)
<1>1. /\ N \in Nat /\ DOMAIN store = 1..N
      /\ \A k \in 1..N : store[k] \in Items /\ store[k].what \in Facts
  BY DEF StoreOfFacts, Iterable
<1>2. MatchClause(b, clause) = FlattenSeq(seqs)
  BY DEF MatchClause
<1>3. ASSUME NEW k \in 1..N
      PROVE FoundBy(u[k]) = Fitting(b, D, clause, store[k])
  <2>1. u[k] = Unified(b, clause, store[k])
    BY <1>1
  <2> HIDE DEF u
  <2>2. store[k] \in Items /\ store[k].what \in Facts
    BY <1>1
  <2>3. FoundBy(Unified(b, clause, store[k])) = Fitting(b, D, clause, store[k])
    BY <2>2, UnifiedIs
  <2> QED
    BY <2>1, <2>3
<1>4. \A k \in 1..N : seqs[k] = IF u[k] = Null THEN <<>> ELSE <<u[k]>>
  BY <1>1
<1>5. DOMAIN seqs = 1..N /\ seqs = [k \in 1..N |-> seqs[k]]
  BY <1>1
<1> HIDE DEF seqs, u, B, N
<1>6. ASSUME NEW k \in 1..N PROVE seqs[k] \in Seq(B) /\ ToSet(seqs[k]) = FoundBy(u[k])
  <2>1. CASE u[k] = Null
    <3>1. seqs[k] = <<>>
      BY <1>4, <2>1
    <3>2. ToSet(<<>>) = {}
      BY DEF ToSet
    <3>3. FoundBy(u[k]) = {}
      BY <2>1 DEF FoundBy
    <3> QED
      BY <3>1, <3>2, <3>3
  <2>2. CASE u[k] # Null
    <3>1. u[k] \in B
      BY <1>3, <2>2 DEF FoundBy, Fitting, B
    <3>2. seqs[k] = <<u[k]>>
      BY <1>4, <2>2
    <3>3. ToSet(<<u[k]>>) = {u[k]}
      BY DEF ToSet
    <3> QED
      BY <2>2, <3>1, <3>2, <3>3 DEF FoundBy
  <2> QED
    BY <2>1, <2>2
<1>7. seqs \in Seq(Seq(B)) /\ Len(seqs) = N
  BY <1>1, <1>5, <1>6, MadeSeq
<1>8. FlattenSeq(seqs) \in Seq(B) /\ Gathers(FlattenSeq(seqs), seqs, N)
  BY <1>7, FlattenGathers
<1>9. \A c : c \in ToSet(FlattenSeq(seqs)) <=> c \in B /\ Cut(c, D) = b /\ \E k \in 1..N : Fits(c, clause, store[k])
  <2>1. ASSUME NEW c, NEW k \in 1..N
        PROVE c \in ToSet(seqs[k]) <=> c \in B /\ Cut(c, D) = b /\ Fits(c, clause, store[k])
    <3>1. c \in ToSet(seqs[k]) <=> c \in Fitting(b, D, clause, store[k])
      BY <1>3, <1>6
    <3>2. c \in Fitting(b, D, clause, store[k]) <=> c \in B /\ Cut(c, D) = b /\ Fits(c, clause, store[k])
      BY DEF Fitting, B
    <3> QED
      BY <3>1, <3>2
  <2>2. \A c : c \in ToSet(FlattenSeq(seqs)) <=> \E k \in 1..N : c \in ToSet(seqs[k])
    BY <1>8 DEF Gathers
  <2> QED
    BY <2>1, <2>2
<1> QED
  BY <1>1, <1>2, <1>8, <1>9 DEF Joined, B

\* One round of the loop in query joins one clause.
LEMMA JoinClauseIs ==
  ASSUME StoreOfFacts, NEW D \in SUBSET LogicVars, NEW bs, bs \in Seq([D -> Values]), NEW clause \in Clauses
  PROVE /\ JoinClause(bs, clause) \in Seq([D \cup VarsOf(clause) -> Values])
        /\ ToSet(JoinClause(bs, clause)) = Joined(ToSet(bs), D, clause)
<1> DEFINE B == [D \cup VarsOf(clause) -> Values]
           seqs == [k \in DOMAIN bs |-> MatchClause(bs[k], clause)]
           N == Len(bs)
<1>1. N \in Nat /\ DOMAIN bs = 1..N /\ \A k \in 1..N : bs[k] \in [D -> Values]
  OBVIOUS
<1>2. JoinClause(bs, clause) = FlattenSeq(seqs)
  BY DEF JoinClause
<1>3. DOMAIN seqs = 1..N /\ seqs = [k \in 1..N |-> seqs[k]] /\ \A k \in 1..N : seqs[k] = MatchClause(bs[k], clause)
  BY <1>1
<1> HIDE DEF seqs, N
<1>4. ASSUME NEW k \in 1..N PROVE seqs[k] \in Seq(B) /\ ToSet(seqs[k]) = Joined({bs[k]}, D, clause)
  BY <1>1, <1>3, MatchClauseIs
<1> HIDE DEF B
<1>5. seqs \in Seq(Seq(B)) /\ Len(seqs) = N
  BY <1>1, <1>3, <1>4, MadeSeq
<1>6. FlattenSeq(seqs) \in Seq(B) /\ Gathers(FlattenSeq(seqs), seqs, N)
  BY <1>5, FlattenGathers
<1>7. \A c : c \in ToSet(FlattenSeq(seqs)) <=> \E k \in 1..N : c \in Joined({bs[k]}, D, clause)
  BY <1>4, <1>6 DEF Gathers
<1>8. \A c : c \in Joined(ToSet(bs), D, clause) <=> \E k \in 1..N : c \in Joined({bs[k]}, D, clause)
  BY <1>1 DEF Joined, ToSet
<1> QED
  BY <1>2, <1>6, <1>7, <1>8 DEF B

\* The variables of the first n clauses, and the bindings under which each of
\* these clauses fits something in the store.
VarsUpTo(where, n) == UNION {VarsOf(where[i]) : i \in 1..n}
Solutions(where, n) ==
  {c \in [VarsUpTo(where, n) -> Values] : \A i \in 1..n : \E k \in DOMAIN store : Fits(c, where[i], store[k])}

\* The solutions of n clauses are those of n - 1 joined with the n-th.
LEMMA OneClause ==
  ASSUME NEW where \in Seq(Clauses), NEW n \in 1..Len(where)
  PROVE /\ VarsUpTo(where, n) = VarsUpTo(where, n - 1) \cup VarsOf(where[n])
        /\ VarsUpTo(where, n) \in SUBSET LogicVars
        /\ Joined(Solutions(where, n - 1), VarsUpTo(where, n - 1), where[n]) = Solutions(where, n)
<1> DEFINE D == VarsUpTo(where, n - 1)
           E == VarsUpTo(where, n)
<1>1. \A i \in 1..n : i \in 1..(n - 1) \/ i = n
  OBVIOUS
<1>2. n \in 1..n /\ \A i \in 1..(n - 1) : i \in 1..n
  OBVIOUS
<1>3. E = D \cup VarsOf(where[n])
  BY <1>1, <1>2 DEF VarsUpTo
<1>4. E \in SUBSET LogicVars
  BY DEF VarsUpTo, VarsOf
<1>5. ASSUME NEW c \in [E -> Values]
      PROVE c \in Joined(Solutions(where, n - 1), D, where[n]) <=> c \in Solutions(where, n)
  <2>1. Cut(c, D) \in [D -> Values]
    BY <1>3, CutIs
  <2>2. ASSUME NEW i \in 1..(n - 1), NEW k \in DOMAIN store
        PROVE Fits(Cut(c, D), where[i], store[k]) <=> Fits(c, where[i], store[k])
    <3>1. VarsOf(where[i]) \subseteq D
      BY DEF VarsUpTo
    <3>2. \A j \in 1..3 : where[i][j] \in LogicVars => where[i][j] \in D
      BY <3>1 DEF VarsOf
    <3>3. \A j \in 1..3 : Meets(Cut(c, D), where[i][j], Term(store[k], j)) <=> Meets(c, where[i][j], Term(store[k], j))
      <4> HIDE DEF D
      <4> QED
        BY <3>2, CutMeets
    <3> QED
      BY <3>3 DEF Fits
  <2>3. Cut(c, D) \in Solutions(where, n - 1) <=>
          \A i \in 1..(n - 1) : \E k \in DOMAIN store : Fits(c, where[i], store[k])
    BY <2>1, <2>2 DEF Solutions
  <2>4. c \in Joined(Solutions(where, n - 1), D, where[n]) <=>
          Cut(c, D) \in Solutions(where, n - 1) /\ \E k \in DOMAIN store : Fits(c, where[n], store[k])
    BY <1>3 DEF Joined
  <2>5. c \in Solutions(where, n) <=> \A i \in 1..n : \E k \in DOMAIN store : Fits(c, where[i], store[k])
    BY DEF Solutions
  <2> HIDE DEF D, E
  <2> QED
    BY <1>1, <1>2, <2>3, <2>4, <2>5
<1>6. Joined(Solutions(where, n - 1), D, where[n]) \subseteq [E -> Values] /\ Solutions(where, n) \subseteq [E -> Values]
  BY <1>3 DEF Joined, Solutions
<1> QED
  BY <1>3, <1>4, <1>5, <1>6

\* Two functions with the same first value and the same steps end alike.
LEMMA SameEnd ==
  ASSUME NEW N \in Nat, NEW f, NEW g, f[0] = g[0], \A n \in 1..N : f[n - 1] = g[n - 1] => f[n] = g[n]
  PROVE f[N] = g[N]
<1> DEFINE T == {n \in 0..N : f[n] = g[n]}
<1>1. 0 \in T
  OBVIOUS
<1>2. ASSUME NEW n \in 1..N, n - 1 \in T PROVE n \in T
  <2>1. n \in 0..N /\ f[n - 1] = g[n - 1]
    BY <1>2
  <2> QED
    BY <2>1
<1> HIDE DEF T
<1>3. \A n \in 0..N : n \in T
  BY <1>1, <1>2, UpTo
<1>4. N \in T
  BY <1>3
<1> QED
  BY <1>4 DEF T

\* The join finds the solutions of all clauses, and nothing else.
LEMMA JoinIs ==
  ASSUME store \in Seq(Items), NEW where, where \in Seq(Clauses), where # <<>> => Iterable
  PROVE /\ Join(where) \in Seq([VarsUpTo(where, Len(where)) -> Values])
        /\ ToSet(Join(where)) = Solutions(where, Len(where))
<1> DEFINE N == Len(where)
           base == <<[v \in {} |-> Null]>>
           S == Seq(Bindings)
           step == [p \in (1..N) \X S |->
                      IF JoinClause(p[2], where[p[1]]) \in S THEN JoinClause(p[2], where[p[1]]) ELSE base]
           B(n) == [VarsUpTo(where, n) -> Values]
           RightAt(n, s) == s \in Seq(B(n)) /\ ToSet(s) = Solutions(where, n)
<1>1. N \in Nat /\ \A n \in 1..N : where[n] \in Clauses
  OBVIOUS
<1>2. \A n \in 0..N : VarsUpTo(where, n) \in SUBSET LogicVars
  BY DEF VarsUpTo, VarsOf
<1>3. \A n \in 0..N : B(n) \subseteq Bindings
  <2> SUFFICES ASSUME NEW n \in 0..N PROVE B(n) \subseteq Bindings
    OBVIOUS
  <2>1. VarsUpTo(where, n) \in SUBSET LogicVars
    BY <1>2
  <2> QED
    BY <2>1 DEF Bindings
<1>4. RightAt(0, base) /\ base \in S
  <2> DEFINE e == [v \in {} |-> Null]
  <2>1. VarsUpTo(where, 0) = {}
    BY DEF VarsUpTo
  <2>2. B(0) = {e}
    BY <2>1
  <2> HIDE DEF e
  <2>3. base = <<e>>
    BY DEF e
  <2>4. Solutions(where, 0) = B(0)
    BY DEF Solutions
  <2>5. <<e>> \in Seq(B(0)) /\ ToSet(<<e>>) = {e}
    BY <2>2 DEF ToSet
  <2>6. RightAt(0, base)
    BY <2>2, <2>3, <2>4, <2>5
  <2>7. Seq(B(0)) \subseteq S
    <3>1. B(0) \subseteq Bindings
      BY <1>1, <1>3
    <3> HIDE DEF B
    <3> QED
      BY <3>1, SeqMonotonic
  <2> QED
    BY <2>6, <2>7
<1>5. PICK f : Recurs(f, base, step, N, S)
  <2>1. Steps(step, N, S)
    BY <1>4 DEF Steps
  <2> HIDE DEF base, step, S, N
  <2> QED
    BY <1>1, <1>4, <2>1, Recursion
<1>6. /\ f \in [0..N -> S] /\ f[0] = base
      /\ \A n \in 1..N : f[n] = IF JoinClause(f[n - 1], where[n]) \in S THEN JoinClause(f[n - 1], where[n]) ELSE base
  <2>1. f \in [0..N -> S] /\ f[0] = base /\ \A n \in 1..N : f[n] = step[<<n, f[n - 1]>>]
    <3> HIDE DEF base, step, S, N
    <3> QED
      BY <1>5 DEF Recurs
  <2>2. ASSUME NEW n \in 1..N
        PROVE f[n] = IF JoinClause(f[n - 1], where[n]) \in S THEN JoinClause(f[n - 1], where[n]) ELSE base
    <3> HIDE DEF base, S, N
    <3>1. f[n - 1] \in S /\ f[n] = step[<<n, f[n - 1]>>]
      <4> HIDE DEF step
      <4> QED
        BY <1>1, <2>1
    <3>2. \A s \in S : step[<<n, s>>] = IF JoinClause(s, where[n]) \in S THEN JoinClause(s, where[n]) ELSE base
      OBVIOUS
    <3> HIDE DEF step
    <3> QED
      BY <3>1, <3>2
  <2> HIDE DEF base, step, S, N
  <2> QED
    BY <2>1, <2>2
<1> HIDE DEF base, step, S, N
<1>7. ASSUME NEW n \in 1..N, RightAt(n - 1, f[n - 1])
      PROVE f[n] = JoinClause(f[n - 1], where[n]) /\ RightAt(n, f[n])
  <2> DEFINE D == VarsUpTo(where, n - 1)
  <2>1. StoreOfFacts
    BY <1>1 DEF StoreOfFacts, N
  <2>2. D \in SUBSET LogicVars /\ n - 1 \in 0..N /\ n \in 0..N
    BY <1>1, <1>2
  <2>3. /\ JoinClause(f[n - 1], where[n]) \in Seq([D \cup VarsOf(where[n]) -> Values])
        /\ ToSet(JoinClause(f[n - 1], where[n])) = Joined(ToSet(f[n - 1]), D, where[n])
    BY <1>1, <1>7, <2>1, <2>2, JoinClauseIs
  <2>4. RightAt(n, JoinClause(f[n - 1], where[n]))
    BY <1>7, <2>3, OneClause DEF N
  <2>5. Seq(B(n)) \subseteq S
    <3>1. B(n) \subseteq Bindings
      BY <1>3, <2>2
    <3> HIDE DEF B
    <3> QED
      BY <3>1, SeqMonotonic DEF S
  <2>6. f[n] = JoinClause(f[n - 1], where[n])
    <3> HIDE DEF B
    <3> QED
      BY <1>6, <2>4, <2>5
  <2> QED
    BY <2>4, <2>6
<1>8. \A n \in 0..N : RightAt(n, f[n])
  <2> DEFINE T == {n \in 0..N : RightAt(n, f[n])}
  <2>1. 0 \in T
    <3> HIDE DEF RightAt
    <3> QED
      BY <1>1, <1>4, <1>6
  <2>2. ASSUME NEW n \in 1..N, n - 1 \in T PROVE n \in T
    <3>1. RightAt(n - 1, f[n - 1]) /\ n \in 0..N
      BY <1>1, <2>2
    <3>2. RightAt(n, f[n])
      BY <1>7, <3>1
    <3> HIDE DEF RightAt
    <3> QED
      BY <3>1, <3>2
  <2> HIDE DEF T
  <2>3. \A n \in 0..N : n \in T
    BY <1>1, <2>1, <2>2, UpTo
  <2> HIDE DEF RightAt
  <2> QED
    BY <2>3 DEF T
<1>9. \A n \in 1..N : f[n] = JoinClause(f[n - 1], where[n])
  <2> SUFFICES ASSUME NEW n \in 1..N PROVE f[n] = JoinClause(f[n - 1], where[n])
    OBVIOUS
  <2>1. n - 1 \in 0..N
    BY <1>1
  <2> HIDE DEF RightAt
  <2> QED
    BY <1>7, <1>8, <2>1
<1>10. Join(where) = f[N]
  <2> DEFINE Is(g) == g = [n \in 0..N |-> IF n = 0 THEN base ELSE JoinClause(g[n - 1], where[n])]
             g == CHOOSE g : Is(g)
  <2>1. Is(f)
    <3>1. \A n \in 0..N : f[n] = IF n = 0 THEN base ELSE JoinClause(f[n - 1], where[n])
      BY <1>1, <1>6, <1>9
    <3> QED
      BY <1>6, <3>1
  <2>2. Is(g)
    BY <2>1
  <2>3. Join(where) = g[N]
    BY DEF Join, N, base
  <2> HIDE DEF g
  <2>4. g[0] = f[0] /\ \A n \in 1..N : g[n - 1] = f[n - 1] => g[n] = f[n]
    BY <1>1, <1>6, <1>9, <2>2
  <2>5. g[N] = f[N]
    BY <1>1, <2>4, SameEnd
  <2> QED
    BY <2>3, <2>5
<1>11. RightAt(N, f[N])
  BY <1>1, <1>8
<1> QED
  BY <1>10, <1>11 DEF N

-----------------------------------------------------------------------------
(* Rows.                                                                   *)

\* Each row once, and all of them.
LEMMA DistinctIs ==
  ASSUME NEW R, NEW rows, rows \in Seq(R)
  PROVE /\ Distinct(rows) \in Seq(R) /\ ToSet(Distinct(rows)) = ToSet(rows)
        /\ IsInjective(Distinct(rows))
<1> DEFINE N == Len(rows)
           S == Seq(R)
           Next1(s, n) == IF Contains(s, rows[n]) THEN s ELSE Append(s, rows[n])
           step == [p \in (1..N) \X S |-> Next1(p[2], p[1])]
           RightAt(n, s) == s \in S /\ ToSet(s) = {rows[k] : k \in 1..n} /\ IsInjective(s)
<1>1. N \in Nat /\ DOMAIN rows = 1..N /\ \A n \in 1..N : rows[n] \in R
  OBVIOUS
<1>2. ASSUME NEW n \in 1..N, NEW s \in S PROVE Next1(s, n) \in S
  BY <1>1
<1>3. PICK f : Recurs(f, <<>>, step, N, S)
  <2>1. Steps(step, N, S) /\ <<>> \in S
    <3> HIDE DEF Next1
    <3>1. step \in [(1..N) \X S -> S]
      BY <1>2
    <3> QED
      BY <3>1 DEF Steps
  <2> HIDE DEF step, S, N
  <2> QED
    BY <1>1, <2>1, Recursion
<1>4. f \in [0..N -> S] /\ f[0] = <<>> /\ \A n \in 1..N : f[n] = Next1(f[n - 1], n)
  <2>1. f \in [0..N -> S] /\ f[0] = <<>> /\ \A n \in 1..N : f[n] = step[<<n, f[n - 1]>>]
    <3> HIDE DEF step, S, N
    <3> QED
      BY <1>3 DEF Recurs
  <2>2. ASSUME NEW n \in 1..N PROVE f[n] = Next1(f[n - 1], n)
    <3> HIDE DEF Next1, S, N
    <3>1. f[n - 1] \in S /\ f[n] = step[<<n, f[n - 1]>>]
      <4> HIDE DEF step
      <4> QED
        BY <1>1, <2>1
    <3>2. \A s \in S : step[<<n, s>>] = Next1(s, n)
      OBVIOUS
    <3> HIDE DEF step
    <3> QED
      BY <3>1, <3>2
  <2> HIDE DEF step, S, N
  <2> QED
    BY <2>1, <2>2
<1> HIDE DEF step
<1>5. ASSUME NEW n \in 1..N, NEW s, RightAt(n - 1, s) PROVE RightAt(n, Next1(s, n))
  <2>1. 1..n = 1..(n - 1) \cup {n} /\ rows[n] \in R
    BY <1>1
  <2>2. s \in S /\ Len(s) \in Nat /\ DOMAIN s = 1..Len(s)
    BY <1>5
  <2>3. {rows[k] : k \in 1..n} = {rows[k] : k \in 1..(n - 1)} \cup {rows[n]}
    BY <2>1
  <2>4. CASE Contains(s, rows[n])
    <3>1. rows[n] \in ToSet(s)
      BY <2>2, <2>4 DEF Contains, ToSet
    <3>2. Next1(s, n) = s
      BY <2>4
    <3> HIDE DEF Next1
    <3> QED
      BY <1>5, <2>3, <3>1, <3>2
  <2>5. CASE ~ Contains(s, rows[n])
    <3> DEFINE t == Append(s, rows[n])
    <3>1. Next1(s, n) = t
      BY <2>5
    <3>2. /\ t \in S /\ DOMAIN t = 1..(Len(s) + 1)
          /\ \A k \in 1..Len(s) : t[k] = s[k]
          /\ t[Len(s) + 1] = rows[n]
      BY <2>1, <2>2
    <3>3. rows[n] \notin ToSet(s)
      BY <2>2, <2>5 DEF Contains, ToSet
    <3> HIDE DEF t, Next1
    <3>4. ToSet(t) = ToSet(s) \cup {rows[n]}
      BY <2>2, <3>2 DEF ToSet
    <3>5. IsInjective(t)
      <4>1. \A k \in 1..Len(s) : t[k] # t[Len(s) + 1]
        BY <2>2, <3>2, <3>3 DEF ToSet
      <4>2. \A k, m \in 1..Len(s) : t[k] = t[m] => k = m
        BY <1>5, <2>2, <3>2 DEF IsInjective
      <4>3. \A k \in DOMAIN t : k \in 1..Len(s) \/ k = Len(s) + 1
        BY <2>2, <3>2
      <4> QED
        BY <4>1, <4>2, <4>3 DEF IsInjective
    <3> QED
      BY <1>5, <2>3, <3>1, <3>2, <3>4, <3>5
  <2> QED
    BY <2>4, <2>5
<1>6. RightAt(0, <<>>)
  <2>1. ToSet(<<>>) = {} /\ IsInjective(<<>>)
    BY DEF ToSet, IsInjective
  <2>2. {rows[k] : k \in 1..0} = {} /\ <<>> \in S
    OBVIOUS
  <2> QED
    BY <2>1, <2>2
<1> HIDE DEF RightAt, S
<1>7. \A n \in 0..N : RightAt(n, f[n])
  <2> DEFINE T == {n \in 0..N : RightAt(n, f[n])}
  <2>1. 0 \in T
    BY <1>1, <1>4, <1>6
  <2>2. ASSUME NEW n \in 1..N, n - 1 \in T PROVE n \in T
    <3>1. RightAt(n - 1, f[n - 1]) /\ n \in 0..N
      BY <1>1, <2>2
    <3>2. RightAt(n, Next1(f[n - 1], n)) /\ f[n] = Next1(f[n - 1], n)
      BY <1>4, <1>5, <3>1
    <3> HIDE DEF Next1
    <3> QED
      BY <3>1, <3>2
  <2> HIDE DEF T
  <2>3. \A n \in 0..N : n \in T
    BY <1>1, <2>1, <2>2, UpTo
  <2> QED
    BY <2>3 DEF T
<1>8. Distinct(rows) = f[N]
  <2> DEFINE Is(g) == g = [n \in 0..N |-> IF n = 0 THEN <<>> ELSE Next1(g[n - 1], n)]
             g == CHOOSE g : Is(g)
  <2>1. Is(f)
    <3>1. \A n \in 0..N : f[n] = IF n = 0 THEN <<>> ELSE Next1(f[n - 1], n)
      <4> HIDE DEF Next1
      <4> QED
        BY <1>1, <1>4
    <3> HIDE DEF Next1
    <3> QED
      BY <1>4, <3>1
  <2>2. Is(g)
    <3> HIDE DEF Next1
    <3> QED
      BY <2>1
  <2>3. Distinct(rows) = g[N]
    BY DEF Distinct
  <2> HIDE DEF g, Next1
  <2>4. g[0] = f[0] /\ \A n \in 1..N : g[n - 1] = f[n - 1] => g[n] = f[n]
    BY <1>1, <1>4, <2>2
  <2> HIDE DEF N
  <2>5. g[N] = f[N]
    BY <1>1, <2>4, SameEnd
  <2> QED
    BY <2>3, <2>5
<1>9. RightAt(N, f[N])
  BY <1>1, <1>7
<1> QED
  BY <1>1, <1>8, <1>9 DEF RightAt, S, ToSet

-----------------------------------------------------------------------------
(* Answers.                                                                *)

\* What a query is; the row a binding makes; the variables of all clauses, and
\* the solutions; that these bind what the query finds.
Asks(q) == q.find \in Seq(LogicVars) /\ q.where \in Seq(Clauses)
Row(b, find) == [k \in DOMAIN find |-> Printed(b[find[k]])]
AllVars(q) == VarsUpTo(q.where, Len(q.where))
AllSolutions(q) == Solutions(q.where, Len(q.where))
Covers(q) == \A b \in AllSolutions(q) : \A k \in DOMAIN q.find : q.find[k] \in AllVars(q)

\* A query finds variables and has clauses.
LEMMA QueriesAsk == ASSUME NEW q \in Queries PROVE Asks(q)
BY KgraphAssumption DEF Asks, Clauses

\* What a value prints as is a term, and what was read prints as it was.
LEMMA PrintedIs ==
  /\ \A t \in Values : Printed(t) \in Terms
  /\ \A t \in Terms : Printed(t) = t /\ t \in Values
BY KgraphAssumption DEF Printed, Values

\* What was read of a datom prints as the datom has it.
LEMMA TermPrints ==
  ASSUME NEW item \in Items, item.what \in Facts, NEW j \in 1..3
  PROVE Printed(Term(item, j)) = item.what[j]
<1>1. item.what[j] \in Terms /\ item.reading \in Nat /\ j \in 0..3
  BY TermIs, KgraphAssumption DEF Items
<1>2. CASE item.what[j] \in Nested
  <2>1. Term(item, j) = <<item.what[j], item.reading, j>> /\ Term(item, j) \in Nested \X Nat \X (0..3)
    BY <1>1, <1>2 DEF Term
  <2>2. Term(item, j) \notin Terms
    BY <2>1, KgraphAssumption
  <2> QED
    BY <2>1, <2>2 DEF Printed
<1>3. CASE item.what[j] \notin Nested
  BY <1>1, <1>3 DEF Term, Printed
<1> QED
  BY <1>2, <1>3

\* A term of a clause that is met by a datom is what the datom has there.
LEMMA PatternPrints ==
  ASSUME NEW item \in Items, item.what \in Facts, NEW j \in 1..3, NEW x \in Terms, Pattern(x) = Term(item, j)
  PROVE x = item.what[j]
<1>1. item.what[j] \in Terms /\ item.reading \in Nat /\ item.reading # 0 /\ j \in 0..3
  BY TermIs, KgraphAssumption DEF Items
<1>2. CASE x \in Nested
  <2>1. Pattern(x) = <<x, 0, 0>> /\ Pattern(x) \in Nested \X Nat \X (0..3)
    BY <1>2 DEF Pattern
  <2>2. Pattern(x) \notin Terms
    BY <2>1, KgraphAssumption
  <2>3. Term(item, j) = <<item.what[j], item.reading, j>>
    BY <1>1, <2>2 DEF Term
  <2>4. <<x, 0, 0>> = <<item.what[j], item.reading, j>>
    BY <2>1, <2>3
  <2>5. item.reading = 0
    BY <2>4
  <2> QED
    BY <1>1, <2>5
<1>3. CASE x \notin Nested
  <2>1. Term(item, j) = x
    BY <1>3 DEF Pattern
  <2>2. item.what[j] \notin Nested
    <3> SUFFICES ASSUME item.what[j] \in Nested PROVE FALSE
      OBVIOUS
    <3>1. Term(item, j) \in Nested \X Nat \X (0..3)
      BY <1>1 DEF Term
    <3> QED
      BY <2>1, <3>1, KgraphAssumption
  <2> QED
    BY <2>1, <2>2 DEF Term
<1> QED
  BY <1>2, <1>3

\* A query that can be printed has the rows of the solutions, each once.
LEMMA RowsAre ==
  ASSUME store \in Seq(Items), NEW q, Asks(q), q.where # <<>> => Iterable, RowsPrint(Join(q.where), q.find)
  PROVE /\ Covers(q)
        /\ Rows(Join(q.where), q.find) \in Seq([DOMAIN q.find -> Terms])
        /\ IsInjective(Rows(Join(q.where), q.find))
        /\ ToSet(Rows(Join(q.where), q.find)) = {Row(b, q.find) : b \in AllSolutions(q)}
<1> DEFINE found == Join(q.where)
           R == [DOMAIN q.find -> Terms]
           rows == [n \in DOMAIN found |-> Row(found[n], q.find)]
           N == Len(found)
<1>1. found \in Seq([AllVars(q) -> Values]) /\ ToSet(found) = AllSolutions(q)
  <2>1. q.where \in Seq(Clauses)
    BY DEF Asks
  <2> QED
    BY <2>1, JoinIs DEF AllVars, AllSolutions
<1>2. RowsPrint(found, q.find)
  OBVIOUS
<1>3. Rows(found, q.find) = Distinct(rows)
  BY DEF Rows, Row
<1> HIDE DEF found
<1>4. N \in Nat /\ DOMAIN found = 1..N /\ \A n \in 1..N : found[n] \in [AllVars(q) -> Values] /\ found[n] \in ToSet(found)
  BY <1>1 DEF ToSet
<1>5. \A b \in ToSet(found) : b \in [AllVars(q) -> Values] /\ \A k \in DOMAIN q.find : q.find[k] \in AllVars(q)
  <2>1. \A b \in ToSet(found) : b \in [AllVars(q) -> Values]
    BY <1>4 DEF ToSet
  <2> QED
    BY <1>2, <2>1 DEF RowsPrint, RowPrints
<1>6. \A n \in 1..N : Row(found[n], q.find) \in R
  <2> SUFFICES ASSUME NEW n \in 1..N PROVE Row(found[n], q.find) \in R
    OBVIOUS
  <2>1. \A k \in DOMAIN q.find : Printed(found[n][q.find[k]]) \in Terms
    <3>1. found[n] \in ToSet(found)
      BY <1>4
    <3>2. \A k \in DOMAIN q.find : found[n][q.find[k]] \in Values
      BY <1>5, <3>1
    <3> QED
      BY <3>2, PrintedIs
  <2> QED
    BY <2>1 DEF Row
<1>7. DOMAIN rows = 1..N /\ rows = [n \in 1..N |-> rows[n]] /\ \A n \in 1..N : rows[n] = Row(found[n], q.find)
  BY <1>4
<1> HIDE DEF rows, N, R
<1>8. rows \in Seq(R)
  BY <1>4, <1>6, <1>7, MadeSeq
<1>9. Distinct(rows) \in Seq(R) /\ ToSet(Distinct(rows)) = ToSet(rows) /\ IsInjective(Distinct(rows))
  BY <1>8, DistinctIs
<1>10. ToSet(rows) = {Row(b, q.find) : b \in ToSet(found)}
  BY <1>4, <1>7 DEF ToSet
<1>11. Covers(q)
  BY <1>1, <1>5 DEF Covers
<1> QED
  BY <1>1, <1>3, <1>9, <1>10, <1>11 DEF found, R

\* Every row is right.
LEMMA RowsSound ==
  ASSUME store \in Seq(Items), NEW q, Asks(q), q.where # <<>> => Iterable, Covers(q),
         NEW b \in AllSolutions(q)
  PROVE Row(b, q.find) \in RightRows(q)
<1> DEFINE E == AllVars(q)
           N == Len(q.where)
           some == CHOOSE t : t \in Terms
           m == [v \in LogicVars |-> IF v \in E THEN Printed(b[v]) ELSE some]
<1>1. /\ N \in Nat /\ DOMAIN q.where = 1..N /\ \A i \in 1..N : q.where[i] \in Clauses
      /\ \A k \in DOMAIN q.find : q.find[k] \in LogicVars /\ q.find[k] \in E
  <2>1. q.where \in Seq(Clauses) /\ q.find \in Seq(LogicVars)
    BY DEF Asks
  <2>2. \A k \in DOMAIN q.find : q.find[k] \in LogicVars
    BY <2>1
  <2>3. \A k \in DOMAIN q.find : q.find[k] \in E
    BY DEF Covers
  <2>4. N \in Nat /\ DOMAIN q.where = 1..N /\ \A i \in 1..N : q.where[i] \in Clauses
    BY <2>1
  <2> QED
    BY <2>2, <2>3, <2>4
<1>2. b \in [E -> Values] /\ \A i \in 1..N : \E k \in DOMAIN store : Fits(b, q.where[i], store[k])
  BY DEF AllSolutions, Solutions, AllVars
<1>3. some \in Terms
  BY KgraphAssumption
<1>4. m \in [LogicVars -> Terms] /\ \A v \in E \cap LogicVars : m[v] = Printed(b[v])
  <2>1. \A v \in E : Printed(b[v]) \in Terms
    BY <1>2, PrintedIs
  <2> QED
    BY <1>3, <2>1
<1>5. \A i \in 1..N : VarsOf(q.where[i]) \subseteq E \cap LogicVars
  BY DEF AllVars, VarsUpTo, VarsOf
<1> HIDE DEF E, N, some, m
<1>6. ASSUME NEW i \in 1..N
      PROVE <<Holds(q.where[i][1], m), Holds(q.where[i][2], m), Holds(q.where[i][3], m)>> \in Stored
  <2>1. PICK k \in DOMAIN store : Fits(b, q.where[i], store[k])
    BY <1>2
  <2>2. store[k] \in Items /\ store[k].what \in Facts
    <3>1. q.where # <<>>
      BY <1>1
    <3> QED
      BY <3>1 DEF Iterable
  <2>3. ASSUME NEW j \in 1..3 PROVE Holds(q.where[i][j], m) = store[k].what[j]
    <3>1. Meets(b, q.where[i][j], Term(store[k], j)) /\ q.where[i][j] \in Terms \cup LogicVars
      BY <1>1, <2>1 DEF Fits, Clauses
    <3>2. CASE q.where[i][j] \in LogicVars
      <4>1. q.where[i][j] \in VarsOf(q.where[i])
        BY <3>2 DEF VarsOf
      <4>2. m[q.where[i][j]] = Printed(b[q.where[i][j]])
        BY <1>4, <1>5, <4>1
      <4>3. b[q.where[i][j]] = Term(store[k], j)
        BY <3>1, <3>2 DEF Meets
      <4> QED
        BY <2>2, <3>2, <4>2, <4>3, TermPrints DEF Holds
    <3>3. CASE q.where[i][j] \notin LogicVars
      <4>1. q.where[i][j] \in Terms /\ Pattern(q.where[i][j]) = Term(store[k], j)
        BY <3>1, <3>3 DEF Meets
      <4>2. q.where[i][j] = store[k].what[j]
        BY <2>2, <4>1, PatternPrints
      <4> QED
        BY <3>3, <4>2 DEF Holds
    <3> QED
      BY <3>2, <3>3
  <2>4. store[k].what \in Terms \X Terms \X Terms
    BY <2>2, KgraphAssumption
  <2>5. store[k].what = <<store[k].what[1], store[k].what[2], store[k].what[3]>>
    BY <2>4
  <2>6. store[k].what \in Stored
    BY DEF Stored
  <2> QED
    BY <2>3, <2>5, <2>6
<1>7. Row(b, q.find) = [k \in DOMAIN q.find |-> m[q.find[k]]]
  BY <1>1, <1>4 DEF Row
<1> QED
  BY <1>1, <1>4, <1>6, <1>7 DEF RightRows

\* No datom in the store has a vector or a map in it.
NothingNested == \A x \in Stored \cap Facts : \A k \in 1..3 : x[k] \notin Nested

\* Then every right row is found.
LEMMA RowsComplete ==
  ASSUME store \in Seq(Items), NEW q, Asks(q), q.where # <<>> => Iterable, Covers(q), NothingNested
  PROVE RightRows(q) \subseteq {Row(b, q.find) : b \in AllSolutions(q)}
<1> SUFFICES ASSUME NEW row \in RightRows(q) PROVE \E b \in AllSolutions(q) : row = Row(b, q.find)
  OBVIOUS
<1> DEFINE E == AllVars(q)
           N == Len(q.where)
<1>1. PICK m \in [LogicVars -> Terms] :
        /\ \A k \in DOMAIN q.where : <<Holds(q.where[k][1], m), Holds(q.where[k][2], m), Holds(q.where[k][3], m)>> \in Stored
        /\ row = [k \in DOMAIN q.find |-> m[q.find[k]]]
  BY DEF RightRows
<1> DEFINE c == [v \in E |-> m[v]]
<1>2. /\ N \in Nat /\ DOMAIN q.where = 1..N /\ \A i \in 1..N : q.where[i] \in Clauses
      /\ \A k \in DOMAIN q.find : q.find[k] \in LogicVars
  <2>1. q.where \in Seq(Clauses) /\ q.find \in Seq(LogicVars)
    BY DEF Asks
  <2> QED
    BY <2>1
<1>3. E \subseteq LogicVars /\ \A i \in 1..N : VarsOf(q.where[i]) \subseteq E
  BY DEF AllVars, VarsUpTo, VarsOf
<1>4. c \in [E -> Values] /\ \A v \in E : c[v] = m[v] /\ m[v] \in Terms
  <2>1. \A v \in E : m[v] \in Terms
    BY <1>3
  <2> HIDE DEF E
  <2> QED
    BY <2>1, PrintedIs
<1>5. c \in Solutions(q.where, N)
  <2> HIDE DEF c
  <2>1. ASSUME NEW i \in 1..N PROVE \E k \in DOMAIN store : Fits(c, q.where[i], store[k])
    <3>1. PICK k \in DOMAIN store :
            store[k].what = <<Holds(q.where[i][1], m), Holds(q.where[i][2], m), Holds(q.where[i][3], m)>>
      BY <1>1, <1>2 DEF Stored
    <3>2. store[k] \in Items /\ store[k].what \in Facts
      <4>1. q.where # <<>>
        BY <1>2
      <4> QED
        BY <4>1 DEF Iterable
    <3>3. ASSUME NEW j \in 1..3 PROVE Meets(c, q.where[i][j], Term(store[k], j))
      <4>1. store[k].what[j] = Holds(q.where[i][j], m)
        BY <3>1
      <4>2. store[k].what[j] \notin Nested
        <5>1. store[k].what \in Stored
          BY DEF Stored
        <5> QED
          BY <3>2, <5>1 DEF NothingNested
      <4>3. Term(store[k], j) = Holds(q.where[i][j], m)
        BY <4>1, <4>2 DEF Term
      <4>4. CASE q.where[i][j] \in LogicVars
        <5>1. q.where[i][j] \in E
          BY <1>3, <4>4 DEF VarsOf
        <5>2. c[q.where[i][j]] = m[q.where[i][j]]
          BY <1>4, <5>1
        <5> QED
          BY <4>3, <4>4, <5>2 DEF Meets, Holds
      <4>5. CASE q.where[i][j] \notin LogicVars
        BY <4>1, <4>2, <4>3, <4>5 DEF Meets, Holds, Pattern
      <4> QED
        BY <4>4, <4>5
    <3> QED
      BY <3>3 DEF Fits
  <2>2. c \in [VarsUpTo(q.where, N) -> Values]
    BY <1>4 DEF AllVars
  <2> HIDE DEF N
  <2> QED
    BY <2>1, <2>2 DEF Solutions
<1>6. c \in AllSolutions(q)
  BY <1>5 DEF AllSolutions
<1>7. \A k \in DOMAIN q.find : q.find[k] \in E
  BY <1>6 DEF Covers
<1>8. row = Row(c, q.find)
  <2> HIDE DEF E, c
  <2>1. \A k \in DOMAIN q.find : Printed(c[q.find[k]]) = m[q.find[k]]
    BY <1>4, <1>7, PrintedIs
  <2> QED
    BY <1>1, <2>1 DEF Row
<1> QED
  BY <1>6, <1>8

-----------------------------------------------------------------------------
(* The store.                                                              *)

\* The questions of a guest that has trapped are gone, which is why the page
\* can run another guest and what was answered stays right.
KgraphInv ==
  /\ KgraphTypeOK
  /\ FactsStand
  /\ AnswersRight
  /\ ~running => asked = Null

\* The items of a kind, and how many of them a sequence has.
OfKind(x) == {item \in Items : item.what = x}
Number(s, x) == Cardinality({k \in DOMAIN s : s[k].what = x})

\* The number of a kind, as a count of a sequence.
LEMMA NumberIs == ASSUME NEW s \in Seq(Items), NEW x PROVE Number(s, x) = CountIn(s, OfKind(x))
<1>1. \A k \in DOMAIN s : s[k] \in Items
  OBVIOUS
<1>2. {k \in DOMAIN s : s[k].what = x} = {k \in DOMAIN s : s[k] \in OfKind(x)}
  BY <1>1 DEF OfKind
<1> QED
  BY <1>2 DEF Number, CountIn

\* An assert adds one of its kind.
LEMMA NumberAppend ==
  ASSUME NEW s \in Seq(Items), NEW item \in Items, NEW x
  PROVE Number(Append(s, item), x) = Number(s, x) + (IF item.what = x THEN 1 ELSE 0) /\ Number(s, x) \in Nat
<1>1. Append(s, item) \in Seq(Items)
  OBVIOUS
<1>2. item \in OfKind(x) <=> item.what = x
  BY DEF OfKind
<1>3. /\ CountIn(Append(s, item), OfKind(x)) = CountIn(s, OfKind(x)) + (IF item \in OfKind(x) THEN 1 ELSE 0)
      /\ CountIn(s, OfKind(x)) \in Nat
  BY CountAppend
<1> QED
  BY <1>1, <1>2, <1>3, NumberIs

\* A retract leaves none of its kind and all of every other.
LEMMA KeptIs ==
  ASSUME store \in Seq(Items), NEW x
  PROVE /\ Kept(x) \in Seq(Items) /\ Len(Kept(x)) <= Len(store)
        /\ \A y : Number(Kept(x), y) = IF y = x THEN 0 ELSE Number(store, y)
<1> DEFINE keep == {k \in DOMAIN store : store[k].what # x}
<1>1. /\ Kept(x) \in Seq(Items) /\ Len(Kept(x)) <= Len(store)
      /\ \A P : CountIn(Kept(x), P) = Cardinality({k \in DOMAIN store : k \in keep /\ store[k] \in P})
  BY ThoseAre DEF Kept
<1>2. ASSUME NEW y PROVE Number(Kept(x), y) = IF y = x THEN 0 ELSE Number(store, y)
  <2>1. Number(Kept(x), y) = Cardinality({k \in DOMAIN store : k \in keep /\ store[k] \in OfKind(y)})
    BY <1>1, NumberIs
  <2>2. \A k \in DOMAIN store : store[k] \in Items
    OBVIOUS
  <2>3. CASE y = x
    <3>1. {k \in DOMAIN store : k \in keep /\ store[k] \in OfKind(y)} = {}
      BY <2>3 DEF OfKind
    <3> QED
      BY <2>1, <2>3, <3>1, FS_EmptySet
  <2>4. CASE y # x
    <3>1. {k \in DOMAIN store : k \in keep /\ store[k] \in OfKind(y)} = {k \in DOMAIN store : store[k].what = y}
      BY <2>2, <2>4 DEF OfKind
    <3> QED
      BY <2>1, <2>4, <3>1 DEF Number
  <2> QED
    BY <2>3, <2>4
<1> QED
  BY <1>1, <1>2

\* What FactsStand says, in these numbers.
LEMMA FactsAre == FactsStand <=> (~lost => \A x \in Things : Number(store, x) = since[x])
BY DEF FactsStand, Number

\* An empty store is right.
LEMMA KgraphStarts == KgraphInit => KgraphInv
<1> SUFFICES ASSUME KgraphInit PROVE KgraphInv
  OBVIOUS
<1>1. MaxFacts \in Nat
  BY KgraphAssumption
<1>2. KgraphTypeOK
  <2>1. store = <<>> /\ <<>> \in Seq(Items) /\ Len(<<>>) = 0
    BY DEF KgraphInit
  <2>2. store \in Seq(Items) /\ Len(store) <= MaxFacts
    BY <1>1, <2>1
  <2>3. since \in [Things -> Nat]
    BY DEF KgraphInit
  <2> QED
    BY <2>2, <2>3 DEF KgraphInit, KgraphTypeOK, Items
<1>3. FactsStand
  <2>1. ASSUME NEW x PROVE Number(store, x) = 0
    <3>1. {k \in DOMAIN store : store[k].what = x} = {}
      BY DEF KgraphInit
    <3> QED
      BY <3>1, FS_EmptySet DEF Number
  <2> QED
    BY <2>1, FactsAre DEF KgraphInit
<1> QED
  BY <1>2, <1>3 DEF KgraphInit, KgraphInv, AnswersRight

\* A step after which there is no answer.
LEMMA Forgotten == ASSUME Forget PROVE AnswersRight' /\ (~running => asked = Null)' /\ (asked' = Null /\ answer' = Null)
BY DEF Forget, AnswersRight

\* An assert adds one fact and forgets the answer.
LEMMA AssertKeeps ==
  ASSUME KgraphInv, NEW x \in Things, AssertDatom(x)
  PROVE KgraphInv'
<1> DEFINE item == [what |-> x, reading |-> Reading]
<1>1. store \in Seq(Items) /\ Len(store) < MaxFacts /\ store' = Append(store, item) /\ Forget
  BY DEF KgraphInv, KgraphTypeOK, AssertDatom, Items
<1>2. item \in Items
  BY <1>1, ReadingIs DEF Items
<1> HIDE DEF item
<1>3. store' \in Seq(Items) /\ Len(store') <= MaxFacts
  <2>1. Len(store) \in Nat /\ MaxFacts \in Nat
    BY <1>1, KgraphAssumption
  <2> QED
    BY <1>1, <1>2, <2>1
<1>4. since' = [since EXCEPT ![x] = @ + 1] /\ since \in [Things -> Nat] /\ UNCHANGED <<running, lost>>
  BY DEF KgraphInv, KgraphTypeOK, AssertDatom
<1>5. KgraphTypeOK'
  BY <1>3, <1>4, Forgotten, <1>1 DEF KgraphInv, KgraphTypeOK, Items
<1>6. FactsStand'
  <2>1. ASSUME ~lost', NEW y \in Things PROVE Number(store', y) = since'[y]
    <3>1. Number(store, y) = since[y] /\ since[y] \in Nat
      BY <1>4, <2>1, FactsAre DEF KgraphInv
    <3>2. Number(store', y) = Number(store, y) + (IF x = y THEN 1 ELSE 0)
      BY <1>1, <1>2, NumberAppend DEF item
    <3>3. since'[y] = since[y] + (IF x = y THEN 1 ELSE 0)
      BY <1>4, <3>1
    <3> QED
      BY <3>1, <3>2, <3>3
  <2> QED
    BY <2>1 DEF FactsStand, Number
<1> QED
  BY <1>1, <1>5, <1>6, Forgotten DEF KgraphInv

\* A retract that succeeds leaves every other fact.
LEMMA RetractKeeps ==
  ASSUME KgraphInv, NEW x \in Things, RetractDatom(x)
  PROVE KgraphInv'
<1>1. store \in Seq(Items) /\ Len(store) <= MaxFacts /\ store' = Kept(x) /\ Forget
  BY DEF KgraphInv, KgraphTypeOK, RetractDatom, Replaced, Items
<1>2. since' = [since EXCEPT ![x] = 0] /\ since \in [Things -> Nat] /\ UNCHANGED <<running, lost>>
  BY DEF KgraphInv, KgraphTypeOK, RetractDatom
<1>3. store' \in Seq(Items) /\ Len(store') <= MaxFacts
  <2>1. Kept(x) \in Seq(Items) /\ Len(Kept(x)) <= Len(store)
    BY <1>1, KeptIs
  <2>2. Len(store) \in Nat /\ MaxFacts \in Nat /\ Len(Kept(x)) \in Nat
    BY <1>1, <2>1, KgraphAssumption
  <2> QED
    BY <1>1, <2>1, <2>2
<1>4. KgraphTypeOK'
  BY <1>1, <1>2, <1>3, Forgotten DEF KgraphInv, KgraphTypeOK, Items
<1>5. FactsStand'
  <2>1. ASSUME ~lost', NEW y \in Things PROVE Number(store', y) = since'[y]
    <3>1. Number(store, y) = since[y]
      BY <1>2, <2>1, FactsAre DEF KgraphInv
    <3>2. Number(store', y) = IF y = x THEN 0 ELSE Number(store, y)
      BY <1>1, KeptIs
    <3> QED
      BY <1>2, <3>1, <3>2
  <2> QED
    BY <2>1 DEF FactsStand, Number
<1> QED
  BY <1>1, <1>4, <1>5, Forgotten DEF KgraphInv

\* The push that throws leaves an empty store and says so.
LEMMA RetractLosesKeeps ==
  ASSUME KgraphInv, NEW x \in Things, RetractLoses(x)
  PROVE KgraphInv'
<1>1. store' = <<>> /\ running' = FALSE /\ lost' = TRUE /\ since' = [y \in Things |-> 0] /\ Forget
  BY DEF RetractLoses
<1>2. KgraphTypeOK'
  <2>1. Len(<<>>) = 0 /\ MaxFacts \in Nat /\ <<>> \in Seq(Items)
    BY KgraphAssumption
  <2>2. store' \in Seq(Items) /\ Len(store') <= MaxFacts
    BY <1>1, <2>1
  <2>3. since' \in [Things -> Nat]
    BY <1>1
  <2> QED
    BY <1>1, <2>2, <2>3, Forgotten DEF KgraphTypeOK, Items
<1> QED
  BY <1>1, <1>2, Forgotten DEF KgraphInv, FactsStand

\* A call that throws leaves the store.
LEMMA TrapsKeep == ASSUME KgraphInv, Traps PROVE KgraphInv'
<1>1. Forget /\ UNCHANGED <<store, since, lost>> /\ running' = FALSE
  BY DEF Traps
<1>2. KgraphTypeOK' /\ FactsStand'
  BY <1>1, Forgotten DEF KgraphInv, KgraphTypeOK, FactsStand
<1> QED
  BY <1>1, <1>2, Forgotten DEF KgraphInv

\* The next guest finds no question asked.
LEMMA RunsKeeps == ASSUME KgraphInv, Runs PROVE KgraphInv'
<1>1. asked = Null /\ running' = TRUE /\ UNCHANGED <<store, asked, answer, buffer, since, lost>>
  BY DEF KgraphInv, Runs
<1> QED
  BY <1>1 DEF KgraphInv, KgraphTypeOK, FactsStand, AnswersRight

\* What an answer must be, of the rows there are, when the store stays.
Answered(question, rows) ==
  \E cap \in Caps : asked' = [question |-> question, cap |-> cap] /\ WriteBytes(rows, cap)

\* An answer that has the right rows keeps the invariant, written or not.
LEMMA AnswerKeeps ==
  ASSUME KgraphInv, running, UNCHANGED <<store, running, since, lost>>,
         NEW question \in Terms \cup Queries, NEW S, NEW rows, rows \in Seq(S), Answered(question, rows), NEW right,
         right = IF question \in Queries THEN RightRows(question) ELSE {x \in Stored : x[1] = question},
         ToSet(rows) \subseteq right,
         question \in Queries => IsInjective(rows),
         NothingNested => right \subseteq ToSet(rows)
  PROVE KgraphInv'
<1>1. PICK cap \in Caps : asked' = [question |-> question, cap |-> cap] /\ WriteBytes(rows, cap)
  BY DEF Answered
<1>2. cap \in Nat /\ Len(rows) \in Nat /\ DOMAIN rows = 1..Len(rows) /\ asked'.question = question /\ asked'.cap = cap
  BY <1>1, KgraphAssumption
<1>3. CASE Len(rows) > cap
  <2>1. answer' = -1
    BY <1>1, <1>3 DEF WriteBytes
  <2>2. KgraphTypeOK'
    BY <1>2, <2>1 DEF KgraphInv, KgraphTypeOK
  <2>3. ASSUME NothingNested, question \in Queries PROVE Cardinality(right) > cap
    <3>1. right = ToSet(rows)
      BY <2>3
    <3>2. rows \in Surjection(DOMAIN rows, right) /\ rows \in Injection(DOMAIN rows, right)
      BY <1>2, <2>3, <3>1 DEF ToSet, Surjection, Injection, IsInjective
    <3>3. IsFiniteSet(DOMAIN rows) /\ Cardinality(DOMAIN rows) = Len(rows)
      <4>1. PICK n \in Nat : n = Len(rows) /\ DOMAIN rows = 1..n
        BY <1>2
      <4>2. IsFiniteSet(1..n) /\ Cardinality(1..n) = n
        BY FS_Interval
      <4> QED
        BY <4>1, <4>2
    <3>4. Cardinality(right) = Len(rows)
      BY <3>2, <3>3, FS_Surjection
    <3> QED
      BY <1>3, <3>4
  <2>4. Right' = right /\ (NothingNested' <=> NothingNested)
    BY <1>2 DEF Right, RightRows, Stored, NothingNested
  <2>5. AnswersRight'
    BY <1>2, <2>1, <2>3, <2>4 DEF AnswersRight, NothingNested
  <2> QED
    BY <2>2, <2>5 DEF KgraphInv, FactsStand
<1>4. CASE ~ (Len(rows) > cap)
  <2>1. answer' = Len(rows) /\ buffer' = rows
    BY <1>1, <1>4 DEF WriteBytes
  <2>2. KgraphTypeOK'
    BY <1>2, <2>1 DEF KgraphInv, KgraphTypeOK
  <2>3. Right' = right /\ (NothingNested' <=> NothingNested)
    BY <1>2 DEF Right, RightRows, Stored, NothingNested
  <2>4. AnswersRight'
    BY <1>2, <2>1, <2>3 DEF AnswersRight, NothingNested
  <2> QED
    BY <2>2, <2>4 DEF KgraphInv, FactsStand
<1> QED
  BY <1>3, <1>4

\* getObjects has the datoms of the entity.
LEMMA GetObjectsKeeps ==
  ASSUME KgraphInv, NEW e \in Terms, GetObjects(e)
  PROVE KgraphInv'
<1> DEFINE objects == ObjectsOf(e)
           rows == [k \in DOMAIN objects |-> objects[k].what]
           right == {x \in Stored : x[1] = e}
           found == {k \in DOMAIN store : EdnEqual(Term(store[k], 1), Pattern(e))}
<1>1. running /\ Iterable /\ Answered(e, rows) /\ UNCHANGED <<store, running, since, lost>>
  BY DEF GetObjects, Answered
<1>2. store \in Seq(Items) /\ \A k \in DOMAIN store : store[k] \in Items /\ store[k].what \in Facts
  <2>1. store \in Seq(Items)
    BY DEF KgraphInv, KgraphTypeOK, Items
  <2> QED
    BY <1>1, <2>1 DEF Iterable
<1>3. /\ objects \in Seq(Items)
      /\ \A x : x \in ToSet(objects) <=> \E k \in DOMAIN store : k \in found /\ x = store[k]
  BY <1>2, ThoseAre DEF ObjectsOf
<1> HIDE DEF objects
<1>4. /\ Len(objects) \in Nat /\ DOMAIN objects = 1..Len(objects)
      /\ \A k \in 1..Len(objects) : objects[k] \in Items /\ objects[k].what \in Things
  <2>1. \A i \in Items : i.what \in Things
    BY DEF Items
  <2> QED
    BY <1>3, <2>1
<1>5. DOMAIN rows = 1..Len(objects) /\ rows = [k \in 1..Len(objects) |-> rows[k]]
      /\ \A k \in 1..Len(objects) : rows[k] = objects[k].what
  BY <1>4
<1> HIDE DEF rows
<1>6. rows \in Seq(Things)
  <2>1. \A k \in 1..Len(objects) : rows[k] \in Things
    BY <1>4, <1>5
  <2> QED
    BY <1>4, <1>5, <2>1, MadeSeq
<1>7. \A x : x \in ToSet(rows) <=> \E k \in found : x = store[k].what
  <2>1. \A x : x \in ToSet(rows) <=> \E o \in ToSet(objects) : x = o.what
    BY <1>4, <1>5 DEF ToSet
  <2> QED
    BY <1>3, <2>1
<1>8. ToSet(rows) \subseteq right
  <2> SUFFICES ASSUME NEW k \in found PROVE store[k].what \in right
    BY <1>7
  <2>1. Pattern(e) = Term(store[k], 1)
    BY DEF EdnEqual
  <2>2. store[k].what[1] = e
    BY <1>2, <2>1, PatternPrints
  <2> QED
    BY <2>2 DEF Stored
<1>9. NothingNested => right \subseteq ToSet(rows)
  <2> SUFFICES ASSUME NothingNested, NEW k \in DOMAIN store, store[k].what[1] = e PROVE k \in found
    BY <1>7 DEF Stored
  <2>1. store[k].what[1] \notin Nested
    <3>1. store[k].what \in Stored \cap Facts
      BY <1>2 DEF Stored
    <3> QED
      BY <3>1 DEF NothingNested
  <2> QED
    BY <2>1 DEF EdnEqual, Term, Pattern
<1>10. e \notin Queries
  BY KgraphAssumption
<1> HIDE DEF right
<1>11. right = IF e \in Queries THEN RightRows(e) ELSE {x \in Stored : x[1] = e}
  BY <1>10 DEF right
<1> QED
  BY <1>1, <1>6, <1>8, <1>9, <1>10, <1>11, AnswerKeeps

\* query has the rows of the solutions.
LEMMA QueryKeeps ==
  ASSUME KgraphInv, NEW q \in Queries, Query(q)
  PROVE KgraphInv'
<1> DEFINE rows == Rows(Join(q.where), q.find)
           right == RightRows(q)
<1>1. /\ running /\ Answered(q, rows) /\ UNCHANGED <<store, running, since, lost>>
      /\ q.where # <<>> => Iterable
      /\ RowsPrint(Join(q.where), q.find)
  BY DEF Query, Answered
<1>2. store \in Seq(Items) /\ Asks(q)
  BY QueriesAsk DEF KgraphInv, KgraphTypeOK, Items
<1>3. /\ Covers(q) /\ rows \in Seq([DOMAIN q.find -> Terms]) /\ IsInjective(rows)
      /\ ToSet(rows) = {Row(b, q.find) : b \in AllSolutions(q)}
  BY <1>1, <1>2, RowsAre
<1>4. ToSet(rows) \subseteq right
  BY <1>1, <1>2, <1>3, RowsSound
<1>5. NothingNested => right \subseteq ToSet(rows)
  BY <1>1, <1>2, <1>3, RowsComplete
<1> HIDE DEF rows, right
<1>6. right = IF q \in Queries THEN RightRows(q) ELSE {x \in Stored : x[1] = q}
  BY DEF right
<1> QED
  BY <1>1, <1>3, <1>4, <1>5, <1>6, AnswerKeeps

\* Every step keeps the invariant.
LEMMA KgraphStep == ASSUME KgraphInv, [KgraphNext]_kgraphVars PROVE KgraphInv'
<1>1. ASSUME NEW x \in Things, AssertDatom(x) PROVE KgraphInv'
  BY <1>1, AssertKeeps
<1>2. ASSUME NEW x \in Things, RetractDatom(x) PROVE KgraphInv'
  BY <1>2, RetractKeeps
<1>3. ASSUME NEW x \in Things, RetractLoses(x) PROVE KgraphInv'
  BY <1>3, RetractLosesKeeps
<1>4. ASSUME NEW x \in Things, RetractThrows(x) PROVE KgraphInv'
  BY <1>4, TrapsKeep DEF RetractThrows
<1>5. ASSUME NEW e \in Terms, GetObjects(e) PROVE KgraphInv'
  BY <1>5, GetObjectsKeeps
<1>6. ASSUME NEW e \in Terms, GetObjectsThrows(e) PROVE KgraphInv'
  BY <1>6, TrapsKeep DEF GetObjectsThrows
<1>7. ASSUME NEW q \in Queries, Query(q) PROVE KgraphInv'
  BY <1>7, QueryKeeps
<1>8. ASSUME NEW q \in Queries, QueryThrows(q) PROVE KgraphInv'
  BY <1>8, TrapsKeep DEF QueryThrows
<1>9. CASE Unreadable
  BY <1>9, TrapsKeep DEF Unreadable
<1>10. CASE Runs
  BY <1>10, RunsKeeps
<1>11. CASE UNCHANGED kgraphVars
  <2>1. UNCHANGED <<store, running, asked, answer, buffer, since, lost>>
    BY <1>11 DEF kgraphVars
  <2>2. Right' = Right /\ Stored' = Stored
    BY <2>1 DEF Right, RightRows, Stored
  <2>3. AnswersRight' <=> AnswersRight
    BY <2>1, <2>2 DEF AnswersRight
  <2> QED
    BY <2>1, <2>3 DEF KgraphInv, KgraphTypeOK, FactsStand
<1> QED
  BY <1>1, <1>2, <1>3, <1>4, <1>5, <1>6, <1>7, <1>8, <1>9, <1>10, <1>11 DEF KgraphNext

\* The invariant holds.
LEMMA KgraphInvariant == KgraphSpec => []KgraphInv
<1>1. KgraphInit => KgraphInv
  BY KgraphStarts
<1>2. KgraphInv /\ [KgraphNext]_kgraphVars => KgraphInv'
  BY KgraphStep
<1> QED
  BY <1>1, <1>2, PTL DEF KgraphSpec

\* The store holds what was asserted and no more than it may, and a count is
\* never negative, whatever guests call and whichever calls throw.
THEOREM KgraphTypeCorrect == KgraphSpec => []KgraphTypeOK
<1>1. KgraphInv => KgraphTypeOK
  BY DEF KgraphInv
<1> QED
  BY <1>1, KgraphInvariant, PTL

\* Whatever calls guests make and wherever they throw, a thing is in the store
\* as often as it was asserted since it was last retracted, until a retract
\* throws between emptying the store and filling it again (kgraph.js:232-237).
THEOREM FactsHold == KgraphSpec => []FactsStand
<1>1. KgraphInv => FactsStand
  BY DEF KgraphInv
<1> QED
  BY <1>1, KgraphInvariant, PTL

\* For every store and every query, what query and getObjects answer is what
\* the facts stored make true: the loop of joins and the rows without
\* duplicates come to the set of all bindings that satisfy the clauses, no row
\* twice; complete as long as no vector is stored (kgraph.js:164-204, 221-225).
THEOREM AnswersAreRight == KgraphSpec => []AnswersRight
<1>1. KgraphInv => AnswersRight
  BY DEF KgraphInv
<1> QED
  BY <1>1, KgraphInvariant, PTL
=============================================================================
