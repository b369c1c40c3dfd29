--------------------------- MODULE WorkerElement ---------------------------
(***************************************************************************)
(* Elements that run a guest and report how it ended                       *)
(* (src/kotoba-wasm-worker-element.js, src/kotoba-wasm-worker-host.js,     *)
(* src/kotoba-wasm-element.js).                                            *)
(*                                                                         *)
(* A worker element runs its guest in a worker of its own (the host) and   *)
(* ends it at a deadline; inside the host a bridge has one more worker     *)
(* (inner), which SabPostBridge models.  A plain element runs its guest on *)
(* the main thread, where nothing can end it, and meanwhile no task of any *)
(* element runs.  A task and the promise reactions it sets off are one     *)
(* step; workers run beside the main thread, and one that was terminated   *)
(* may take further steps before it stops.                                 *)
(*                                                                         *)
(* A deadline may pass, and a guest, a fetch or a script may never end.    *)
(* Inserting an element again only makes attachShadow throw.               *)
(***************************************************************************)
EXTENDS Naturals

CONSTANTS WorkerElements, PlainElements, None

Elements == WorkerElements \cup PlainElements

ASSUME ElementsAssumption == WorkerElements \cap PlainElements = {} /\ None \notin Elements

VARIABLES
  main,        \* the plain element whose guest runs on the main thread, or None
  element,     \* element[e]: what connectedCallback has come to
  events,      \* history: the events dispatched
  timer,       \* the timer of the deadline
  inbox,       \* the message or error of the host that waits for the main thread
  terminated,  \* whether the host was told to stop
  host, inner, \* where the two workers are
  returned     \* history: whether the guest returned a result

mainVars == <<main, element, events, timer>>
workerVars == <<host, inner, returned>>
vars == <<mainVars, inbox, terminated, workerVars>>

Reported == {"done", "error"}

Init ==
  /\ main = None
  /\ element = [e \in Elements |-> "absent"] /\ events = [e \in Elements |-> 0]
  /\ timer = [e \in WorkerElements |-> "none"] /\ inbox = [e \in WorkerElements |-> "none"]
  /\ terminated = [e \in WorkerElements |-> FALSE]
  /\ host = [e \in WorkerElements |-> "none"] /\ inner = [e \in WorkerElements |-> "none"]
  /\ returned = [e \in Elements |-> FALSE]

Reports(e, outcome) ==
  /\ element' = [element EXCEPT ![e] = outcome]
  /\ events' = [events EXCEPT ![e] = @ + 1]

-----------------------------------------------------------------------------
(* The main thread, for a worker element.                                  *)

\* Mutants: no deadline; promises that settle again; a finally without the
\* terminate; a message that is not looked at.
Unarmed(e) == timer
SettlesAgain(e) == TRUE
TerminatesNot(e) == UNCHANGED terminated
AnyMessage(message) == {"done", "error"}

Armed(e) == [timer EXCEPT ![e] = "armed"]

\* new URL and new Worker may throw, and there is no worker then.
Inserts(e) ==
  /\ main = None /\ element[e] = "absent"
  /\ \/ Reports(e, "error") /\ UNCHANGED <<timer, host>>
     \/ /\ element' = [element EXCEPT ![e] = "waiting"]
        /\ timer' = Armed(e) /\ host' = [host EXCEPT ![e] = "loads"]
        /\ UNCHANGED events
  /\ UNCHANGED <<main, inbox, terminated, inner, returned>>

\* Promise.race settles once.
Unsettled(e) == element[e] = "waiting"
Terminates(e) == terminated' = [terminated EXCEPT ![e] = TRUE]

\* What a message comes to: rendering a result may throw.
Outcomes(message) == IF message = "ok" THEN {"done", "error"} ELSE {"error"}

\* Only a result clears the timer.
TakesMessage(e) ==
  /\ main = None /\ inbox[e] # "none"
  /\ inbox' = [inbox EXCEPT ![e] = "none"]
  /\ IF Unsettled(e)
       THEN /\ \E outcome \in Outcomes(inbox[e]) : Reports(e, outcome)
            /\ timer' = IF inbox[e] = "ok" THEN [timer EXCEPT ![e] = "cleared"] ELSE timer
            /\ Terminates(e)
       ELSE UNCHANGED <<element, events, timer, terminated>>
  /\ UNCHANGED <<main, workerVars>>

TimerFires(e) ==
  /\ main = None /\ timer[e] = "armed"
  /\ timer' = [timer EXCEPT ![e] = "fired"]
  /\ terminated' = [terminated EXCEPT ![e] = TRUE]
  /\ IF Unsettled(e) THEN Reports(e, "error") ELSE UNCHANGED <<element, events>>
  /\ UNCHANGED <<main, inbox, workerVars>>

-----------------------------------------------------------------------------
(* The main thread, for a plain element.                                   *)

PlainInserts(e) ==
  /\ main = None /\ element[e] = "absent"
  /\ element' = [element EXCEPT ![e] = "waiting"]
  /\ UNCHANGED <<main, events, timer, inbox, terminated, workerVars>>

\* Imports, fetch, compilation or the export fail, or the guest runs.
PlainStarts(e) ==
  /\ main = None /\ element[e] = "waiting"
  /\ \/ Reports(e, "error") /\ UNCHANGED main
     \/ main' = e /\ UNCHANGED <<element, events>>
  /\ UNCHANGED <<timer, inbox, terminated, workerVars>>

\* It returns or traps, and rendering may throw.
PlainEnds(e) ==
  /\ main = e /\ main' = None
  /\ \/ /\ returned' = [returned EXCEPT ![e] = TRUE]
        /\ \E outcome \in Outcomes("ok") : Reports(e, outcome)
     \/ Reports(e, "error") /\ UNCHANGED returned
  /\ UNCHANGED <<timer, inbox, terminated, host, inner>>

-----------------------------------------------------------------------------
(* The host.                                                               *)

\* A terminated worker reaches nobody.
Posts(e, message) == inbox' = IF terminated[e] THEN inbox ELSE [inbox EXCEPT ![e] = message]

Moves(e, from, to) == host[e] = from /\ host' = [host EXCEPT ![e] = to]

\* The script runs, takes the message "run" and begins to create its bridge,
\* or it does not load.
HostLoads(e) ==
  /\ \/ /\ Moves(e, "loads", "bridges")
        /\ inner' = [inner EXCEPT ![e] = "loads"]
        /\ UNCHANGED inbox
     \/ Moves(e, "loads", "idle") /\ Posts(e, "error") /\ UNCHANGED inner
  /\ UNCHANGED <<mainVars, terminated, returned>>

InnerLoads(e) ==
  /\ inner[e] = "loads"
  /\ \E to \in {"ready", "failed"} : inner' = [inner EXCEPT ![e] = to]
  /\ UNCHANGED <<mainVars, inbox, terminated, host, returned>>

\* A bridge that is not ready in time, or failed, is not there to be disposed
\* of: its worker goes on.
HostBridges(e) ==
  /\ \/ inner[e] = "ready" /\ Moves(e, "bridges", "instantiates") /\ UNCHANGED inbox
     \/ Moves(e, "bridges", "idle") /\ Posts(e, "error")
  /\ UNCHANGED <<mainVars, terminated, inner, returned>>

\* The imports, the fetch, the memory or the export is refused, or the guest runs.
HostInstantiates(e) ==
  /\ \/ Moves(e, "instantiates", "runs") /\ UNCHANGED inbox
     \/ Moves(e, "instantiates", "posted") /\ Posts(e, "error")
  /\ UNCHANGED <<mainVars, terminated, inner, returned>>

\* The guest blocks in a request, which inner makes; a reply or the deadline
\* of the bridge ends it.
GuestCalls(e) ==
  /\ \/ Moves(e, "runs", "waits") /\ inner' = [inner EXCEPT ![e] = "fetches"]
     \/ Moves(e, "waits", "runs") /\ UNCHANGED inner
  /\ UNCHANGED <<mainVars, inbox, terminated, returned>>

InnerAnswers(e) ==
  /\ inner[e] = "fetches"
  /\ inner' = [inner EXCEPT ![e] = "ready"]
  /\ UNCHANGED <<mainVars, inbox, terminated, host, returned>>

\* It returns a result; or it traps, or the result has no toString.
GuestEnds(e) ==
  /\ Moves(e, "runs", "posted")
  /\ \/ Posts(e, "ok") /\ returned' = [returned EXCEPT ![e] = TRUE]
     \/ Posts(e, "error") /\ UNCHANGED returned
  /\ UNCHANGED <<mainVars, terminated, inner>>

HostDisposes(e) ==
  /\ Moves(e, "posted", "idle")
  /\ inner' = [inner EXCEPT ![e] = "none"]
  /\ UNCHANGED <<mainVars, inbox, terminated, returned>>

\* The browser stops a terminated worker and the workers inside it.
HostStops(e) ==
  /\ terminated[e] /\ host[e] # "none"
  /\ host' = [host EXCEPT ![e] = "none"]
  /\ inner' = [inner EXCEPT ![e] = "none"]
  /\ UNCHANGED <<mainVars, inbox, terminated, returned>>

HostStep(e) ==
  HostLoads(e) \/ InnerLoads(e) \/ HostBridges(e) \/ HostInstantiates(e) \/ GuestCalls(e) \/ InnerAnswers(e)
  \/ GuestEnds(e) \/ HostDisposes(e)

Next ==
  \/ \E e \in WorkerElements : Inserts(e) \/ TakesMessage(e) \/ TimerFires(e) \/ HostStep(e) \/ HostStops(e)
  \/ \E e \in PlainElements : PlainInserts(e) \/ PlainStarts(e) \/ PlainEnds(e)

\* The main thread takes its tasks while it is free, and the browser stops
\* what was terminated.  Neither guests nor the network are fair.
Fairness == \A e \in WorkerElements : WF_vars(TakesMessage(e)) /\ WF_vars(TimerFires(e)) /\ WF_vars(HostStops(e))

Spec == Init /\ [][Next]_vars /\ Fairness

-----------------------------------------------------------------------------
(* What the elements promise.                                              *)

HostStates == {"none", "loads", "bridges", "instantiates", "runs", "waits", "posted", "idle"}
InnerStates == {"none", "loads", "ready", "failed", "fetches"}

TypeOK ==
  /\ main \in PlainElements \cup {None}
  /\ element \in [Elements -> {"absent", "waiting"} \cup Reported] /\ events \in [Elements -> Nat]
  /\ timer \in [WorkerElements -> {"none", "armed", "cleared", "fired"}]
  /\ inbox \in [WorkerElements -> {"none", "ok", "error"}]
  /\ terminated \in [WorkerElements -> BOOLEAN]
  /\ host \in [WorkerElements -> HostStates] /\ inner \in [WorkerElements -> InnerStates]
  /\ returned \in [Elements -> BOOLEAN]
  /\ \A e \in WorkerElements : element[e] = "waiting" => timer[e] = "armed"

\* Whatever of result, error and deadline comes first, second and third, an
\* element dispatches one event (worker element, lines 114-145; element, 98-117).
OneEvent == \A e \in Elements : events[e] = IF element[e] \in Reported THEN 1 ELSE 0

\* An element is done only when its own guest returned, and a worker element
\* only when that was before its deadline (worker element, lines 115-141).
DoneIsReal ==
  \A e \in Elements : element[e] = "done" =>
    returned[e] /\ (e \in WorkerElements => timer[e] = "cleared")

\* A host goes on working unseen only while its element waits for it; then it
\* has been told to stop, unless its element has no worker (line 146).
NoOrphan == \A e \in WorkerElements : element[e] # "waiting" /\ host[e] # "none" => terminated[e]

\* What an element reports is true and final, and its worker goes with it.
ReportsSound == OneEvent /\ DoneIsReal /\ NoOrphan

\* However a guest behaves, loops for ever or blocks in a request, every worker
\* element reports, unless the guest of a plain element keeps the main thread
\* for ever (worker element, lines 129-137).
EveryElementReports ==
  []<>(main = None) => \A e \in WorkerElements : element[e] = "waiting" ~> element[e] \in Reported

\* After the report both workers end, the one of a bridge that was never ready
\* included, which nobody disposes of (worker element, 146; worker host, 38-70).
WorkersEnd ==
  \A e \in WorkerElements : element[e] \in Reported ~> host[e] = "none" /\ inner[e] = "none"

\* Every run ends: its element reports, and its workers are gone some day.
RunsEnd == EveryElementReports /\ WorkersEnd
=============================================================================
