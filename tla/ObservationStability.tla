------------------------- MODULE ObservationStability -------------------------
(***************************************************************************)
(* reachable_mask and certify_stability of angel/boundary/behavior.hpp: a  *)
(* breadth-first search over a queue of states and a mask with one bit per *)
(* state, and the certificate read off the mask.  One step takes a state   *)
(* from the queue or follows one letter out of it.                         *)
(***************************************************************************)
EXTENDS MooreMachine

VARIABLES
  start,            \* the other argument
  mask,             \* the states whose bit is set
  work,             \* the queue
  state, symbol,    \* the state taken from it and the next letter to follow
  certificate,      \* "granted", "nullopt", or "pending" before the end
  search            \* "start", "search", "returned" or "threw"

search_vars == <<machine, start, mask, work, state, symbol, certificate, search>>

Alike == \A s \in mask : machine.observation[s] = machine.observation[start]

SearchInit ==
  /\ machine \in Machines
  /\ start \in 0 .. StateCount
  /\ mask = {} /\ work = <<>>
  /\ state = 0 /\ symbol = AlphabetSize
  /\ certificate = "pending"
  /\ search = "start"

RejectSearch ==
  /\ search = "start"
  /\ ~Valid(machine) \/ start >= StateCount
  /\ search' = "threw"
  /\ UNCHANGED <<machine, start, mask, work, state, symbol, certificate>>

Begin ==
  /\ search = "start"
  /\ Valid(machine) /\ start < StateCount
  /\ mask' = {start}
  /\ work' = <<start>>
  /\ search' = "search"
  /\ UNCHANGED <<machine, start, state, symbol, certificate>>

\* Variant: the state is read and stays in the queue.
FrontWithoutPop ==
  /\ state' = Head(work)
  /\ UNCHANGED work

FrontAndPop ==
  /\ state' = Head(work)
  /\ work' = Tail(work)

Take ==
  /\ search = "search"
  /\ symbol = AlphabetSize
  /\ work # <<>>
  /\ FrontAndPop
  /\ symbol' = 0
  /\ UNCHANGED <<machine, start, mask, certificate, search>>

\* Variants: the new state is marked but not queued, or marked only if it shows
\* what the start shows.
MarkOnly(next) ==
  /\ mask' = mask \cup {next}
  /\ UNCHANGED work

MarkAlike(next) ==
  /\ mask' = IF machine.observation[next] = machine.observation[start]
               THEN mask \cup {next} ELSE mask
  /\ work' = IF next \in mask' THEN Append(work, next) ELSE work

MarkAndQueue(next) ==
  /\ mask' = mask \cup {next}
  /\ work' = Append(work, next)

Follow ==
  /\ search = "search"
  /\ symbol < AlphabetSize
  /\ LET next == machine.transition[state][symbol]
     IN  IF next \in mask THEN UNCHANGED <<mask, work>> ELSE MarkAndQueue(next)
  /\ symbol' = symbol + 1
  /\ UNCHANGED <<machine, start, state, certificate, search>>

Certify ==
  /\ search = "search"
  /\ symbol = AlphabetSize
  /\ work = <<>>
  /\ certificate' = IF Alike THEN "granted" ELSE "nullopt"
  /\ search' = "returned"
  /\ UNCHANGED <<machine, start, mask, work, state, symbol>>

SearchNext == RejectSearch \/ Begin \/ Take \/ Follow \/ Certify

\* One sequential call: its thread is scheduled until it returns.
SearchSpec == SearchInit /\ [][SearchNext]_search_vars /\ WF_search_vars(SearchNext)

-------------------------------------------------------------------------------
SearchTypeOK ==
  /\ machine \in Arrays
  /\ start \in 0 .. StateCount
  /\ mask \in SUBSET States
  /\ work \in Seq(States)
  /\ state \in States
  /\ symbol \in 0 .. AlphabetSize
  /\ certificate \in {"pending", "granted", "nullopt"}
  /\ search \in {"start", "search", "returned", "threw"}

Queued == {work[i] : i \in 1 .. Len(work)}

\* Whose letters have all been followed.
Expanded(s) == s \notin Queued /\ (s = state => symbol = AlphabetSize)

Targets(s) == {machine.transition[s][a] : a \in Alphabet}

\* The frontier: a marked state has its targets marked, waits in the queue, or
\* is the one at hand, whose followed letters lead to marked states.
SearchIInv ==
  /\ SearchTypeOK
  /\ search = "start" => symbol = AlphabetSize
  /\ search \in {"search", "returned"} =>
       /\ Valid(machine)
       /\ start \in mask
       /\ Queued \subseteq mask
       /\ symbol < AlphabetSize => state \in mask
       /\ symbol < AlphabetSize => \A a \in 0 .. symbol - 1 : machine.transition[state][a] \in mask
       /\ \A s \in mask : Expanded(s) => Targets(s) \subseteq mask
  /\ search = "returned" =>
       /\ work = <<>> /\ symbol = AlphabetSize
       /\ certificate = IF Alike THEN "granted" ELSE "nullopt"

\* A state waits in the queue at most once, so the queue never outgrows the
\* table (reachable_mask marks a state before it queues it).
QueuedOnce == \A i, j \in 1 .. Len(work) : work[i] = work[j] => i = j

\* The mask returned holds the states that words lead to, all and only.
MaskIsReach ==
  search = "returned" => mask = {After(machine, start, w) : w \in Words}

\* What is marked lies in every set that holds the start and that no letter
\* leaves; what is returned is such a set itself.
MaskIsClosed ==
  search = "returned" => start \in mask /\ \A s \in mask : Targets(s) \subseteq mask

\* A certificate is given exactly when no word ever changes what the start
\* shows (all_legal_futures_stable).
CertificateIsExact ==
  search = "returned" =>
    (certificate = "granted" <=> \A w \in Words :
       machine.observation[After(machine, start, w)] = machine.observation[start])

\* The search ends for every machine and start.
SearchEnds == <>(search \in {"returned", "threw"})
===============================================================================
