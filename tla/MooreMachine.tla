----------------------------- MODULE MooreMachine -----------------------------
(***************************************************************************)
(* The finite causal machine of angel/boundary/behavior.hpp (MooreMachine) *)
(* and of its audit twin afac63/behavioral_resume.hpp                      *)
(* (FiniteMooreMachine): a table of targets, an observation per state and  *)
(* two version numbers.  A target is whatever sixteen bits hold, so a      *)
(* machine need not be valid.                                              *)
(*                                                                         *)
(* The second half is the reference the algorithms are measured against:   *)
(* what a caller sees who feeds a word to the machine.  The code has no    *)
(* such notion; it is what "future" means in its names.                    *)
(***************************************************************************)
EXTENDS Naturals, FiniteSets, Sequences, SequencesExt

CONSTANTS
  StateCount,     \* template argument, at most 64: one bit of a mask each
  AlphabetSize,   \* template argument
  Observations,   \* the values an observation takes
  Machines        \* the machines callers pass

States   == 0 .. StateCount - 1
Alphabet == 0 .. AlphabetSize - 1

\* versioned: neither semantic_version nor observer_contract is zero.
Arrays == [transition  : [States -> [Alphabet -> Nat]],
           observation : [States -> Observations],
           versioned   : BOOLEAN]

ASSUME SizesAssumption    == StateCount \in 1 .. 64 /\ AlphabetSize \in Nat \ {0}
ASSUME MachinesAssumption == Machines \subseteq Arrays

VARIABLE machine   \* the argument of every entry

Valid(m) ==
  /\ m.versioned
  /\ \A s \in States : \A a \in Alphabet : m.transition[s][a] \in States

-------------------------------------------------------------------------------
\* Two states of an N-state machine that no word of N letters tells apart are
\* told apart by none, so the words up to that length stand for all futures.
Words == UNION {[1 .. n -> Alphabet] : n \in 0 .. StateCount}

After(m, s, w) == FoldLeft(LAMBDA q, a : m.transition[q][a], s, w)

SameFuture(m, s, t) ==
  \A w \in Words : m.observation[After(m, s, w)] = m.observation[After(m, t, w)]

\* A relation a future cannot leave: the coinductive form of the same notion.
Bisimulation(m, R) ==
  \A p \in R :
    /\ m.observation[p[1]] = m.observation[p[2]]
    /\ \A a \in Alphabet : <<m.transition[p[1]][a], m.transition[p[2]][a]>> \in R
===============================================================================
