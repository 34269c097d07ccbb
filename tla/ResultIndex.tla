---------------------------- MODULE ResultIndex ----------------------------
(***************************************************************************)
(* Saving benchmark runs (bench/records.py): scenarios that run in parallel *)
(* each write a run file and then add an entry to the index they share.     *)
(* Any write may fail (the disk is full) and any process may be killed.     *)
(***************************************************************************)
EXTENDS Naturals, Sequences, SequencesExt

CONSTANTS
  Saver,   \* the processes that save a run
  Target   \* the run file of each

Absent == "absent"
Torn == <<"torn">>
Names == {Target[s] : s \in Saver}

ASSUME SaverAssumption == Absent \notin Saver /\ "torn" \notin Saver

VARIABLES
  saving,    \* where each save is
  runFile,   \* what is under a run file's name: absent, or the run it is of
  index,     \* what is under the index's name: not an index, or the entries, each the run it is of
  temps,     \* the temporary files: <<saver, what for>>
  locked,    \* who holds the flock, as a set
  entries    \* the index as each saver has read it

resultVars == <<saving, runFile, index, temps, locked, entries>>

\* No index, or one that was damaged by other means (an edit, a merge).
ResultInit ==
  /\ saving = [s \in Saver |-> "start"]
  /\ runFile = [n \in Names |-> Absent]
  /\ index \in {<<>>, Torn}
  /\ temps = {} /\ locked = {}
  /\ entries = [s \in Saver |-> <<>>]

To(s, from, to) == saving[s] = from /\ saving' = [saving EXCEPT ![s] = to]

\* _atomic_write up to the fsync: a sibling file, for the run or for the index.
WriteTemp(s) ==
  \/ /\ To(s, "start", "written")
     /\ temps' = temps \cup {<<s, "run">>}
     /\ UNCHANGED <<runFile, index, locked, entries>>
  \/ /\ To(s, "read", "listed")
     /\ temps' = temps \cup {<<s, "index">>}
     /\ UNCHANGED <<runFile, index, locked, entries>>

\* os.replace of the run file, after which save goes on to the index.
PlaceRun(s) ==
  /\ To(s, "written", "placed")
  /\ runFile' = [runFile EXCEPT ![Target[s]] = s]
  /\ temps' = temps \ {<<s, "run">>}
  /\ UNCHANGED <<index, locked, entries>>

\* A slip: the index is read and rewritten without the lock.
LockNot(s) == To(s, "placed", "locked") /\ UNCHANGED <<runFile, index, temps, locked, entries>>

\* flock
Lock(s) ==
  /\ To(s, "placed", "locked")
  /\ locked = {} /\ locked' = {s}
  /\ UNCHANGED <<runFile, index, temps, entries>>

\* _read_index: what does not parse starts a fresh list.
Known == IF index = Torn THEN <<>> ELSE index

ReadIndex(s) ==
  /\ To(s, "locked", "read")
  /\ entries' = [entries EXCEPT ![s] = Append(Known, s)]
  /\ UNCHANGED <<runFile, index, temps, locked>>

\* os.replace of the index.
PlaceIndex(s) ==
  /\ To(s, "listed", "indexed")
  /\ index' = entries[s]
  /\ temps' = temps \ {<<s, "index">>}
  /\ UNCHANGED <<runFile, locked, entries>>

\* The finally clause.
Unlock(s) ==
  /\ To(s, "indexed", "saved")
  /\ locked' = locked \ {s}
  /\ UNCHANGED <<runFile, index, temps, entries>>

\* A write, the fsync or the replacement raises: the temporary file is removed and so is
\* the lock on the way out of append_to_index.
SaveRaises(s) ==
  /\ saving[s] \in {"written", "listed"}
  /\ saving' = [saving EXCEPT ![s] = "raised"]
  /\ temps' = {t \in temps : t[1] # s}
  /\ locked' = locked \ {s}
  /\ UNCHANGED <<runFile, index, entries>>

\* The process is killed; the kernel drops its lock and nothing else.
Killed(s) ==
  /\ saving[s] \notin {"start", "saved", "raised", "killed"}
  /\ saving' = [saving EXCEPT ![s] = "killed"]
  /\ locked' = locked \ {s}
  /\ UNCHANGED <<runFile, index, temps, entries>>

ResultNext ==
  \E s \in Saver : \/ WriteTemp(s) \/ PlaceRun(s) \/ Lock(s) \/ ReadIndex(s) \/ PlaceIndex(s)
                   \/ Unlock(s) \/ SaveRaises(s) \/ Killed(s)

ResultSpec == ResultInit /\ [][ResultNext]_resultVars

----------------------------------------------------------------------------
(* Properties.                                                               *)

\* A run whose save has returned is in the index and stays there, whoever else was saving,
\* failed or was killed meanwhile (append_to_index).
IndexComplete == \A s \in Saver : saving[s] \in {"indexed", "saved"} => Contains(index, s)

\* An entry of the index always leads to a run file that is whole, and no run has two
\* entries: no reader of the index finds a torn or a missing file (save, _atomic_write).
IndexHonest ==
  /\ IsInjective(Known)
  /\ \A i \in DOMAIN Known : runFile[Target[Known[i]]] \in Saver

\* A save that failed leaves no temporary file behind: only a process that is still writing
\* or was killed has one (_atomic_write).
NoLitter == \A t \in temps : saving[t[1]] \in {"written", "listed", "killed"}

\* Savers that run side by side, fail or are killed leave an index that can be trusted.
IndexSound == IndexComplete /\ IndexHonest /\ NoLitter
=============================================================================
