------------------------------ MODULE DevPaths ------------------------------
(***************************************************************************)
(* How a session gets its port files: get_ca with get_ca_dev_paths         *)
(* (src/src/ca.rs), then open_smp_port for the discovery and open_port for *)
(* the counters (src/src/mad/mod.rs).                                      *)
(*                                                                         *)
(* The directory of an adapter's MAD devices is read in whatever order the *)
(* system returns it.  An entry is the number in its name, the prefix that *)
(* the number follows, what its file ibdev holds (the adapter's own name,  *)
(* one beginning with smi, or anything else, unreadable included) and      *)
(* whether there is a device file of that name; other names are passed     *)
(* over.  An Option<(u32, PathBuf)> is a set of at most one entry.         *)
(***************************************************************************)
EXTENDS Naturals

Entry == [kind : {"umad", "issm"}, idx : Nat, ibdev : {"own", "smi", "other"},
          dev : BOOLEAN]

CONSTANT Directories   \* the contents the directory may have

(* Names are unique in a directory.                                        *)
ASSUME DirectoriesAssumption ==
    \A d \in Directories :
        /\ d \subseteq Entry
        /\ \A e, f \in d : e.kind = f.kind /\ e.idx = f.idx => e = f

VARIABLES
    dir,         \* the adapter's directory
    todo,        \* its entries that the loop has not come to
    best,        \* the least entry so far for each slot
    at,          \* "scan", then "known", or "failed" if there is no adapter
    dev_paths,   \* IbCa.dev_paths, an option like the paths in it
    file,        \* the device each opener has open
    refusal      \* the error each opener got, or "none"

dev_vars == <<dir, todo, best, at, dev_paths, file, refusal>>

(* best_umad, fallback_umad, best_smi_umad and best_issm                   *)
Slot == {"own", "any", "smi", "issm"}
Opener == {"smp", "perf"}
Nothing == [slot \in Slot |-> {}]

DevInit ==
    /\ dir \in Directories /\ todo = dir
    /\ best = Nothing
    /\ at = "scan" /\ dev_paths = {}
    /\ file = [o \in Opener |-> {}]
    /\ refusal = [o \in Opener |-> "none"]

-----------------------------------------------------------------------------
(* The slots an entry is a candidate for.                                  *)
Slots(e) ==
    IF ~e.dev THEN {}
    ELSE IF e.kind = "issm" THEN {"issm"}
    ELSE {"any"} \union ({e.ibdev} \ {"other"})

(* Mutant: what comes first stays.                                         *)
FirstFound(b, e) == IF b = {} THEN {e} ELSE b

Lower(b, e) == IF \A l \in b : e.idx < l.idx THEN {e} ELSE b

Visit ==
    /\ at = "scan"
    /\ \E e \in todo :
          /\ todo' = todo \ {e}
          /\ best' = [slot \in Slot |-> IF slot \in Slots(e) THEN Lower(best[slot], e)
                                                             ELSE best[slot]]
    /\ UNCHANGED <<dir, at, dev_paths, file, refusal>>

(* The function returns None when the directory or an entry of it cannot   *)
(* be read, whatever it has found by then; get_ca returns the adapter all  *)
(* the same.                                                               *)
Known(paths) ==
    /\ at = "scan" /\ at' = "known"
    /\ dev_paths' = paths
    /\ best' = Nothing /\ todo' = {}
    /\ UNCHANGED <<dir, file, refusal>>

ReadDirFails == Known({})

(* Option::or                                                              *)
Or(first, second) == IF first # {} THEN first ELSE second

Select ==
    /\ todo = {}
    /\ Known({[umad |-> Or(best["own"], best["any"]), smi |-> best["smi"],
               issm |-> best["issm"]]})

(* There is no such adapter, or a port of it cannot be read.               *)
GetCaFails ==
    /\ at = "scan" /\ todo = dir
    /\ at' = "failed"
    /\ UNCHANGED <<dir, todo, best, dev_paths, file, refusal>>

(* A path that was chosen is opened or the error returned: a device that   *)
(* is gone by now is not replaced by the second choice.                    *)
Open(opener, choice) ==
    /\ at = "known"
    /\ file[opener] = {} /\ refusal[opener] = "none"
    /\ \/ choice # {} /\ file' = [file EXCEPT ![opener] = choice] /\ UNCHANGED refusal
       \/ choice # {} /\ refusal' = [refusal EXCEPT ![opener] = "Other"] /\ UNCHANGED file
       \/ choice = {} /\ refusal' = [refusal EXCEPT ![opener] = "NotFound"] /\ UNCHANGED file
    /\ UNCHANGED <<dir, todo, best, at, dev_paths>>

(* Mutant: the same preference as open_port.                               *)
OpenSmpLikeAny == Open("smp", UNION {Or(p.umad, p.smi) : p \in dev_paths})

OpenSmpPort == Open("smp", UNION {Or(p.smi, p.umad) : p \in dev_paths})
OpenPort == Open("perf", UNION {Or(p.umad, p.smi) : p \in dev_paths})

DevNext == Visit \/ ReadDirFails \/ Select \/ GetCaFails \/ OpenSmpPort \/ OpenPort
DevSpec == DevInit /\ [][DevNext]_dev_vars

-----------------------------------------------------------------------------
(* Properties.                                                             *)

Candidates(slot, entries) == {e \in entries : slot \in Slots(e)}

IsLeastOf(b, entries) ==
    /\ b = {} => entries = {}
    /\ \A l \in b : l \in entries /\ \A e \in entries : l = e \/ l.idx < e.idx

(* What is chosen does not depend on the order of the directory: for each  *)
(* kind of device it is the one with the least number, and an umad device  *)
(* of another adapter is chosen only if there is none of this adapter.     *)
ChoiceIsLeast ==
    \A p \in dev_paths :
        /\ IsLeastOf(p.umad, Or(Candidates("own", dir), Candidates("any", dir)))
        /\ IsLeastOf(p.smi, Candidates("smi", dir))
        /\ IsLeastOf(p.issm, Candidates("issm", dir))

(* An adapter with both kinds of device has its SMPs go through the one    *)
(* and its counters be read through the other, in whatever order they were *)
(* found: the same file never serves both.                                 *)
SeparatePorts ==
    Candidates("own", dir) # {} /\ Candidates("smi", dir) # {} =>
        /\ file["smp"] \subseteq Candidates("smi", dir)
        /\ file["perf"] \subseteq Candidates("own", dir)
=============================================================================
