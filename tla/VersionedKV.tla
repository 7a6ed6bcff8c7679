---------------------------- MODULE VersionedKV -----------------------------
(***************************************************************************)
(* What the secret store promises its clients, with no tables, keys,       *)
(* snapshots or retries: a path holds an append-only log of versions.      *)
(* Entries are marked deleted, restored or destroyed; destroying is final  *)
(* and loses the value.  The whole log is hidden, comes back with the next *)
(* write, or is purged.                                                    *)
(***************************************************************************)
EXTENDS Integers

CONSTANTS Paths, Data, Absent, Gone

VARIABLE store      \* path -> Absent, or the log and whether it is hidden

Entry == [value : Data \cup {Gone}, status : {"live", "deleted", "destroyed"}]

Log(p) == IF store[p] = Absent THEN <<>> ELSE store[p].log
Length(p) == IF store[p] = Absent THEN 0 ELSE store[p].length

Init == store = [p \in Paths |-> Absent]

\* A write extends the log by one live entry and shows the path again.
Write(p, d) ==
    store' = [store EXCEPT ![p] =
        [hidden |-> FALSE, length |-> Length(p) + 1,
         log |-> [v \in 1..(Length(p) + 1) |->
                     IF v <= Length(p) THEN Log(p)[v] ELSE [value |-> d, status |-> "live"]]]]

\* What marking does to one entry; a destroyed one is beyond every mark.
Marked(e, mark) ==
    IF e.status = "destroyed" THEN e
    ELSE CASE mark = "delete"   -> [e EXCEPT !.status = "deleted"]
           [] mark = "undelete" -> [e EXCEPT !.status = "live"]
           [] mark = "destroy"  -> [value |-> Gone, status |-> "destroyed"]

Mark(p, vs, mark) ==
    /\ store[p] # Absent
    /\ ~store[p].hidden
    /\ store' = [store EXCEPT ![p].log =
           [v \in 1..Length(p) |-> IF v \in vs THEN Marked(Log(p)[v], mark) ELSE Log(p)[v]]]

Hide(p) ==
    /\ store[p] # Absent
    /\ store' = [store EXCEPT ![p].hidden = TRUE]

Purge(p) == store' = [store EXCEPT ![p] = Absent]

Next ==
    \E p \in Paths :
        \/ \E d \in Data : Write(p, d)
        \/ \E vs \in SUBSET (1..Length(p)), mark \in {"delete", "undelete", "destroy"} : Mark(p, vs, mark)
        \/ Hide(p)
        \/ Purge(p)

Spec == Init /\ [][Next]_store

=============================================================================
