--------------------------- MODULE WorkspaceFiles ---------------------------
(***************************************************************************)
(* The files of one user: prax_sandbox/fileops.py under the locks of       *)
(* daemon/app.py.  Requests run in the threads of a pool.  Tar transfers   *)
(* hold a lock that is found by the user id as it was written ("+1" and    *)
(* "1" are one tree and two locks); single writes, and everything that     *)
(* comes through InProcessTransport, hold none.                            *)
(*                                                                         *)
(* A file's content is the request that wrote it.  Files are written as    *)
(* the code does it: cut to nothing when opened, filled later.             *)
(***************************************************************************)
EXTENDS Naturals, FiniteSets, Sequences, SequencesExt

CONSTANTS
    N,         \* requests
    Ops,       \* what they may be: see IsOp
    Files,     \* names in the tree
    Threads,   \* threads of the pool
    Trees,     \* what may be there at first
    Absent, Empty, Torn,
    Unsafe,    \* a member that push_tar rejects
    NoLock     \* "user id" of a request through InProcessTransport

IsOp(o) == /\ o.kind \in {"push", "pull", "write"}
           /\ o.files \in Seq(Files \cup {Unsafe})
ASSUME OpsAssumption == \A o \in Ops : IsOp(o)

Jobs == 1 .. N
ASSUME TreesAssumption == /\ IsFiniteSet(Files)
                          /\ \A t \in Trees : t = [f \in Files |-> t[f]]
ASSUME NamesAssumption == Unsafe \notin Files /\ Absent \notin Jobs
Ids == {o.id : o \in Ops}

VARIABLES
    tree,    \* content of every name
    holder,  \* _file_locks: user id -> the request that holds its lock
    pc,      \* "pool" (queued), "lock", "work", "open" (a file), "ok", "error"
    op,      \* what each request is, from its start to its end
    rest,    \* names it has still to handle
    size,    \* the content a pull has taken the size of
    got,     \* the members of a pulled tar
    base,    \* (history) the tree when the request began to work
    spoilt,  \* (history) another that its lock does not exclude wrote meanwhile
    cut      \* (history) names of its own that a full disk left torn
vars == <<tree, holder, pc, op, rest, size, got, base, spoilt, cut>>

NoTree == [f \in Files |-> Absent]

Init == /\ tree \in Trees
        /\ holder = [i \in Ids |-> Absent]
        /\ pc = [j \in Jobs |-> "pool"]
        /\ op = [j \in Jobs |-> Absent]
        /\ rest = [j \in Jobs |-> <<>>]
        /\ size = [j \in Jobs |-> Absent]
        /\ got = [j \in Jobs |-> NoTree]
        /\ base = [j \in Jobs |-> NoTree]
        /\ spoilt = [j \in Jobs |-> FALSE]
        /\ cut = [j \in Jobs |-> {}]

\* InProcessTransport calls fileops itself.
Local(j)    == op[j].id = NoLock
Working(j)  == pc[j] \in {"work", "open"}
Excluded(j, k) == /\ op[j].id = op[k].id /\ ~Local(j)
                  /\ op[j].kind # "write" /\ op[k].kind # "write"
Disturbs(j, k) == k # j /\ Working(k) /\ ~Excluded(j, k)
Note(j) == spoilt' = [k \in Jobs |-> spoilt[k] \/ Disturbs(j, k)]
Goto(j, place) == pc' = [pc EXCEPT ![j] = place]

-----------------------------------------------------------------------------
\* run_in_threadpool: a thread takes the next request on; they are numbered in
\* the order in which that happens.
Start(j, o) ==
    /\ pc[j] = "pool" /\ \A k \in 1 .. j - 1 : pc[k] # "pool"
    /\ Cardinality({k \in Jobs : pc[k] = "lock" \/ Working(k)}) < Threads
    /\ op' = [op EXCEPT ![j] = o]
    /\ Goto(j, "lock")
    /\ UNCHANGED <<tree, holder, rest, size, got, base, spoilt, cut>>

\* Mutant: only what writes takes the lock.
LocksToWrite(j) == ~Local(j) /\ op[j].kind = "push"
Locks(j) == ~Local(j) /\ op[j].kind # "write"

\* What os.walk finds.
Listing == SetToSeq({f \in Files : tree[f] # Absent})

\* The lock is had (_with_user_lock), if there is one to take.
Acquire(j) ==
    /\ pc[j] = "lock"
    /\ Locks(j) => holder[op[j].id] = Absent
    /\ holder' = IF Locks(j) THEN [holder EXCEPT ![op[j].id] = j] ELSE holder
    /\ rest' = [rest EXCEPT ![j] = IF op[j].kind = "pull" THEN Listing ELSE op[j].files]
    /\ base' = [base EXCEPT ![j] = tree]
    /\ Goto(j, "work")
    /\ UNCHANGED <<tree, op, size, got, spoilt, cut>>

\* Mutant: an exception leaves the lock taken.
EndKeepingLock(j, result) ==
    /\ holder' = [i \in Ids |-> IF holder[i] = j /\ result = "ok" THEN Absent
                               ELSE holder[i]]
    /\ Goto(j, result)
    /\ op' = [op EXCEPT ![j] = Absent]
    /\ rest' = [rest EXCEPT ![j] = <<>>]
    /\ size' = [size EXCEPT ![j] = Absent]
    /\ got' = [got EXCEPT ![j] = NoTree]
    /\ base' = [base EXCEPT ![j] = NoTree]
    /\ spoilt' = [spoilt EXCEPT ![j] = FALSE]
    /\ cut' = [cut EXCEPT ![j] = {}]
    /\ UNCHANGED tree

\* The request returns or raises; leaving the with statement frees the lock,
\* and what was the request's own is gone.
End(j, result) ==
    /\ holder' = [i \in Ids |-> IF holder[i] = j THEN Absent ELSE holder[i]]
    /\ Goto(j, result)
    /\ op' = [op EXCEPT ![j] = Absent]
    /\ rest' = [rest EXCEPT ![j] = <<>>]
    /\ size' = [size EXCEPT ![j] = Absent]
    /\ got' = [got EXCEPT ![j] = NoTree]
    /\ base' = [base EXCEPT ![j] = NoTree]
    /\ spoilt' = [spoilt EXCEPT ![j] = FALSE]
    /\ cut' = [cut EXCEPT ![j] = {}]
    /\ UNCHANGED tree

Finish(j) == pc[j] = "work" /\ rest[j] = <<>> /\ End(j, "ok")

Name(j)    == Head(rest[j])
Handled(j) == rest' = [rest EXCEPT ![j] = Tail(@)] /\ Goto(j, "work")

-----------------------------------------------------------------------------
\* push_tar and write_file: the file is opened with O_TRUNC ...
Truncate(j) ==
    /\ pc[j] = "work" /\ op[j].kind # "pull"
    /\ rest[j] # <<>> /\ Name(j) # Unsafe
    /\ tree' = [tree EXCEPT ![Name(j)] = Empty]
    /\ Note(j) /\ Goto(j, "open")
    /\ UNCHANGED <<holder, op, rest, size, got, base, cut>>

\* ... and written.
Fill(j) ==
    /\ pc[j] = "open" /\ op[j].kind # "pull"
    /\ tree' = [tree EXCEPT ![Name(j)] = j]
    /\ cut' = [cut EXCEPT ![j] = @ \ {Name(j)}]
    /\ Note(j) /\ Handled(j)
    /\ UNCHANGED <<holder, op, size, got, base>>

\* The disk has room for a part: os.write says so, but nobody looks at what it
\* returns, and the request goes on.
ShortWrite(j) ==
    /\ pc[j] = "open" /\ op[j].kind # "pull"
    /\ tree' = [tree EXCEPT ![Name(j)] = Torn]
    /\ cut' = [cut EXCEPT ![j] = @ \cup {Name(j)}]
    /\ Note(j) /\ Handled(j)
    /\ UNCHANGED <<holder, op, size, got, base>>

\* Mutant: a member that cannot be written is skipped.
SkipFailed(j) == /\ Working(j) /\ op[j].kind # "pull" /\ rest[j] # <<>>
                 /\ Handled(j)
                 /\ UNCHANGED <<tree, holder, op, size, got, base, spoilt, cut>>

\* The disk is full, or a directory has the file's name.
WriteFails(j) == /\ Working(j) /\ op[j].kind # "pull" /\ rest[j] # <<>>
                 /\ End(j, "error")

\* A member of another type or with an unsafe name; what was extracted before
\* it stays.
Reject(j) == /\ pc[j] = "work" /\ rest[j] # <<>> /\ Name(j) = Unsafe
             /\ End(j, "error")

-----------------------------------------------------------------------------
\* pull_tar, tar.add: the size goes into the member's header ...
Stat(j) ==
    /\ pc[j] = "work" /\ op[j].kind = "pull" /\ rest[j] # <<>>
    /\ size' = [size EXCEPT ![j] = tree[Name(j)]]
    /\ Goto(j, "open")
    /\ UNCHANGED <<tree, holder, op, rest, got, base, spoilt, cut>>

\* ... and that many bytes are copied.  If the file was written meanwhile, it
\* may be as long as before, or longer, and then its beginning is taken.
Copies(j) == IF size[j] = Empty THEN {Empty}
             ELSE IF tree[Name(j)] = size[j] THEN {size[j]}
             ELSE IF tree[Name(j)] = Empty THEN {} ELSE {tree[Name(j)], Torn}
Copy(j) ==
    /\ pc[j] = "open" /\ op[j].kind = "pull"
    /\ \E c \in Copies(j) : got' = [got EXCEPT ![j][Name(j)] = c]
    /\ size' = [size EXCEPT ![j] = Absent]
    /\ Handled(j)
    /\ UNCHANGED <<tree, holder, op, base, spoilt, cut>>

\* It has become shorter: "unexpected end of data".
CopyFails(j) ==
    /\ pc[j] = "open" /\ op[j].kind = "pull"
    /\ size[j] # Empty /\ tree[Name(j)] # size[j]
    /\ End(j, "error")

Work(j) == \/ Finish(j) \/ Truncate(j) \/ Fill(j) \/ ShortWrite(j) \/ WriteFails(j)
           \/ Reject(j) \/ Stat(j) \/ Copy(j) \/ CopyFails(j)
Next == \E j \in Jobs : (\E o \in Ops : Start(j, o)) \/ Acquire(j) \/ Work(j)
Spec == Init /\ [][Next]_vars

\* Some request goes on as long as one can.
FairSpec == Spec /\ WF_vars(Next)

-----------------------------------------------------------------------------
Ends(j) == Working(j) /\ ~Working(j)'

\* "so concurrent same-user sessions can't clobber active/ or read a
\* half-written tree" (daemon/app.py:149), as far as one spelling of the id
\* and the lock reach: no writer makes such a pull fail, and what it brings is
\* the tree as it was when it began.
PullIsOneInstant ==
    [][ \A j \in Jobs :
          Ends(j) /\ op[j].kind = "pull" /\ ~spoilt[j] =>
              pc'[j] = "ok" /\ got[j] = base[j] ]_vars

\* In the same sense a push that is answered has left exactly its members on
\* top of what was there, each of them whole unless a full disk cut that one
\* short, which the answer does not tell; one that fails touches nothing else.
PushLandsExactly ==
    [][ \A j \in Jobs :
          Ends(j) /\ op[j].kind = "push" /\ ~spoilt[j] =>
              \A f \in Files :
                  IF f \in ToSet(op[j].files)
                  THEN pc'[j] = "ok" => tree[f] = (IF f \in cut[j] THEN Torn ELSE j)
                  ELSE tree[f] = base[j][f] ]_vars

\* Every request ends, whatever happened to the one before it under the lock.
RequestsEnd == \A j \in Jobs : pc[j] = "pool" ~> pc[j] \in {"ok", "error"}
=============================================================================
