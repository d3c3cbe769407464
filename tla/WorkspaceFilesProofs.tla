------------------------ MODULE WorkspaceFilesProofs ------------------------
(***************************************************************************)
(* What the lock of one spelling of a user's id gives, for any number of   *)
(* requests, names and threads: PullIsOneInstant and PushLandsExactly.       *)
(***************************************************************************)
EXTENDS WorkspaceFiles, FiniteSetTheorems, TLAPS

Contents == Jobs \cup {Absent, Empty, Torn} \cup {t[f] : t \in Trees, f \in Files}
Names    == Files \cup {Unsafe}

\* A request is known from its start on, an open file is one of the tree, and
\* a pull finds nothing else.
Shape(j) ==
    /\ pc[j] \in {"lock", "work", "open"} => op[j] \in Ops
    /\ pc[j] = "open" => rest[j] # <<>> /\ Name(j) \in Files
    /\ Working(j) /\ op[j].kind = "pull" => ToSet(rest[j]) \subseteq Files

TypeOK ==
    /\ tree \in [Files -> Contents]
    /\ holder \in [Ids -> Jobs \cup {Absent}]
    /\ pc \in [Jobs -> {"pool", "lock", "work", "open", "ok", "error"}]
    /\ op \in [Jobs -> Ops \cup {Absent}]
    /\ rest \in [Jobs -> Seq(Names)]
    /\ size \in [Jobs -> Contents]
    /\ got \in [Jobs -> [Files -> Contents]]
    /\ base \in [Jobs -> [Files -> Contents]]
    /\ spoilt \in [Jobs -> BOOLEAN]
    /\ cut \in [Jobs -> SUBSET Files]
    /\ \A j \in Jobs : Shape(j)

\* Who works under a lock holds it.
LockOK == \A j \in Jobs : Working(j) /\ Locks(j) => holder[op[j].id] = j

\* What a pull that nothing spoilt knows of the tree: it has not changed, what
\* is still to be read is there, and the rest is as it was.
PullOK(j) ==
    /\ tree = base[j]
    /\ \A f \in Files \ ToSet(rest[j]) : got[j][f] = base[j][f]
    /\ pc[j] = "open" => size[j] = tree[Name(j)]

\* What a push that nothing spoilt knows of it: names that are not its own are
\* as they were, and those it has handled are its own now, whole or cut short.
PushOK(j) ==
    /\ ToSet(rest[j]) \subseteq ToSet(op[j].files)
    /\ \A f \in Files \ ToSet(op[j].files) : tree[f] = base[j][f]
    /\ \A f \in (Files \cap ToSet(op[j].files)) \ ToSet(rest[j]) :
          tree[f] = IF f \in cut[j] THEN Torn ELSE j

Alone(j) ==
    /\ Working(j) /\ ~spoilt[j] /\ op[j].kind = "pull" => PullOK(j)
    /\ Working(j) /\ ~spoilt[j] /\ op[j].kind = "push" => PushOK(j)
    /\ pc[j] \in {"pool", "lock"} => got[j] = NoTree

-----------------------------------------------------------------------------
\* The names that are left when the first one is done.
LEMMA TailNames ==
    ASSUME NEW S, NEW s \in Seq(S), s # <<>>
    PROVE  /\ Head(s) \in S /\ Tail(s) \in Seq(S)
           /\ ToSet(s) = {Head(s)} \cup ToSet(Tail(s))
           /\ Head(s) \in ToSet(s)
<1>1. /\ Len(s) \in Nat /\ Len(s) >= 1 /\ DOMAIN s = 1 .. Len(s)
      /\ Tail(s) \in Seq(S) /\ Len(Tail(s)) = Len(s) - 1
      /\ DOMAIN Tail(s) = 1 .. Len(s) - 1
      /\ \A i \in 1 .. Len(s) - 1 : Tail(s)[i] = s[i + 1]
      /\ Head(s) = s[1] /\ s[1] \in S
  OBVIOUS
<1>2. ASSUME NEW i \in 1 .. Len(s) PROVE s[i] \in {Head(s)} \cup ToSet(Tail(s))
  <2>1. CASE i = 1
    BY <1>1, <2>1
  <2>2. CASE i # 1
    <3>1. i - 1 \in 1 .. Len(s) - 1 /\ Tail(s)[i - 1] = s[(i - 1) + 1] /\ (i - 1) + 1 = i
      BY <1>1, <2>2
    <3> QED
      BY <1>1, <3>1 DEF ToSet
  <2> QED
    BY <2>1, <2>2
<1>3. ASSUME NEW i \in 1 .. Len(s) - 1 PROVE Tail(s)[i] \in ToSet(s)
  <2>1. i + 1 \in 1 .. Len(s) /\ Tail(s)[i] = s[i + 1]
    BY <1>1
  <2> QED
    BY <1>1, <2>1 DEF ToSet
<1>4. 1 \in 1 .. Len(s)
  BY <1>1
<1>5. Head(s) \in ToSet(s)
  BY <1>1, <1>4 DEF ToSet
<1> QED
  BY <1>1, <1>2, <1>3, <1>5 DEF ToSet

\* SetToSeq lists every member of a finite set.
LEMMA Listed ==
    ASSUME NEW S, IsFiniteSet(S)
    PROVE  SetToSeq(S) \in Seq(S) /\ ToSet(SetToSeq(S)) = S
<1> DEFINE n == Cardinality(S)
           f == SetToSeq(S)
<1>0. n \in Nat
  BY FS_CardinalityType
<1>1. PICK b \in Bijection(1 .. n, S) : TRUE
  BY FS_CardinalityType DEF ExistsBijection
<1>2. \E g \in [1 .. n -> S] : IsInjective(g)
  BY <1>1 DEF Bijection, Injection, IsInjective
<1>3. f \in [1 .. n -> S] /\ IsInjective(f)
  BY <1>2 DEF SetToSeq
<1>4. f \in Injection(1 .. n, S)
  BY <1>3 DEF Injection, IsInjective
<1>5. Cardinality(1 .. n) = n
  BY <1>0, FS_Interval
<1>6. f \in Surjection(1 .. n, S)
  BY <1>4, <1>5, FS_Injection
<1>7. ToSet(f) = S
  BY <1>3, <1>6 DEF Surjection, ToSet
<1>8. f \in Seq(S)
  BY <1>0, <1>3
<1> QED
  BY <1>7, <1>8

LEMMA OpShape ==
    ASSUME TypeOK, NEW j \in Jobs, pc[j] \in {"lock", "work", "open"}
    PROVE  /\ op[j] \in Ops /\ op[j].id \in Ids
           /\ op[j].kind \in {"push", "pull", "write"}
           /\ op[j].files \in Seq(Names)
<1>1. op[j] \in Ops
  BY DEF TypeOK, Shape
<1> QED
  BY <1>1, OpsAssumption DEF IsOp, Ids, Names

\* Of two requests that work at the same time neither excludes the other: if
\* their locks did, they would be one.
LEMMA NoneExcluded ==
    ASSUME TypeOK, LockOK, NEW j \in Jobs, NEW k \in Jobs, j # k,
           Working(j), Working(k)
    PROVE  Disturbs(j, k)
<1> SUFFICES ASSUME Excluded(j, k) PROVE FALSE
  BY DEF Disturbs
<1>1. op[j].id = op[k].id /\ Locks(j) /\ Locks(k)
  BY DEF Excluded, Locks, Local
<1> QED
  BY <1>1 DEF LockOK

-----------------------------------------------------------------------------
LEMMA EndKeepsTypes ==
    ASSUME TypeOK, NEW j \in Jobs, NEW r \in {"ok", "error"}, End(j, r)
    PROVE  TypeOK'
<1>1. Absent \in Contents /\ NoTree \in [Files -> Contents]
  BY DEF Contents, NoTree
<1>2. holder' \in [Ids -> Jobs \cup {Absent}]
  BY DEF TypeOK, End
<1>3. rest' \in [Jobs -> Seq(Names)] /\ size' \in [Jobs -> Contents]
      /\ got' \in [Jobs -> [Files -> Contents]] /\ base' \in [Jobs -> [Files -> Contents]]
  BY <1>1 DEF TypeOK, End
<1>4. /\ pc' \in [Jobs -> {"pool", "lock", "work", "open", "ok", "error"}]
      /\ op' \in [Jobs -> Ops \cup {Absent}] /\ spoilt' \in [Jobs -> BOOLEAN]
      /\ tree' = tree /\ cut' \in [Jobs -> SUBSET Files]
  BY DEF TypeOK, End, Goto
<1>5. pc'[j] = r /\ \A k \in Jobs \ {j} : pc'[k] = pc[k] /\ op'[k] = op[k] /\ rest'[k] = rest[k]
  BY DEF TypeOK, End, Goto
<1> QED
  BY <1>2, <1>3, <1>4, <1>5 DEF TypeOK, Shape, Name, Working

LEMMA StartKeepsTypes ==
    ASSUME TypeOK, NEW j \in Jobs, NEW o \in Ops, Start(j, o)
    PROVE  TypeOK'
BY DEF TypeOK, Shape, Start, Goto, Name, Working

LEMMA AcquireKeepsTypes ==
    ASSUME TypeOK, NEW j \in Jobs, Acquire(j)
    PROVE  /\ TypeOK'
           /\ op[j].kind = "pull" => ToSet(rest'[j]) = {f \in Files : tree[f] # Absent}
<1>1. /\ Listing \in Seq(Files)
      /\ ToSet(Listing) = {f \in Files : tree[f] # Absent}
  <2> DEFINE S == {f \in Files : tree[f] # Absent}
  <2>1. IsFiniteSet(S)
    BY TreesAssumption, FS_Subset
  <2>2. SetToSeq(S) \in Seq(S) /\ ToSet(SetToSeq(S)) = S
    BY <2>1, Listed
  <2> QED
    BY <2>2 DEF Listing
<1>2. Listing \in Seq(Names)
  BY <1>1 DEF Names
<1>3. op[j].files \in Seq(Names) /\ op[j].id \in Ids
  BY OpShape DEF Acquire
<1>4. rest' \in [Jobs -> Seq(Names)]
  BY <1>2, <1>3 DEF Acquire, TypeOK
<1>5. rest'[j] = IF op[j].kind = "pull" THEN Listing ELSE op[j].files
  BY DEF Acquire, TypeOK
<1>6. holder' \in [Ids -> Jobs \cup {Absent}]
  BY DEF Acquire, TypeOK
<1>7. /\ pc' = [pc EXCEPT ![j] = "work"] /\ base' = [base EXCEPT ![j] = tree]
      /\ \A k \in Jobs \ {j} : rest'[k] = rest[k]
      /\ pc[j] = "lock" /\ UNCHANGED <<tree, op, size, got, spoilt, cut>>
  BY DEF Acquire, Goto, TypeOK
<1>8. TypeOK'
  BY <1>1, <1>4, <1>5, <1>6, <1>7 DEF TypeOK, Shape, Name, Working
<1> QED
  BY <1>1, <1>5, <1>8

\* The steps on a name: the tree takes some content there, or none, and the
\* request goes on.
LEMMA NameInFiles ==
    ASSUME TypeOK, NEW j \in Jobs, rest[j] # <<>>
    PROVE  /\ Name(j) \in Names /\ Tail(rest[j]) \in Seq(Names)
           /\ Name(j) \in ToSet(rest[j])
           /\ ToSet(rest[j]) = {Name(j)} \cup ToSet(Tail(rest[j]))
BY TailNames DEF TypeOK, Name

LEMMA HandledKeepsTypes ==
    ASSUME TypeOK, NEW j \in Jobs, Handled(j), rest[j] # <<>>,
           tree' \in [Files -> Contents], size' \in [Jobs -> Contents],
           got' \in [Jobs -> [Files -> Contents]], spoilt' \in [Jobs -> BOOLEAN],
           cut' \in [Jobs -> SUBSET Files],
           pc[j] \in {"work", "open"},
           UNCHANGED <<holder, op, base>>
    PROVE  TypeOK'
<1>1. Tail(rest[j]) \in Seq(Names)
  BY NameInFiles
<1>2. rest' \in [Jobs -> Seq(Names)] /\ pc' \in [Jobs -> {"pool", "lock", "work", "open", "ok", "error"}]
  BY <1>1 DEF Handled, Goto, TypeOK
<1>3. pc'[j] = "work" /\ \A k \in Jobs \ {j} : pc'[k] = pc[k] /\ rest'[k] = rest[k]
  BY DEF Handled, Goto, TypeOK
<1>4. ToSet(Tail(rest[j])) \subseteq ToSet(rest[j]) /\ rest'[j] = Tail(rest[j])
  BY NameInFiles DEF Handled, TypeOK
<1> QED
  BY <1>2, <1>3, <1>4 DEF TypeOK, Shape, Name, Working

LEMMA OpenKeepsTypes ==
    ASSUME TypeOK, NEW j \in Jobs, Goto(j, "open"), rest[j] # <<>>, Name(j) \in Files,
           tree' \in [Files -> Contents], size' \in [Jobs -> Contents],
           spoilt' \in [Jobs -> BOOLEAN], pc[j] = "work",
           UNCHANGED <<holder, op, rest, got, base, cut>>
    PROVE  TypeOK'
<1>1. pc' \in [Jobs -> {"pool", "lock", "work", "open", "ok", "error"}]
  BY DEF Goto, TypeOK
<1>2. pc'[j] = "open" /\ \A k \in Jobs \ {j} : pc'[k] = pc[k]
  BY DEF Goto, TypeOK
<1> QED
  BY <1>1, <1>2 DEF TypeOK, Shape, Name, Working

-----------------------------------------------------------------------------
(***************************************************************************)
(* What a step of one request does to another.                             *)
(***************************************************************************)
LEMMA OthersStay ==
    ASSUME TypeOK, NEW j \in Jobs, NEW k \in Jobs, k # j,
           \/ \E o \in Ops : Start(j, o)
           \/ Acquire(j) \/ Work(j)
    PROVE  /\ pc'[k] = pc[k] /\ op'[k] = op[k] /\ rest'[k] = rest[k]
           /\ size'[k] = size[k] /\ got'[k] = got[k] /\ base'[k] = base[k]
           /\ cut'[k] = cut[k]
           /\ \/ tree' = tree /\ spoilt'[k] = spoilt[k]
              \/ spoilt'[k] = (spoilt[k] \/ Disturbs(j, k)) /\ Working(j)
<1> USE DEF TypeOK, Goto
<1>1. ASSUME NEW o \in Ops, Start(j, o)
      PROVE  /\ pc'[k] = pc[k] /\ op'[k] = op[k]
             /\ UNCHANGED <<tree, rest, size, got, base, spoilt, cut>>
  BY <1>1 DEF Start
<1>2. ASSUME Acquire(j)
      PROVE  /\ pc'[k] = pc[k] /\ rest'[k] = rest[k] /\ base'[k] = base[k]
             /\ UNCHANGED <<tree, op, size, got, spoilt, cut>>
  BY <1>2 DEF Acquire
<1>3. ASSUME NEW r, End(j, r)
      PROVE  /\ pc'[k] = pc[k] /\ op'[k] = op[k] /\ rest'[k] = rest[k]
             /\ size'[k] = size[k] /\ got'[k] = got[k] /\ base'[k] = base[k]
             /\ tree' = tree /\ spoilt'[k] = spoilt[k] /\ cut'[k] = cut[k]
  BY <1>3 DEF End
<1>4. CASE Finish(j) \/ WriteFails(j) \/ Reject(j) \/ CopyFails(j)
  BY <1>3, <1>4 DEF Finish, WriteFails, Reject, CopyFails
<1>5. CASE Truncate(j) \/ Fill(j) \/ ShortWrite(j)
  BY <1>5 DEF Truncate, Fill, ShortWrite, Note, Handled, Working
<1>6. CASE Stat(j) \/ Copy(j)
  BY <1>6 DEF Stat, Copy, Handled
<1> QED
  BY <1>1, <1>2, <1>4, <1>5, <1>6 DEF Work

LEMMA OthersAlone ==
    ASSUME TypeOK, LockOK, NEW j \in Jobs, NEW k \in Jobs, k # j, Alone(k),
           \/ \E o \in Ops : Start(j, o)
           \/ Acquire(j) \/ Work(j)
    PROVE  Alone(k)'
<1>1. /\ pc'[k] = pc[k] /\ op'[k] = op[k] /\ rest'[k] = rest[k]
      /\ size'[k] = size[k] /\ got'[k] = got[k] /\ base'[k] = base[k]
      /\ cut'[k] = cut[k]
      /\ \/ tree' = tree /\ spoilt'[k] = spoilt[k]
         \/ spoilt'[k] = (spoilt[k] \/ Disturbs(j, k)) /\ Working(j)
  BY OthersStay
<1>2. CASE tree' = tree /\ spoilt'[k] = spoilt[k]
  BY <1>1, <1>2 DEF Alone, PullOK, PushOK, Working, Name
<1>3. CASE spoilt'[k] = (spoilt[k] \/ Disturbs(j, k)) /\ Working(j)
  <2>1. Working(k) => spoilt'[k]
    BY <1>3, NoneExcluded
  <2> QED
    BY <1>1, <2>1 DEF Alone, Working
<1> QED
  BY <1>1, <1>2, <1>3

-----------------------------------------------------------------------------
LEMMA SpoiltType ==
    ASSUME TypeOK, NEW j \in Jobs, Work(j)
    PROVE  spoilt' \in [Jobs -> BOOLEAN]
<1>1. spoilt \in [Jobs -> BOOLEAN]
  BY DEF TypeOK
<1>2. \A k \in Jobs : Disturbs(j, k) \in BOOLEAN
  BY DEF Disturbs
<1>3. CASE UNCHANGED spoilt
  BY <1>1, <1>3
<1>4. CASE Note(j)
  BY <1>1, <1>2, <1>4 DEF Note
<1>6. CASE \E r \in {"ok", "error"} : End(j, r)
  BY <1>1, <1>6 DEF End
<1> QED
  BY <1>3, <1>4, <1>6
  DEF Work, Finish, Truncate, Fill, ShortWrite, WriteFails, Reject, Stat, Copy, CopyFails

LEMMA TypeStep ==
    ASSUME TypeOK, [Next]_vars
    PROVE  TypeOK'
<1>1. ASSUME NEW j \in Jobs, Work(j) PROVE TypeOK'
  <2>0. /\ Empty \in Contents /\ j \in Contents /\ Torn \in Contents /\ Absent \in Contents
        /\ tree \in [Files -> Contents] /\ spoilt' \in [Jobs -> BOOLEAN]
    BY <1>1, SpoiltType DEF Contents, TypeOK
  <2>1. CASE Finish(j) \/ WriteFails(j) \/ Reject(j) \/ CopyFails(j)
    BY <2>1, EndKeepsTypes DEF Finish, WriteFails, Reject, CopyFails
  <2>2. CASE Truncate(j)
    <3>1. Name(j) \in Files
      BY <2>2, NameInFiles DEF Truncate, Names
    <3>2. /\ Goto(j, "open") /\ rest[j] # <<>> /\ pc[j] = "work"
          /\ tree' \in [Files -> Contents] /\ size' \in [Jobs -> Contents]
          /\ UNCHANGED <<holder, op, rest, got, base, cut>>
      BY <2>0, <2>2 DEF Truncate, TypeOK
    <3> QED
      BY <2>0, <3>1, <3>2, OpenKeepsTypes
  <2>3. CASE Fill(j) \/ ShortWrite(j)
    <3>1. rest[j] # <<>>
      BY <2>3 DEF Fill, ShortWrite, TypeOK, Shape
    <3>2. Name(j) \in Files /\ cut \in [Jobs -> SUBSET Files]
      BY <2>3 DEF Fill, ShortWrite, TypeOK, Shape
    <3>3. /\ Handled(j) /\ pc[j] \in {"work", "open"}
          /\ UNCHANGED <<holder, op, size, got, base>>
      BY <2>3 DEF Fill, ShortWrite
    <3>4. tree' \in [Files -> Contents]
      BY <2>0, <2>3 DEF Fill, ShortWrite
    <3>5. cut' \in [Jobs -> SUBSET Files]
      BY <2>3, <3>2 DEF Fill, ShortWrite
    <3>6. size' \in [Jobs -> Contents] /\ got' \in [Jobs -> [Files -> Contents]]
      BY <3>3 DEF TypeOK
    <3> QED
      BY <2>0, <3>1, <3>3, <3>4, <3>5, <3>6, HandledKeepsTypes
  <2>4. CASE Stat(j)
    <3>1. Name(j) \in Files
      BY <2>4, NameInFiles DEF Stat, TypeOK, Shape, Working
    <3>2. /\ Goto(j, "open") /\ rest[j] # <<>> /\ pc[j] = "work"
          /\ tree' \in [Files -> Contents] /\ size' \in [Jobs -> Contents]
          /\ UNCHANGED <<holder, op, rest, got, base, cut>>
      BY <2>0, <2>4, <3>1 DEF Stat, TypeOK
    <3> QED
      BY <2>0, <3>1, <3>2, OpenKeepsTypes
  <2>5. CASE Copy(j)
    <3>1. rest[j] # <<>> /\ Name(j) \in Files
      BY <2>5 DEF Copy, TypeOK, Shape
    <3>2. \A c \in Copies(j) : c \in Contents
      BY <2>0, <3>1 DEF Copies, TypeOK
    <3>3. got' \in [Jobs -> [Files -> Contents]]
      BY <2>5, <3>1, <3>2 DEF Copy, TypeOK
    <3>4. /\ Handled(j) /\ pc[j] \in {"work", "open"}
          /\ tree' \in [Files -> Contents] /\ size' \in [Jobs -> Contents]
          /\ cut' \in [Jobs -> SUBSET Files]
          /\ UNCHANGED <<holder, op, base>>
      BY <2>0, <2>5 DEF Copy, TypeOK
    <3> QED
      BY <2>0, <3>1, <3>3, <3>4, HandledKeepsTypes
  <2> QED
    BY <1>1, <2>1, <2>2, <2>3, <2>4, <2>5 DEF Work
<1>2. CASE UNCHANGED vars
  BY <1>2 DEF vars, TypeOK, Shape, Name, Working
<1> QED
  BY <1>1, <1>2, StartKeepsTypes, AcquireKeepsTypes DEF Next

LEMMA LockStep ==
    ASSUME TypeOK, LockOK, [Next]_vars
    PROVE  LockOK'
<1> SUFFICES ASSUME NEW k \in Jobs, Working(k)', Locks(k)'
             PROVE  holder'[op'[k].id] = k
  BY DEF LockOK
<1>1. ASSUME Working(k), op'[k] = op[k], holder' = holder
      PROVE  holder'[op'[k].id] = k
  BY <1>1 DEF LockOK, Locks, Local
<1>2. ASSUME NEW j \in Jobs, NEW o \in Ops, Start(j, o)
      PROVE  holder'[op'[k].id] = k
  BY <1>1, <1>2 DEF Start, Goto, TypeOK, Working
<1>3. ASSUME NEW j \in Jobs, Acquire(j)
      PROVE  holder'[op'[k].id] = k
  <2>1. op' = op /\ op[j].id \in Ids
    BY <1>3, OpShape DEF Acquire
  <2>2. CASE k = j
    BY <1>3, <2>1, <2>2 DEF Acquire, TypeOK, Locks, Local
  <2>3. CASE k # j
    <3>1. Working(k) /\ Locks(k)
      BY <1>3, <2>1, <2>3 DEF Acquire, Goto, TypeOK, Working, Locks, Local
    <3>2. holder[op[k].id] = k /\ k # Absent
      BY <3>1, NamesAssumption DEF LockOK
    <3>3. Locks(j) => op[j].id # op[k].id
      BY <1>3, <3>2 DEF Acquire
    <3> QED
      BY <1>3, <2>1, <3>2, <3>3 DEF Acquire, TypeOK
  <2> QED
    BY <2>2, <2>3
<1>4. ASSUME NEW j \in Jobs, NEW r \in {"ok", "error"}, End(j, r)
      PROVE  holder'[op'[k].id] = k
  <2>1. k # j
    BY <1>4 DEF End, Goto, TypeOK, Working
  <2>2. Working(k) /\ op'[k] = op[k] /\ Locks(k)
    BY <1>4, <2>1 DEF End, Goto, TypeOK, Working, Locks, Local
  <2>3. op[k].id \in Ids /\ holder[op[k].id] = k
    BY <2>2, OpShape DEF LockOK, Working
  <2> QED
    BY <1>4, <2>1, <2>2, <2>3 DEF End
<1>5. ASSUME NEW j \in Jobs,
             \/ Truncate(j) \/ Fill(j) \/ ShortWrite(j) \/ Stat(j) \/ Copy(j)
      PROVE  holder'[op'[k].id] = k
  BY <1>1, <1>5
  DEF Truncate, Fill, ShortWrite, Stat, Copy, Handled, Goto, TypeOK, Working
<1>6. CASE UNCHANGED vars
  BY <1>1, <1>6 DEF vars, Working
<1> QED
  BY <1>2, <1>3, <1>4, <1>5, <1>6
  DEF Next, Work, Finish, WriteFails, Reject, CopyFails

-----------------------------------------------------------------------------
(***************************************************************************)
(* What a step of a request does to itself.                                *)
(***************************************************************************)
LEMMA BeginAlone ==
    ASSUME TypeOK, NEW j \in Jobs, Alone(j),
           (\E o \in Ops : Start(j, o)) \/ Acquire(j)
    PROVE  Alone(j)'
<1>1. ASSUME NEW o \in Ops, Start(j, o) PROVE Alone(j)'
  BY <1>1 DEF TypeOK, Start, Goto, Alone, Working
<1>2. ASSUME Acquire(j) PROVE Alone(j)'
  <2>1. /\ pc[j] = "lock" /\ pc'[j] = "work" /\ tree' = tree /\ op' = op
        /\ base'[j] = tree /\ got'[j] = got[j]
        /\ rest'[j] = IF op[j].kind = "pull" THEN Listing ELSE op[j].files
    BY <1>2 DEF TypeOK, Acquire, Goto
  <2>2. op[j].kind = "pull" => PullOK(j)'
    <3> SUFFICES ASSUME op[j].kind = "pull" PROVE PullOK(j)'
      OBVIOUS
    <3>1. ToSet(rest'[j]) = {f \in Files : tree[f] # Absent}
      BY <1>2, AcquireKeepsTypes
    <3>2. got[j] = NoTree
      BY <2>1 DEF Alone
    <3>3. \A f \in Files \ ToSet(rest'[j]) : got'[j][f] = base'[j][f]
      BY <2>1, <3>1, <3>2 DEF NoTree
    <3> QED
      BY <2>1, <3>3 DEF PullOK
  <2>3. op[j].kind = "push" => PushOK(j)'
    BY <2>1 DEF PushOK
  <2> QED
    BY <2>1, <2>2, <2>3 DEF Alone
<1> QED
  BY <1>1, <1>2

LEMMA PullAlone ==
    ASSUME TypeOK, NEW j \in Jobs, Alone(j), Stat(j) \/ Copy(j)
    PROVE  Alone(j)'
<1>1. /\ Working(j) /\ op[j].kind = "pull" /\ op'[j] = op[j] /\ rest[j] # <<>>
      /\ tree' = tree /\ spoilt'[j] = spoilt[j] /\ base' = base
      /\ pc'[j] \in {"work", "open"}
  BY DEF TypeOK, Shape, Stat, Copy, Handled, Goto, Working
<1> SUFFICES ASSUME ~spoilt[j] PROVE PullOK(j)'
  BY <1>1 DEF Alone
<1>2. PullOK(j)
  BY <1>1 DEF Alone
<1>3. CASE Stat(j)
  <2>1. /\ size'[j] = tree[Name(j)] /\ rest' = rest /\ got' = got
    BY <1>3 DEF TypeOK, Stat
  <2> QED
    BY <1>1, <1>2, <2>1 DEF PullOK, Name
<1>4. CASE Copy(j)
  <2>1. size[j] = tree[Name(j)] /\ Name(j) \in Files
    BY <1>2, <1>4 DEF PullOK, Copy, TypeOK, Shape
  <2>2. \A c \in Copies(j) : c = tree[Name(j)]
    BY <2>1 DEF Copies
  <2>3. got'[j] = [got[j] EXCEPT ![Name(j)] = tree[Name(j)]]
    BY <1>4, <2>2 DEF Copy, TypeOK
  <2>4. rest'[j] = Tail(rest[j]) /\ pc'[j] = "work"
    BY <1>4 DEF Copy, Handled, Goto, TypeOK
  <2>5. ToSet(rest[j]) = {Name(j)} \cup ToSet(Tail(rest[j]))
    BY <1>1, NameInFiles
  <2>6. \A f \in Files \ ToSet(rest'[j]) : got'[j][f] = base'[j][f]
    BY <1>1, <1>2, <2>1, <2>3, <2>4, <2>5 DEF PullOK, TypeOK
  <2> QED
    BY <1>1, <1>2, <2>4, <2>6 DEF PullOK
<1> QED
  BY <1>3, <1>4

LEMMA PushAlone ==
    ASSUME TypeOK, NEW j \in Jobs, Alone(j), Truncate(j) \/ Fill(j) \/ ShortWrite(j)
    PROVE  Alone(j)'
<1>1. /\ Working(j) /\ op[j].kind # "pull" /\ op'[j] = op[j] /\ rest[j] # <<>>
      /\ base' = base /\ pc'[j] \in {"work", "open"}
      /\ Name(j) \in Files
  <2>1. rest[j] # <<>>
    BY DEF TypeOK, Shape, Truncate, Fill, ShortWrite
  <2>2. Name(j) \in Files
    BY <2>1, NameInFiles DEF TypeOK, Shape, Truncate, Fill, ShortWrite, Names
  <2> QED
    BY <2>1, <2>2 DEF TypeOK, Truncate, Fill, ShortWrite, Handled, Goto, Working
<1> SUFFICES ASSUME ~spoilt'[j], op[j].kind = "push" PROVE PushOK(j)'
  BY <1>1 DEF Alone
<1>3. ~spoilt[j] /\ Disturbs(j, j) = FALSE
  BY DEF Truncate, Fill, ShortWrite, Note, Disturbs
<1>4. PushOK(j)
  BY <1>1, <1>3 DEF Alone
<1>5. /\ Name(j) \in ToSet(rest[j])
      /\ ToSet(rest[j]) = {Name(j)} \cup ToSet(Tail(rest[j]))
  BY <1>1, NameInFiles
<1>6. CASE Truncate(j)
  <2>1. rest' = rest /\ cut' = cut /\ tree' = [tree EXCEPT ![Name(j)] = Empty]
    BY <1>6 DEF Truncate
  <2> QED
    BY <1>1, <1>4, <1>5, <2>1 DEF PushOK, TypeOK
<1>7. CASE Fill(j)
  <2>1. /\ rest'[j] = Tail(rest[j]) /\ cut'[j] = cut[j] \ {Name(j)}
        /\ tree' = [tree EXCEPT ![Name(j)] = j]
    BY <1>7 DEF Fill, Handled, TypeOK
  <2> QED
    BY <1>1, <1>4, <1>5, <2>1 DEF PushOK, TypeOK
<1>8. CASE ShortWrite(j)
  <2>1. /\ rest'[j] = Tail(rest[j]) /\ cut'[j] = cut[j] \cup {Name(j)}
        /\ tree' = [tree EXCEPT ![Name(j)] = Torn]
    BY <1>8 DEF ShortWrite, Handled, TypeOK
  <2> QED
    BY <1>1, <1>4, <1>5, <2>1 DEF PushOK, TypeOK
<1> QED
  BY <1>6, <1>7, <1>8

LEMMA EndAlone ==
    ASSUME TypeOK, NEW j \in Jobs, NEW r \in {"ok", "error"}, End(j, r)
    PROVE  Alone(j)'
BY DEF TypeOK, End, Goto, Alone, Working

AllAlone == \A j \in Jobs : Alone(j)

LEMMA AloneStep ==
    ASSUME TypeOK, LockOK, AllAlone, [Next]_vars
    PROVE  AllAlone'
<1> SUFFICES ASSUME NEW k \in Jobs PROVE Alone(k)'
  BY DEF AllAlone
<1>1. Alone(k)
  BY DEF AllAlone
<1>2. ASSUME NEW j \in Jobs, j # k,
             (\E o \in Ops : Start(j, o)) \/ Acquire(j) \/ Work(j)
      PROVE  Alone(k)'
  BY <1>1, <1>2, OthersAlone
<1>3. CASE (\E o \in Ops : Start(k, o)) \/ Acquire(k)
  BY <1>1, <1>3, BeginAlone
<1>4. CASE Work(k)
  BY <1>1, <1>4, PullAlone, PushAlone, EndAlone
  DEF Work, Finish, WriteFails, Reject, CopyFails
<1>5. CASE UNCHANGED vars
  BY <1>1, <1>5 DEF vars, Alone, PullOK, PushOK, Working, Name
<1> QED
  BY <1>2, <1>3, <1>4, <1>5 DEF Next

-----------------------------------------------------------------------------
LEMMA InitHolds == Init => TypeOK /\ LockOK /\ AllAlone
<1> SUFFICES ASSUME Init PROVE TypeOK /\ LockOK /\ AllAlone
  OBVIOUS
<1>1. tree \in [Files -> Contents]
  <2>1. tree \in Trees /\ tree = [f \in Files |-> tree[f]]
    BY TreesAssumption DEF Init
  <2>2. \A f \in Files : tree[f] \in Contents
    BY <2>1 DEF Contents
  <2> QED
    BY <2>1, <2>2
<1>2. Absent \in Contents /\ NoTree \in [Files -> Contents] /\ <<>> \in Seq(Names)
  BY DEF Contents, NoTree
<1>3. \A j \in Jobs : pc[j] = "pool"
  BY DEF Init
<1>4. TypeOK
  BY <1>1, <1>2, <1>3 DEF Init, TypeOK, Shape, Working
<1>5. LockOK
  BY <1>3 DEF LockOK, Working
<1>6. AllAlone
  BY <1>3 DEF Init, AllAlone, Alone, Working
<1> QED
  BY <1>4, <1>5, <1>6

\* TypeOK: what is open is a name of the tree, and a pull meets no other.
THEOREM TypesHold == Spec => []TypeOK
<1>1. Init => TypeOK
  BY InitHolds
<1> QED
  BY <1>1, TypeStep, PTL DEF Spec

\* LockOK (_with_user_lock): whoever works under the lock of a user's id holds
\* it, and is alone there.
THEOREM LocksExclude == Spec => []LockOK
<1>1. Init => LockOK
  BY InitHolds
<1>2. TypeOK /\ LockOK /\ [Next]_vars => LockOK'
  BY LockStep
<1> QED
  BY <1>1, <1>2, TypesHold, PTL DEF Spec

LEMMA AloneHolds == Spec => []AllAlone
<1>1. Init => AllAlone
  BY InitHolds
<1>2. TypeOK /\ LockOK /\ AllAlone /\ [Next]_vars => AllAlone'
  BY AloneStep
<1> QED
  BY <1>1, <1>2, TypesHold, LocksExclude, PTL DEF Spec

\* The steps in which a request ends.
LEMMA EndingSteps ==
    ASSUME TypeOK, NEW j \in Jobs, [Next]_vars, Ends(j)
    PROVE  \/ Finish(j) /\ pc'[j] = "ok"
           \/ (WriteFails(j) \/ Reject(j) \/ CopyFails(j)) /\ pc'[j] = "error"
<1>1. Working(j) /\ ~Working(j)'
  BY DEF Ends
<1>2. ASSUME NEW k \in Jobs, k # j,
             (\E o \in Ops : Start(k, o)) \/ Acquire(k) \/ Work(k)
      PROVE  FALSE
  BY <1>1, <1>2, OthersStay DEF Working
<1>3. (\E o \in Ops : Start(j, o)) \/ Acquire(j) => FALSE
  BY <1>1 DEF Start, Acquire, Working
<1>4. Truncate(j) \/ Fill(j) \/ ShortWrite(j) \/ Stat(j) \/ Copy(j) => FALSE
  BY <1>1 DEF Truncate, Fill, ShortWrite, Stat, Copy, Handled, Goto, Working, TypeOK
<1>5. UNCHANGED vars => FALSE
  BY <1>1 DEF vars, Working
<1>6. ASSUME NEW r, End(j, r) PROVE pc'[j] = r
  BY <1>6 DEF End, Goto, TypeOK
<1> QED
  BY <1>2, <1>3, <1>4, <1>5, <1>6
  DEF Next, Work, Finish, WriteFails, Reject, CopyFails

\* PullIsOneInstant (daemon/app.py, _with_user_lock around pull_tar): a pull
\* nobody outside its lock disturbs does not fail, and brings the tree as it
\* was when it began.
THEOREM PullsAreOneInstant == Spec => PullIsOneInstant
<1>1. TypeOK /\ AllAlone /\ [Next]_vars =>
        [ \A j \in Jobs :
            Ends(j) /\ op[j].kind = "pull" /\ ~spoilt[j] =>
              pc'[j] = "ok" /\ got[j] = base[j] ]_vars
  <2> SUFFICES ASSUME TypeOK, AllAlone, [Next]_vars, NEW j \in Jobs,
                      Ends(j), op[j].kind = "pull", ~spoilt[j]
               PROVE  pc'[j] = "ok" /\ got[j] = base[j]
    OBVIOUS
  <2>1. Working(j) /\ PullOK(j)
    BY DEF Ends, AllAlone, Alone
  <2>2. ~WriteFails(j)
    BY DEF WriteFails
  <2>3. ~Reject(j)
    <3> SUFFICES ASSUME Reject(j) PROVE FALSE
      OBVIOUS
    <3>1. Unsafe \in ToSet(rest[j])
      BY NameInFiles DEF Reject
    <3> QED
      BY <2>1, <3>1, NamesAssumption DEF TypeOK, Shape
  <2>4. ~CopyFails(j)
    BY <2>1 DEF CopyFails, PullOK
  <2>5. Finish(j) /\ pc'[j] = "ok"
    BY <2>2, <2>3, <2>4, EndingSteps
  <2>6. ToSet(rest[j]) = {}
    BY <2>5 DEF Finish, ToSet
  <2>7. \A f \in Files : got[j][f] = base[j][f]
    BY <2>1, <2>6 DEF PullOK
  <2>8. got[j] = base[j]
    BY <2>7 DEF TypeOK
  <2> QED
    BY <2>5, <2>8
<1> QED
  BY <1>1, TypesHold, AloneHolds, PTL DEF Spec, PullIsOneInstant

\* PushLandsExactly (push_tar under the same lock): a push nobody outside its
\* lock disturbs leaves exactly its members when it is answered, whole but for
\* those a full disk cut short, and touches nothing else when it fails.
THEOREM PushesLandExactly == Spec => PushLandsExactly
<1>1. TypeOK /\ AllAlone /\ [Next]_vars =>
        [ \A j \in Jobs :
            Ends(j) /\ op[j].kind = "push" /\ ~spoilt[j] =>
              \A f \in Files :
                  IF f \in ToSet(op[j].files)
                  THEN pc'[j] = "ok" => tree[f] = (IF f \in cut[j] THEN Torn ELSE j)
                  ELSE tree[f] = base[j][f] ]_vars
  <2> SUFFICES ASSUME TypeOK, AllAlone, [Next]_vars, NEW j \in Jobs,
                      Ends(j), op[j].kind = "push", ~spoilt[j], NEW f \in Files
               PROVE  IF f \in ToSet(op[j].files)
                      THEN pc'[j] = "ok" => tree[f] = (IF f \in cut[j] THEN Torn ELSE j)
                      ELSE tree[f] = base[j][f]
    OBVIOUS
  <2>1. Working(j) /\ PushOK(j)
    BY DEF Ends, AllAlone, Alone
  <2>2. ASSUME pc'[j] = "ok" PROVE ToSet(rest[j]) = {}
    BY <2>2, EndingSteps DEF Finish, ToSet
  <2> QED
    BY <2>1, <2>2 DEF PushOK
<1> QED
  BY <1>1, TypesHold, AloneHolds, PTL DEF Spec, PushLandsExactly
=============================================================================
