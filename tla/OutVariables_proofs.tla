-------------------------- MODULE OutVariables_proofs --------------------------
(***************************************************************************)
(* The variables that OutProcess gives to terraform are those that the     *)
(* request asks for, for any number of files of variables.  What Combined  *)
(* makes of n files is found by induction on n, which needs no more than   *)
(* that a non-empty set of numbers has a least one.                        *)
(***************************************************************************)
EXTENDS OutProcess_proofs, WellFoundedInduction

LEMMA Least ==
    ASSUME NEW S \in SUBSET Nat, S # {}
    PROVE  \E m \in S : \A n \in S : m <= n
<1>1. PICK m \in S : \A n \in S : <<n, m>> \notin OpToRel(<, Nat)
  BY NatLessThanWellFounded, WFMin
<1>2. \A n \in S : <<n, m>> \in Nat \X Nat /\ ~(n < m)
  BY <1>1 DEF OpToRel
<1>3. m \in Nat /\ \A n \in S : n \in Nat /\ ~(n < m)
  BY <1>2
<1> QED
  BY <1>3

(* Induction over the numbers in a set. *)
LEMMA ByInduction ==
    ASSUME NEW S, 0 \in S, \A n \in Nat : n \in S => n + 1 \in S
    PROVE  Nat \subseteq S
<1> SUFFICES ASSUME Nat \ S # {} PROVE FALSE
  OBVIOUS
<1>1. PICK m \in Nat \ S : \A n \in Nat \ S : m <= n
  BY Least
<1>2. m - 1 \in Nat /\ m - 1 \in S
  BY <1>1
<1> QED
  BY <1>1, <1>2

-----------------------------------------------------------------------------
(* What Combined makes of some files. *)

(* The function that Combined defines for n files does exist.              *)
IsFold(f, s, n) == f = [i \in 0..n |-> IF i = 0 THEN <<>> ELSE MergeVars(f[i - 1], s[i])]
LEMMA FoldExists ==
    ASSUME NEW s
    PROVE  \A n \in Nat : \E f : IsFold(f, s, n)
<1> DEFINE S == {n \in Nat : \E f : IsFold(f, s, n)}
<1>1. 0 \in S
  <2> DEFINE f == [i \in 0..0 |-> <<>>]
  <2>1. IsFold(f, s, 0)
    BY DEF IsFold
  <2> QED
    BY <2>1
<1>2. ASSUME NEW n \in Nat, n \in S PROVE n + 1 \in S
  <2>1. PICK f : IsFold(f, s, n)
    BY <1>2
  <2> DEFINE g == [i \in 0..(n + 1) |-> IF i = n + 1 THEN MergeVars(f[n], s[i]) ELSE f[i]]
  <2>2. ASSUME NEW i \in 0..(n + 1) PROVE g[i] = IF i = 0 THEN <<>> ELSE MergeVars(g[i - 1], s[i])
    BY <2>1 DEF IsFold
  <2>3. IsFold(g, s, n + 1)
    BY <2>2 DEF IsFold
  <2> QED
    BY <2>3
<1> HIDE DEF S
<1>3. Nat \subseteq S
  BY <1>1, <1>2, ByInduction
<1> QED
  BY <1>3 DEF S

LEMMA CombinedIsFold ==
    ASSUME NEW s, Len(s) \in Nat
    PROVE  \E f : IsFold(f, s, Len(s)) /\ Combined(s) = f[Len(s)]
<1>0. \E f : f = [n \in 0..Len(s) |-> IF n = 0 THEN <<>> ELSE MergeVars(f[n - 1], s[n])]
  BY FoldExists, Zenon DEF IsFold
<1> DEFINE f == CHOOSE f : f = [n \in 0..Len(s) |-> IF n = 0 THEN <<>> ELSE MergeVars(f[n - 1], s[n])]
<1>1. f = [n \in 0..Len(s) |-> IF n = 0 THEN <<>> ELSE MergeVars(f[n - 1], s[n])]
  BY <1>0, Zenon
<1>2. Combined(s) = f[Len(s)]
  BY DEF Combined
<1>3. IsFold(f, s, Len(s))
  BY <1>1, Zenon DEF IsFold
<1> QED
  BY <1>2, <1>3

(* It has the keys of all the files, and of each key the value that the    *)
(* last file with that key gives it.                                       *)
LastWith(s, n, k, i) ==
    /\ i \in 1..n /\ k \in DOMAIN s[i]
    /\ \A j \in 1..n : k \in DOMAIN s[j] => j <= i
HasLast(all, s, n) ==
    /\ \A i \in 1..n : DOMAIN s[i] \subseteq DOMAIN all
    /\ \A k \in DOMAIN all : \E i \in 1..n : LastWith(s, n, k, i) /\ all[k] = s[i][k]
LEMMA LastFileWins ==
    ASSUME NEW s, NEW N \in Nat, NEW f, IsFold(f, s, N)
    PROVE  HasLast(f[N], s, N)
<1> DEFINE S == {n \in Nat : n <= N => HasLast(f[n], s, n)}
<1>1. 0 \in S
  <2>1. f[0] = <<>>
    BY DEF IsFold
  <2> QED
    BY <2>1 DEF HasLast
<1>2. ASSUME NEW n \in Nat, n \in S PROVE n + 1 \in S
  <2> SUFFICES ASSUME n + 1 <= N PROVE HasLast(f[n + 1], s, n + 1)
    OBVIOUS
  <2>1. HasLast(f[n], s, n)
    BY <1>2
  <2>2. f[n + 1] = MergeVars(f[n], s[n + 1])
    <3>1. n + 1 \in 0..N /\ n + 1 # 0 /\ (n + 1) - 1 = n
      OBVIOUS
    <3> QED
      BY <3>1 DEF IsFold
  <2>3. /\ DOMAIN f[n + 1] = DOMAIN s[n + 1] \cup DOMAIN f[n]
        /\ \A k \in DOMAIN s[n + 1] : f[n + 1][k] = s[n + 1][k]
        /\ \A k \in DOMAIN f[n] \ DOMAIN s[n + 1] : f[n + 1][k] = f[n][k]
    BY <2>2 DEF MergeVars
  <2>4. ASSUME NEW i \in 1..(n + 1) PROVE DOMAIN s[i] \subseteq DOMAIN f[n + 1]
    <3>1. CASE i = n + 1
      BY <2>3, <3>1
    <3>2. CASE i \in 1..n
      BY <2>1, <2>3, <3>2 DEF HasLast
    <3> QED
      BY <3>1, <3>2
  <2>5. ASSUME NEW k \in DOMAIN f[n + 1]
        PROVE  \E i \in 1..(n + 1) : LastWith(s, n + 1, k, i) /\ f[n + 1][k] = s[i][k]
    <3>1. CASE k \in DOMAIN s[n + 1]
      BY <2>3, <3>1 DEF LastWith
    <3>2. CASE k \notin DOMAIN s[n + 1]
      <4>1. PICK i \in 1..n : LastWith(s, n, k, i) /\ f[n][k] = s[i][k]
        BY <2>1, <2>3, <3>2 DEF HasLast
      <4>2. i \in 1..(n + 1) /\ LastWith(s, n + 1, k, i)
        BY <3>2, <4>1 DEF LastWith
      <4> QED
        BY <2>3, <3>2, <4>1, <4>2
    <3> QED
      BY <3>1, <3>2
  <2> QED
    BY <2>4, <2>5 DEF HasLast
<1> HIDE DEF S
<1>3. N \in S
  BY <1>1, <1>2, ByInduction
<1> QED
  BY <1>3 DEF S

LEMMA CombinedHasLast ==
    ASSUME NEW s, Len(s) \in Nat
    PROVE  HasLast(Combined(s), s, Len(s))
BY CombinedIsFold, LastFileWins

-----------------------------------------------------------------------------
(* What a put asks for. *)

LEMMA MergedModel ==
    ASSUME NEW r \in Requests
    PROVE  /\ Merge(r.source, r.params).vars = MergeVars(r.source.vars, r.params.vars)
           /\ Merge(r.source, r.params).varFiles = Given(r.source.varFiles, r.params.varFiles)
           /\ LET file == Files(Given(r.source.varFiles, r.params.varFiles))
              IN  file \in Seq(Range(file))
<1>1. \A m \in {r.source, r.params} : /\ {"vars", "varFiles"} \subseteq DOMAIN m
                                      /\ Files(m.varFiles) \in Seq(Range(Files(m.varFiles)))
  BY ModelsAssumption
<1>2. /\ Merge(r.source, r.params).vars = MergeVars(r.source.vars, r.params.vars)
      /\ Merge(r.source, r.params).varFiles = Given(r.source.varFiles, r.params.varFiles)
  BY <1>1 DEF Merge
<1> QED
  BY <1>1, <1>2 DEF Given

LEMMA AskedIsGiven ==
    ASSUME NEW r \in Requests
    PROVE  LET m == Merge(r.source, r.params)
           IN  /\ DOMAIN Variables(m) = AllKeys(r)
               /\ \A k \in AllKeys(r) : Variables(m)[k] = Asked(r, k)
<1> DEFINE m == Merge(r.source, r.params)
           file == Files(Given(r.source.varFiles, r.params.varFiles))
           s == ConvertVarFiles(m)
           all == Variables(m)
           own == MergeVars(r.source.vars, r.params.vars)
<1>1. file \in Seq(Range(file)) /\ m.vars = own /\ s = <<own>> \o file
  BY MergedModel DEF ConvertVarFiles
<1>2. /\ DOMAIN own = DOMAIN r.params.vars \cup DOMAIN r.source.vars
      /\ \A k \in DOMAIN own : own[k] = IF k \in DOMAIN r.params.vars THEN r.params.vars[k]
                                                                      ELSE r.source.vars[k]
  BY DEF MergeVars
<1>3. DOMAIN own \cup UNION {DOMAIN f : f \in Range(file)} = AllKeys(r)
  BY <1>2, Zenon DEF AllKeys
<1>a. \A k : Asked(r, k) = 
        LET has == {i \in DOMAIN file : k \in DOMAIN file[i]}
        IN  CASE has # {} -> file[CHOOSE i \in has : \A j \in has : j <= i][k]
              [] has = {} /\ k \in DOMAIN r.params.vars -> r.params.vars[k]
              [] OTHER -> r.source.vars[k]
  BY DEF Asked
<1> HIDE DEF m, file, own
<1>4. /\ Len(file) \in Nat /\ DOMAIN file = 1..Len(file)
      /\ Len(s) = Len(file) + 1
      /\ s[1] = own
      /\ \A i \in 1..Len(file) : s[i + 1] = file[i]
  BY <1>1
<1>5. HasLast(all, s, Len(s))
  <2>1. Len(s) \in Nat
    BY <1>4
  <2> QED
    BY <2>1, CombinedHasLast, Zenon DEF Variables
<1> HIDE DEF s, all
<1>6. ASSUME NEW i \in 2..Len(s)
      PROVE  i - 1 \in DOMAIN file /\ s[i] = file[i - 1]
  BY <1>4
<1>7. Range(file) = {file[i] : i \in 1..Len(file)}
  BY <1>4 DEF Range
<1>8. DOMAIN all = AllKeys(r)
  <2>1. ASSUME NEW k \in DOMAIN all PROVE k \in AllKeys(r)
    <3>1. PICK i \in 1..Len(s) : k \in DOMAIN s[i]
      BY <1>5 DEF HasLast, LastWith
    <3>2. CASE i = 1
      BY <1>3, <1>4, <3>1, <3>2
    <3>3. CASE i # 1
      <4>1. i - 1 \in 1..Len(file) /\ s[i] = file[i - 1]
        BY <1>4, <1>6, <3>3
      <4> QED
        BY <1>3, <1>7, <3>1, <4>1
    <3> QED
      BY <3>2, <3>3
  <2>2. DOMAIN own \subseteq DOMAIN all
    <3>1. 1 \in 1..Len(s)
      BY <1>4
    <3> QED
      BY <1>4, <1>5, <3>1 DEF HasLast
  <2>3. ASSUME NEW i \in 1..Len(file) PROVE DOMAIN file[i] \subseteq DOMAIN all
    <3>1. i + 1 \in 1..Len(s) /\ s[i + 1] = file[i]
      BY <1>4
    <3> QED
      BY <1>5, <3>1 DEF HasLast
  <2>4. AllKeys(r) \subseteq DOMAIN all
    BY <1>3, <1>7, <2>2, <2>3
  <2> QED
    BY <2>1, <2>4
<1>9. ASSUME NEW k \in AllKeys(r) PROVE all[k] = Asked(r, k)
  <2> DEFINE has == {i \in DOMAIN file : k \in DOMAIN file[i]}
  <2>1. PICK i \in 1..Len(s) : LastWith(s, Len(s), k, i) /\ all[k] = s[i][k]
    BY <1>5, <1>8 DEF HasLast
  <2>2. CASE i = 1
    <3>1. ASSUME NEW j \in 1..Len(file), k \in DOMAIN file[j] PROVE FALSE
      <4>1. j + 1 \in 1..Len(s) /\ k \in DOMAIN s[j + 1] /\ ~(j + 1 <= i)
        BY <1>4, <2>2, <3>1
      <4> QED
        BY <2>1, <4>1 DEF LastWith
    <3>2. has = {}
      BY <1>4, <3>1
    <3>3. k \in DOMAIN own /\ all[k] = own[k]
      BY <1>4, <2>1, <2>2 DEF LastWith
    <3> QED
      BY <1>2, <1>a, <3>2, <3>3
  <2>3. CASE i # 1
    <3>1. i - 1 \in 1..Len(file) /\ s[i] = file[i - 1]
      BY <1>4, <1>6, <2>3
    <3>2. i - 1 \in has
      BY <1>4, <2>1, <3>1 DEF LastWith
    <3>3. ASSUME NEW j \in has PROVE j \in Int /\ j <= i - 1
      <4>1. j + 1 \in 1..Len(s) /\ k \in DOMAIN s[j + 1]
        BY <1>4
      <4> QED
        BY <1>4, <2>1, <4>1 DEF LastWith
    <3> HIDE DEF has
    <3>4. (CHOOSE x \in has : \A j \in has : j <= x) = i - 1
      <4> DEFINE c == CHOOSE x \in has : \A j \in has : j <= x
      <4>1. c \in has /\ \A j \in has : j <= c
        BY <3>2, <3>3
      <4> HIDE DEF c
      <4>2. c = i - 1
        BY <3>2, <3>3, <4>1
      <4> QED
        BY <4>2 DEF c
    <3>5. Asked(r, k) = file[i - 1][k]
      BY <1>a, <3>2, <3>4 DEF has
    <3> QED
      BY <2>1, <3>1, <3>5
  <2> QED
    BY <2>2, <2>3
<1> QED
  BY <1>8, <1>9 DEF m, all

-----------------------------------------------------------------------------
(* A put that has read its request runs on the model that it has merged.   *)
Reads(p) ==
    pc[p] \in Alive \ {"validate", "build", "return"} =>
        opts[p] = Merge(req[p].source, req[p].params)
Merged == OutTypeOK /\ \A p \in Puts : Reads(p)

LEMMA QuietReads ==
    ASSUME OutTypeOK, NEW p \in Puts, Quiet(p), Reads(p)
    PROVE  Reads(p)'
<1>1. /\ pc \in [Puts -> Alive \cup {"idle", "done"}] /\ opts \in [Puts -> Models \cup {None}]
      /\ req' = req
  BY StepCases DEF OutTypeOK
<1>2. \A label : Goto(p, label) => pc'[p] = label
  BY <1>1 DEF Goto
<1>3. ASSUME pc'[p] \in {"build", "return", "done"} PROVE Reads(p)'
  BY <1>3 DEF Reads, Alive, Commands, Naming
<1>4. ASSUME pc[p] \notin {"idle", "validate", "build", "done"},
             UNCHANGED opts, pc'[p] = pc[p] \/ pc[p] # "return"
      PROVE  Reads(p)'
  BY <1>1, <1>4 DEF Reads
<1> USE <1>2 DEF At, Continue, Refused, Fails, container
<1>5. CASE Validate(p)
  BY <1>3, <1>5 DEF Validate
<1>6. CASE Build(p)
  <2> DEFINE m == Merge(req[p].source, req[p].params)
  <2>1. \/ opts' = [opts EXCEPT ![p] = m]
        \/ pc'[p] = "return"
    BY <1>6 DEF Build, Set
  <2> HIDE DEF m
  <2>2. CASE opts' = [opts EXCEPT ![p] = m]
    BY <1>1, <2>2 DEF Reads, m
  <2> QED
    BY <1>3, <2>1, <2>2
<1>7. CASE SpawnAgent(p) \/ AddKey(p) \/ Dispatch(p)
  BY <1>4, <1>7 DEF SpawnAgent, AddKey, Dispatch
<1>8. CASE Name(p) \/ Pick(p)
  BY <1>4, <1>8 DEF Name, Pick, Named
<1>9. CASE Return(p)
  <2>1. pc[p] = "return" /\ (pc' = pc \/ pc'[p] = "done")
    BY <1>9 DEF Return
  <2> QED
    BY <1>3, <2>1
<1> QED
  BY <1>5, <1>6, <1>7, <1>8, <1>9 DEF Quiet

LEMMA RunsReads ==
    ASSUME OutTypeOK, NEW p \in Puts, Runs(p), Reads(p)
    PROVE  Reads(p)'
<1>1. pc \in [Puts -> Alive \cup {"idle", "done"}] /\ UNCHANGED <<opts, req>>
  BY RunsMoves DEF OutTypeOK
<1>2. CASE pc' = pc
  BY <1>1, <1>2 DEF Reads
<1>3. CASE CommandReturns(p)
  <2>1. pc'[p] \in {AfterCommand(p), AfterError(p)}
    BY <1>1, <1>3 DEF CommandReturns, Goto
  <2>2. pc'[p] # "return" => pc[p] \in Alive \ {"validate", "build", "return"}
    BY <2>1 DEF AfterCommand, AfterError, Alive, Commands, Naming
  <2> QED
    BY <1>1, <2>2 DEF Reads
<1> QED
  BY <1>2, <1>3, RunsMoves

LEMMA MergedInvariant == Spec => []Merged
<1>1. Init => Merged
  BY InitTypes DEF Init, Merged, Reads, Alive, Commands, Naming
<1>2. Merged /\ [Next]_vars => Merged'
  <2> SUFFICES ASSUME Merged, [Next]_vars PROVE Merged'
    OBVIOUS
  <2>1. OutTypeOK
    BY DEF Merged
  <2>2. CASE UNCHANGED vars
    <3>1. OutTypeOK'
      BY <2>1, <2>2 DEF OutTypeOK, RunnerTypeOK, vars, runnerVars, container, backend
    <3> QED
      BY <2>2, <3>1 DEF Merged, Reads, vars, container
  <2>3. ASSUME NEW p \in Puts, Start(p) PROVE Merged'
    <3>1. \A q \in Puts : Reads(q)'
      <4>1. pc \in [Puts -> Alive \cup {"idle", "done"}] /\ UNCHANGED <<opts, req>>
        BY <2>1, <2>3 DEF OutTypeOK, Start, container
      <4>2. pc' = [pc EXCEPT ![p] = "validate"]
        BY <2>3 DEF Start, Goto
      <4> QED
        BY <4>1, <4>2 DEF Merged, Reads
    <3> QED
      BY <2>1, <2>3, <3>1, StartTypes DEF Merged
  <2>4. ASSUME NEW p \in Puts, Quiet(p) \/ Runs(p) PROVE Merged'
    <3>1. \A q \in Puts \ {p} : Reads(q)'
      BY <2>1, <2>4, OthersKept DEF Merged, Reads
    <3>2. Reads(p)'
      BY <2>1, <2>4, QuietReads, RunsReads DEF Merged
    <3> QED
      BY <2>1, <2>4, <3>1, <3>2, QuietTypes, RunsTypes DEF Merged
  <2> QED
    BY <2>2, <2>3, <2>4, NextCases
<1> QED
  BY <1>1, <1>2, PTL DEF Spec

(* Terraform gets a value for every variable that a request names, and for *)
(* none else; the value is that of the last of its files of variables with *)
(* that variable, else that of its params, else that of its source.        *)
THEOREM VariablesHavePrecedence == Spec => []VariablePrecedence
<1>1. Merged => VariablePrecedence
  <2> SUFFICES ASSUME Merged, NEW p \in Puts, pc[p] = "act"
               PROVE  /\ DOMAIN Variables(opts[p]) = AllKeys(req[p])
                      /\ \A k \in AllKeys(req[p]) : Variables(opts[p])[k] = Asked(req[p], k)
    BY DEF VariablePrecedence
  <2>1. req[p] \in Requests /\ opts[p] = Merge(req[p].source, req[p].params)
    BY DEF Merged, OutTypeOK, Reads, Alive, Commands
  <2> QED
    BY <2>1, AskedIsGiven
<1> QED
  BY <1>1, MergedInvariant, PTL
=============================================================================
