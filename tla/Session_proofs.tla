--------------------------- MODULE Session_proofs ---------------------------
(***************************************************************************)
(* Proofs about Session, for any users, variables and limits: SUDO gives   *)
(* root for one command, a killed process stays away, and PYTHON reads     *)
(* back the value assigned last.                                           *)
(***************************************************************************)
EXTENDS Session, SequenceTheorems, WellFoundedInduction, TLAPS

-----------------------------------------------------------------------------
(* Sequences.                                                              *)

(* A set of naturals that is not empty has a least element, and Min is it: *)
(* the least element is minimal for <, which is well-founded.              *)
LEMMA MinIsLeast ==
    ASSUME NEW S, S \subseteq Nat, S # {}
    PROVE  Min(S) \in S /\ \A y \in S : Min(S) <= y
  <1> DEFINE R == OpToRel(<, Nat)
  <1>0. R = {ss \in Nat \X Nat : ss[1] < ss[2]}
    BY DEF OpToRel
  <1>a. IsWellFoundedOn(R, Nat)
    BY NatLessThanWellFounded
  <1> HIDE DEF R
  <1>1. PICK x \in S : \A y \in S : ~(<<y, x>> \in R)
    BY WFMin, <1>a
  <1>2. \A y \in S : x <= y
    <2> TAKE y \in S
    <2> DEFINE p == <<y, x>>
    <2>1. p \notin {ss \in Nat \X Nat : ss[1] < ss[2]}
      BY <1>1, <1>0
    <2>2. p \in Nat \X Nat
      OBVIOUS
    <2>3. ~(p[1] < p[2])
      BY <2>1, <2>2
    <2>4. p[1] = y /\ p[2] = x
      OBVIOUS
    <2> QED
      BY <2>3, <2>4
  <1> QED
    BY <1>2 DEF Min
(* Removing a position moves the elements behind it up by one.             *)
LEMMA RemoveAtElements ==
    ASSUME NEW S, NEW s \in Seq(S), NEW i \in 1..Len(s)
    PROVE  /\ RemoveAt(s, i) \in Seq(S)
           /\ Len(RemoveAt(s, i)) = Len(s) - 1
           /\ \A j \in 1..(Len(s) - 1) : RemoveAt(s, i)[j] = IF j < i THEN s[j] ELSE s[j + 1]
  <1> DEFINE a == SubSeq(s, 1, i - 1)
             b == SubSeq(s, i + 1, Len(s))
  <1>0. Len(s) \in Nat /\ \A j \in 1..Len(s) : s[j] \in S
    OBVIOUS
  <1>1. /\ a \in Seq(S) /\ Len(a) = i - 1
        /\ \A j \in 1..(i - 1) : a[j] = s[j]
    BY <1>0
  <1>2. /\ b \in Seq(S) /\ Len(b) = Len(s) - i
        /\ \A j \in 1..(Len(s) - i) : b[j] = s[i + j]
    BY <1>0
  <1>3. RemoveAt(s, i) = a \o b
    BY DEF RemoveAt
  <1> HIDE DEF a, b
  <1>4. /\ a \o b \in Seq(S)
        /\ Len(a \o b) = Len(a) + Len(b)
        /\ \A j \in 1..(Len(a) + Len(b)) :
             (a \o b)[j] = IF j <= Len(a) THEN a[j] ELSE b[j - Len(a)]
    BY <1>1, <1>2, ConcatProperties
  <1> QED
    BY <1>0, <1>1, <1>2, <1>3, <1>4

(* SelectInSeq for equality finds an element that is there.                *)
LEMMA SelectFinds ==
    ASSUME NEW S, NEW s \in Seq(S), NEW e, \E i \in 1..Len(s) : s[i] = e
    PROVE  SelectInSeq(s, LAMBDA v : v = e) \in {i \in 1..Len(s) : s[i] = e}
  <1> DEFINE I == {i \in 1..Len(s) : s[i] = e}
  <1>1. I \subseteq Nat /\ I # {}
    OBVIOUS
  <1>2. Min(I) \in I
    BY <1>1, MinIsLeast
  <1>3. SelectInSeq(s, LAMBDA v : v = e) = IF I # {} THEN Min(I) ELSE 0
    BY DEF SelectInSeq
  <1> QED
    BY <1>1, <1>2, <1>3

(* Removing an element of a sequence without duplicates leaves the others. *)
LEMMA RemoveFirstElements ==
    ASSUME NEW S, NEW s \in Seq(S), NEW e, Contains(s, e),
           \A i, j \in 1..Len(s) : s[i] = s[j] => i = j
    PROVE  /\ RemoveFirst(s, e) \in Seq(S)
           /\ Range(RemoveFirst(s, e)) = Range(s) \ {e}
           /\ \A i, j \in 1..Len(RemoveFirst(s, e)) :
                RemoveFirst(s, e)[i] = RemoveFirst(s, e)[j] => i = j
  <1> DEFINE k == SelectInSeq(s, LAMBDA v : v = e)
             r == RemoveAt(s, k)
  <1>1. \E i \in 1..Len(s) : s[i] = e
    BY DEF Contains
  <1>2. k \in 1..Len(s) /\ s[k] = e
    BY <1>1, SelectFinds
  <1>3. RemoveFirst(s, e) = r
    BY <1>1 DEF RemoveFirst
  <1> HIDE DEF k
  <1>4. /\ r \in Seq(S)
        /\ Len(r) = Len(s) - 1
        /\ \A j \in 1..(Len(s) - 1) : r[j] = IF j < k THEN s[j] ELSE s[j + 1]
    BY <1>2, RemoveAtElements
  <1> HIDE DEF r
  <1>5. Len(s) \in Nat
    OBVIOUS
  <1>6. \A i, j \in 1..Len(r) : r[i] = r[j] => i = j
    BY <1>2, <1>4, <1>5
  <1>7. Range(s) = {s[i] : i \in 1..Len(s)} /\ Range(r) = {r[i] : i \in 1..Len(r)}
    BY <1>4, RangeEquality
  <1>8. ASSUME NEW x \in Range(r) PROVE x \in Range(s) /\ x # e
    <2>1. PICK j \in 1..Len(r) : x = r[j]
      BY <1>7
    <2>2. PICK i \in 1..Len(s) : x = s[i] /\ i # k
      BY <2>1, <1>2, <1>4, <1>5
    <2> QED
      BY <2>2, <1>2, <1>7
  <1>9. ASSUME NEW x \in Range(s), x # e PROVE x \in Range(r)
    <2>1. PICK i \in 1..Len(s) : x = s[i]
      BY <1>7
    <2>2. i # k
      BY <2>1, <1>2, <1>9
    <2>3. PICK j \in 1..Len(r) : x = r[j]
      <3>1. CASE i < k
        BY <3>1, <2>1, <1>2, <1>4, <1>5
      <3>2. CASE i > k
        <4>1. i - 1 \in 1..Len(r) /\ r[i - 1] = s[i]
          BY <3>2, <1>2, <1>4, <1>5
        <4> QED
          BY <4>1, <2>1
      <3> QED
        BY <2>2, <3>1, <3>2, <1>2
    <2> QED
      BY <2>3, <1>7
  <1> QED
    BY <1>3, <1>4, <1>6, <1>8, <1>9

(* The first entry of a name in a table of variables.                      *)
FirstNamed(s, v) == SelectInSeq(s, LAMBDA x : x.name = v)

(* It is the first one, or 0 when there is none.                           *)
LEMMA FirstNamedIsFirst ==
    ASSUME NEW S, NEW s \in Seq(S), NEW v
    PROVE  /\ FirstNamed(s, v) \in 0..Len(s)
           /\ FirstNamed(s, v) > 0 => /\ s[FirstNamed(s, v)].name = v
                                      /\ \A j \in 1..(FirstNamed(s, v) - 1) : s[j].name # v
           /\ FirstNamed(s, v) = 0 => \A j \in 1..Len(s) : s[j].name # v
  <1> DEFINE I == {i \in 1..Len(s) : s[i].name = v}
  <1>1. FirstNamed(s, v) = IF I # {} THEN Min(I) ELSE 0
    BY DEF FirstNamed, SelectInSeq
  <1>2. I \subseteq Nat
    OBVIOUS
  <1>3. CASE I = {}
    BY <1>1, <1>3
  <1>4. CASE I # {}
    <2> DEFINE m == Min(I)
    <2>1. m \in I /\ \A y \in I : m <= y
      BY <1>2, <1>4, MinIsLeast
    <2>2. FirstNamed(s, v) = m
      BY <1>1, <1>4
    <2> HIDE DEF m
    <2>3. m \in 1..Len(s) /\ s[m].name = v
      BY <2>1
    <2>4. ASSUME NEW j \in 1..(m - 1) PROVE s[j].name # v
      BY <2>1, <2>3
    <2> QED
      BY <2>2, <2>3, <2>4
  <1> QED
    BY <1>3, <1>4

-----------------------------------------------------------------------------
(* The inductive invariant.                                                *)

Entries == [name : Names, value : Values]

(* The argument of the line that is being run fits its command.            *)
ArgOK ==
    /\ name \in {"LOGIN", "USERADD", "USERDEL"} => arg \in Users
    /\ name = "KILL" => arg \in Pids

(* What SudoScoped needs between two prompts.  At most one cmd_sudo has    *)
(* switched to root, it did so for the user who entered the line, and      *)
(* behind it every further SUDO finds root.  Until it has switched, a line *)
(* of another user is still at one of its SUDOs and has run nothing, or    *)
(* is over.                                                                *)
SudoInv ==
    /\ given.sudos \in Nat /\ given.user \in Users
    /\ sudos <= given.sudos
    /\ at = "prompt" => saved_user = <<>>
    /\ at = "password" => sudos > 0 /\ saved_user = <<>> /\ current_user # root
    /\ saved_user # <<>> =>
         /\ saved_user = <<given.user>>
         /\ pwd_pos > 0 /\ given.sudos > 0
         /\ at = "dispatch" => current_user = root
    /\ at \in {"dispatch", "password"} /\ sudos > 0 /\ saved_user = <<>> =>
         current_user = given.user
    /\ given.sudos > 0 /\ given.user # root /\ saved_user = <<>> =>
         /\ current_user = given.user
         /\ at \in {"dispatch", "password"} => sudos > 0

(* The table has no pid twice, and is empty only before its first use.     *)
ProcessInv ==
    /\ \A i, j \in 1..Len(process_table) : process_table[i] = process_table[j] => i = j
    /\ process_table = <<>> => killed = {}
    /\ ProcessesStayKilled

VariableInv ==
    /\ variables \in Seq(Entries)
    /\ assigned \in [Names -> Values \cup {Unassigned}]
    /\ LatestValue

IInv == TypeOK /\ ArgOK /\ SudoInv /\ ProcessInv /\ VariableInv

-----------------------------------------------------------------------------
(* The first use of the process table fills it; after that it is itself.   *)
LEMMA EnsureFills ==
    ASSUME TypeOK, ProcessInv
    PROVE  LET table == ensure_processes_init
           IN  /\ table \in Seq(1..4) /\ table # <<>>
               /\ \A i, j \in 1..Len(table) : table[i] = table[j] => i = j
               /\ {1, 2} \subseteq Range(table)
               /\ killed \cap Range(table) = {}
  <1>1. CASE process_table = <<>>
    <2> DEFINE t == <<1, 2, 3, 4>>
    <2>1. t \in Seq(1..4) /\ Len(t) = 4 /\ t # <<>> /\ t[1] = 1 /\ t[2] = 2 /\ t[3] = 3 /\ t[4] = 4
      OBVIOUS
    <2> HIDE DEF t
    <2>2. Range(t) = {t[i] : i \in 1..Len(t)}
      BY <2>1, RangeEquality
    <2>3. {1, 2} \subseteq Range(t)
      BY <2>1, <2>2
    <2> QED
      BY <1>1, <2>1, <2>3 DEF ensure_processes_init, ProcessInv, t
  <1>2. CASE process_table # <<>>
    BY <1>2 DEF ensure_processes_init, ProcessInv, ProcessesStayKilled, TypeOK
  <1> QED
    BY <1>1, <1>2

(* KILL takes out one process that is not critical.                        *)
LEMMA KillStep ==
    ASSUME TypeOK, ArgOK, ProcessInv, cmd_kill
    PROVE  process_table' \in Seq(1..4) /\ ProcessInv'
  <1> DEFINE table == ensure_processes_init
  <1>1. /\ table \in Seq(1..4) /\ table # <<>>
        /\ \A i, j \in 1..Len(table) : table[i] = table[j] => i = j
        /\ {1, 2} \subseteq Range(table)
        /\ killed \cap Range(table) = {}
    BY EnsureFills
  <1> HIDE DEF table
  <1>2. CASE process_table' = table /\ UNCHANGED killed
    BY <1>1, <1>2 DEF ProcessInv, ProcessesStayKilled
  <1>3. CASE ~critical(arg) /\ Contains(table, arg) /\ process_table' = RemoveFirst(table, arg)
             /\ killed' = killed \cup {arg}
    <2>1. arg \in Pids
      BY DEF ArgOK, cmd_kill, Running
    <2>2. arg # 1 /\ arg # 2
      BY <1>3, <2>1 DEF critical, Pids
    <2>3. /\ process_table' \in Seq(1..4)
          /\ Range(process_table') = Range(table) \ {arg}
          /\ \A i, j \in 1..Len(process_table') : process_table'[i] = process_table'[j] => i = j
      BY <1>1, <1>3, RemoveFirstElements
    <2>4. {1, 2} \subseteq Range(process_table')
      BY <1>1, <2>2, <2>3
    <2>5. process_table' # <<>>
      BY <2>3, <2>4, RangeEquality, EmptySeq
    <2>6. killed' \cap Range(process_table') = {}
      BY <1>1, <1>3, <2>3
    <2> QED
      BY <2>3, <2>4, <2>5, <2>6 DEF ProcessInv, ProcessesStayKilled
  <1> QED
    BY <1>2, <1>3 DEF cmd_kill, table

(* Looking at the processes changes none.                                  *)
LEMMA PsStep ==
    ASSUME TypeOK, ProcessInv, cmd_ps
    PROVE  process_table' \in Seq(1..4) /\ ProcessInv'
  <1>1. LET table == ensure_processes_init
        IN  /\ table \in Seq(1..4) /\ table # <<>>
            /\ \A i, j \in 1..Len(table) : table[i] = table[j] => i = j
            /\ {1, 2} \subseteq Range(table)
            /\ killed \cap Range(table) = {}
    BY EnsureFills
  <1>2. process_table' = ensure_processes_init /\ killed' = killed
    BY DEF cmd_ps
  <1> QED
    BY <1>1, <1>2 DEF ProcessInv, ProcessesStayKilled

(* An assignment in PYTHON is the value read back, and loses no other one. *)
LEMMA AssignStep ==
    ASSUME TypeOK, VariableInv, NEW v \in Names, NEW n \in Values, python_assign(v, n)
    PROVE  VariableInv' /\ Len(variables') <= VarsMax
  <1> DEFINE e == [name |-> v, value |-> n]
             i == FirstNamed(variables, v)
             s == variables'
  <1>0. /\ variables \in Seq(Entries) /\ Len(variables) \in Nat /\ VarsMax \in Nat
        /\ Len(variables) <= VarsMax
    BY SessionAssumption DEF TypeOK, VariableInv
  <1>1. e \in Entries /\ \A j \in 1..Len(variables) : variables[j] \in Entries
    <2>1. e \in Entries
      BY DEF Entries
    <2> QED
      BY <1>0, <2>1, ElementOfSeq
  <1>2. /\ \A w \in Names : IndexOf(w) = FirstNamed(variables, w)
        /\ \A w \in Names : IndexOf(w)' = FirstNamed(s, w)
    BY DEF IndexOf, FirstNamed, SelectInSeq
  <1>3. /\ assigned' = [assigned EXCEPT ![v] = n]
        /\ assigned \in [Names -> Values \cup {Unassigned}]
        /\ assigned' \in [Names -> Values \cup {Unassigned}]
        /\ s = IF i > 0 THEN [variables EXCEPT ![i].value = n]
               ELSE IF Len(variables) < VarsMax THEN Append(variables, e) ELSE variables
    BY <1>2 DEF python_assign, VariableInv, Stored
  <1>4. \A w \in Names : assigned[w] # Unassigned =>
          IF FirstNamed(variables, w) > 0
          THEN variables[FirstNamed(variables, w)].value = assigned[w]
          ELSE Len(variables) = VarsMax
    BY <1>2 DEF VariableInv, LatestValue
  <1>5. SUFFICES /\ s \in Seq(Entries) /\ Len(s) <= VarsMax
                 /\ \A w \in Names : assigned'[w] # Unassigned =>
                      IF FirstNamed(s, w) > 0 THEN s[FirstNamed(s, w)].value = assigned'[w]
                      ELSE Len(s) = VarsMax
    BY <1>2, <1>3 DEF VariableInv, LatestValue
  <1>6. \A w : /\ FirstNamed(variables, w) \in 0..Len(variables)
               /\ FirstNamed(variables, w) > 0 =>
                    /\ variables[FirstNamed(variables, w)].name = w
                    /\ \A j \in 1..(FirstNamed(variables, w) - 1) : variables[j].name # w
               /\ FirstNamed(variables, w) = 0 => \A j \in 1..Len(variables) : variables[j].name # w
    BY <1>0, FirstNamedIsFirst
  <1>7. s \in Seq(Entries) =>
          \A w : /\ FirstNamed(s, w) \in 0..Len(s)
                 /\ FirstNamed(s, w) > 0 =>
                      /\ s[FirstNamed(s, w)].name = w
                      /\ \A j \in 1..(FirstNamed(s, w) - 1) : s[j].name # w
                 /\ FirstNamed(s, w) = 0 => \A j \in 1..Len(s) : s[j].name # w
    BY FirstNamedIsFirst
  <1> HIDE DEF s, i
  <1>8. CASE i > 0
    <2>1. i \in 1..Len(variables) /\ variables[i].name = v
      BY <1>6, <1>8, <1>0 DEF i
    <2>2. /\ s \in Seq(Entries) /\ Len(s) = Len(variables)
          /\ \A j \in 1..Len(s) : s[j].name = variables[j].name
          /\ \A j \in 1..Len(s) : s[j].value = IF j = i THEN n ELSE variables[j].value
      BY <1>0, <1>1, <1>3, <1>8, <2>1 DEF Entries
    <2>3. ASSUME NEW w \in Names PROVE FirstNamed(s, w) = FirstNamed(variables, w)
      BY <1>0, <1>6, <1>7, <2>2
    <2>4. FirstNamed(s, v) > 0 /\ s[FirstNamed(s, v)].value = assigned'[v]
      BY <1>3, <1>8, <2>1, <2>2, <2>3 DEF i
    <2>5. ASSUME NEW w \in Names, w # v, assigned'[w] # Unassigned
          PROVE  IF FirstNamed(s, w) > 0 THEN s[FirstNamed(s, w)].value = assigned'[w]
                 ELSE Len(s) = VarsMax
      <3>1. assigned'[w] = assigned[w] /\ assigned[w] # Unassigned
        BY <1>3, <2>5
      <3>2. FirstNamed(variables, w) # i
        BY <1>6, <1>8, <2>1, <2>5
      <3> QED
        BY <1>0, <1>4, <1>6, <2>2, <2>3, <3>1, <3>2
    <2> QED
      BY <1>0, <2>2, <2>4, <2>5
  <1>9. CASE i = 0 /\ Len(variables) < VarsMax
    <2>1. /\ s \in Seq(Entries) /\ Len(s) = Len(variables) + 1
          /\ \A j \in 1..Len(variables) : s[j] = variables[j]
          /\ s[Len(variables) + 1] = e
      BY <1>0, <1>1, <1>3, <1>9
    <2>2. FirstNamed(s, v) = Len(variables) + 1
      BY <1>0, <1>6, <1>7, <1>9, <2>1 DEF i
    <2>3. ASSUME NEW w \in Names, w # v PROVE FirstNamed(s, w) = FirstNamed(variables, w)
      BY <1>0, <1>6, <1>7, <2>1, <2>3
    <2> QED
      BY <1>0, <1>3, <1>4, <1>6, <1>9, <2>1, <2>2, <2>3
  <1>10. CASE i = 0 /\ ~(Len(variables) < VarsMax)
    <2>1. s = variables /\ Len(variables) = VarsMax
      BY <1>0, <1>3, <1>10
    <2> QED
      BY <1>0, <1>3, <1>4, <1>10, <2>1 DEF i
  <1>11. i \in 0..Len(variables)
    BY <1>6 DEF i
  <1> QED
    BY <1>0, <1>8, <1>9, <1>10, <1>11

-----------------------------------------------------------------------------
(* The first prompt: no line has been run yet.                             *)
LEMMA InvInit == Init => IInv
  <1> SUFFICES ASSUME Init PROVE IInv
    OBVIOUS
  <1>1. TypeOK
    BY SessionAssumption DEF Init, TypeOK
  <1>2. ArgOK /\ SudoInv
    BY SessionAssumption DEF Init, ArgOK, SudoInv, NoArg
  <1>3. ProcessInv
    BY RangeEquality, EmptySeq DEF Init, ProcessInv, ProcessesStayKilled
  <1>4. VariableInv
    BY EmptySeq DEF Init, VariableInv, LatestValue
  <1> QED
    BY <1>1, <1>2, <1>3, <1>4 DEF IInv

(* A step that leaves the process table alone keeps what is said of it.    *)
LEMMA ProcessesUnchanged ==
    ASSUME TypeOK, ProcessInv, UNCHANGED <<process_table, killed>>
    PROVE  ProcessInv' /\ process_table' \in Seq(1..4)
  BY DEF TypeOK, ProcessInv, ProcessesStayKilled

(* The same for the variables.                                             *)
LEMMA VariablesUnchanged ==
    ASSUME TypeOK, VariableInv, UNCHANGED <<variables, assigned>>
    PROVE  VariableInv' /\ Len(variables') <= VarsMax
  <1>1. \A v \in Names : IndexOf(v)' = IndexOf(v)
    BY DEF IndexOf, SelectInSeq
  <1> QED
    BY <1>1 DEF TypeOK, VariableInv, LatestValue

(* PYTHON starts, and leaves, with no variables.                           *)
LEMMA NoVariables ==
    ASSUME variables' = <<>>, assigned' = [v \in Names |-> Unassigned]
    PROVE  VariableInv' /\ Len(variables') <= VarsMax
  BY SessionAssumption, EmptySeq DEF VariableInv, LatestValue

(* Every step keeps the user that a SUDO has to put back, the processes    *)
(* and the variables.                                                      *)
LEMMA InvStep == IInv /\ [Next]_vars => IInv'
  <1> SUFFICES ASSUME IInv, [Next]_vars PROVE IInv'
    OBVIOUS
  <1> USE SessionAssumption DEF IInv, TypeOK, ArgOK, SudoInv, command, login
  <1>1. CASE enter_line
    BY <1>1, ProcessesUnchanged, VariablesUnchanged DEF enter_line, Enter, NoArg, NoCommand, Other
  <1>2. CASE cmd_dispatch
    BY <1>2, ProcessesUnchanged, VariablesUnchanged DEF cmd_dispatch, Running
  <1>3. CASE cmd_login
    BY <1>3, ProcessesUnchanged, VariablesUnchanged DEF cmd_login, Running
  <1>4. CASE cmd_logout
    BY <1>4, ProcessesUnchanged, VariablesUnchanged DEF cmd_logout, Running
  <1>5. CASE cmd_useradd
    BY <1>5, ProcessesUnchanged, VariablesUnchanged DEF cmd_useradd, Running
  <1>6. CASE cmd_userdel
    BY <1>6, ProcessesUnchanged, VariablesUnchanged DEF cmd_userdel, Running
  <1>7. CASE cmd_ps
    BY <1>7, PsStep, VariablesUnchanged DEF cmd_ps, Running
  <1>8. CASE cmd_kill
    BY <1>8, KillStep, VariablesUnchanged DEF cmd_kill, Running
  <1>9. CASE cmd_sudo
    BY <1>9, ProcessesUnchanged, VariablesUnchanged DEF cmd_sudo
  <1>10. CASE password_key
    BY <1>10, ProcessesUnchanged, VariablesUnchanged DEF password_key
  <1>11. CASE password_escape
    BY <1>11, ProcessesUnchanged, VariablesUnchanged DEF password_escape
  <1>12. CASE password_end
    <2>1. <<current_user>> \o saved_user = <<current_user>>
      BY <1>12 DEF password_end
    <2> QED
      <3>1. CASE pwd_pos = 0
        BY <1>12, <3>1, ProcessesUnchanged, VariablesUnchanged DEF password_end
      <3>2. CASE pwd_pos # 0
        <4>1. /\ saved_user' = <<current_user>> /\ current_user' = root /\ at' = "dispatch"
              /\ sudos' = sudos - 1 /\ UNCHANGED <<name, arg, users, pwd_pos, given>>
          BY <1>12, <3>2, <2>1 DEF password_end
        <4>2. ProcessInv' /\ process_table' \in Seq(1..4) /\ VariableInv' /\ Len(variables') <= VarsMax
          BY <1>12, ProcessesUnchanged, VariablesUnchanged DEF password_end
        <4>3. saved_user = <<>> /\ sudos > 0 /\ current_user # root
          BY <1>12 DEF password_end
        <4>4. current_user = given.user /\ given.sudos > 0
          BY <1>12, <4>3 DEF password_end
        <4>5. SudoInv'
          BY <4>1, <4>3, <4>4, <3>2
        <4> QED
          BY <4>1, <4>2, <4>3, <4>5
      <3> QED
        BY <3>1, <3>2
  <1>13. CASE command_returns
    BY <1>13, ProcessesUnchanged, VariablesUnchanged DEF command_returns
  <1>14. CASE cmd_python
    BY <1>14, NoVariables, ProcessesUnchanged DEF cmd_python, Running
  <1>15. CASE python_exit
    BY <1>15, NoVariables, ProcessesUnchanged DEF python_exit
  <1>16. ASSUME NEW v \in Names, NEW n \in Values, python_assign(v, n) PROVE IInv'
    BY <1>16, AssignStep, ProcessesUnchanged DEF python_assign
  <1>17. CASE UNCHANGED vars
    BY <1>17, ProcessesUnchanged, VariablesUnchanged DEF vars
  <1> QED
    BY <1>1, <1>2, <1>3, <1>4, <1>5, <1>6, <1>7, <1>8, <1>9, <1>10, <1>11, <1>12, <1>13, <1>14,
       <1>15, <1>16, <1>17 DEF Next

(* The conjunction of the parts is an invariant.                           *)
THEOREM InvCorrect == Spec => []IInv
  BY InvInit, InvStep, PTL DEF Spec

(* SUDO gives root for one command and no longer (cmd_sudo puts the user   *)
(* back whatever the command was and however it ended), whatever users     *)
(* there are and however many SUDOs a line has.                            *)
THEOREM SudoCorrect == Spec => []SudoScoped
  <1>1. IInv => SudoScoped
    BY DEF IInv, SudoInv, SudoScoped, TypeOK, Last
  <1> QED
    BY <1>1, InvCorrect, PTL

(* A process that KILL has removed is never in the table again: the table  *)
(* is filled only when it is empty, and KERNEL and SHELL cannot be killed. *)
THEOREM KillCorrect == Spec => []ProcessesStayKilled
  <1>1. IInv => ProcessesStayKilled
    BY DEF IInv, ProcessInv
  <1> QED
    BY <1>1, InvCorrect, PTL

(* A variable of PYTHON reads back as the value assigned last, for any     *)
(* number of variables and any size of the table.                          *)
THEOREM VariablesCorrect == Spec => []LatestValue
  <1>1. IInv => LatestValue
    BY DEF IInv, VariableInv
  <1> QED
    BY <1>1, InvCorrect, PTL

=============================================================================
