------------------------------ MODULE Session ------------------------------
(***************************************************************************)
(* What the commands of commands.c keep in memory between two prompts: the *)
(* current user, the users one can log in as and the table of processes;   *)
(* and the two commands that run others or read lines of their own, SUDO   *)
(* and PYTHON.                                                             *)
(*                                                                         *)
(* A command line is a command behind any number of SUDOs.  Nothing asks   *)
(* for a password but SUDO, which takes any that is not empty.  What the   *)
(* other commands print is left out.                                       *)
(***************************************************************************)
EXTENDS Integers, Sequences, SequencesExt

CONSTANTS
    root, Users,      \* user names
    Names, Values,    \* of variables in PYTHON
    Unassigned,       \* no value
    VarsMax,          \* 16
    PasswordMax,      \* 31
    MaxSudos          \* bound: SUDOs on a line

ASSUME SessionAssumption ==
    /\ root \in Users
    /\ Unassigned \notin Values
    /\ {VarsMax, PasswordMax, MaxSudos} \subseteq Nat \ {0}

VARIABLES
    at,            \* "prompt", "dispatch", "password", "python" or "return"
    sudos, name, arg,      \* the rest of the line that is being run
    current_user, users,   \* the user table, in any order
    saved_user,    \* one entry for each cmd_sudo that has switched to root
    pwd_pos,       \* characters of the password
    process_table, \* pids
    variables,     \* var_names and var_values
    given,         \* history: the SUDOs the line had, and who ran it
    killed,        \* history: pids that KILL has removed
    assigned       \* history: the latest assignments in PYTHON

command == <<sudos, name, arg>>
login == <<current_user, users>>
vars == <<at, command, login, saved_user, pwd_pos, process_table, variables, given, killed, assigned>>

Pids == 0..5
NoArg == "none"
NoCommand == "none"
Other == "other"     \* a command that changes nothing here, or none of the table

TypeOK ==
    /\ at \in {"prompt", "dispatch", "password", "python", "return"}
    /\ sudos \in 0..MaxSudos
    /\ current_user \in Users /\ users \subseteq Users
    /\ saved_user \in Seq(Users) /\ Len(saved_user) <= 1
    /\ pwd_pos \in 0..PasswordMax
    /\ process_table \in Seq(1..4)
    /\ Len(variables) <= VarsMax

Init ==
    /\ at = "prompt" /\ sudos = 0 /\ name = NoArg /\ arg = NoArg
    /\ current_user = root /\ users = {root}
    /\ saved_user = <<>> /\ pwd_pos = 0
    /\ process_table = <<>>
    /\ variables = <<>>
    /\ given = [sudos |-> 0, user |-> root]
    /\ killed = {}
    /\ assigned = [v \in Names |-> Unassigned]

-----------------------------------------------------------------------------
(* The shell hands a line to cmd_dispatch.                                 *)
Enter(n, c, a) ==
    /\ at = "prompt"
    /\ at' = "dispatch" /\ sudos' = n /\ name' = c /\ arg' = a
    /\ given' = [sudos |-> n, user |-> current_user]
    /\ UNCHANGED <<login, saved_user, pwd_pos, process_table, variables, killed, assigned>>

(* The shell turns the line into capitals first, and names are compared    *)
(* with their case: no line names root, and only LOGOUT goes back to it.   *)
enter_line ==
    \E n \in 0..MaxSudos :
      \/ \E c \in {"LOGIN", "USERADD", "USERDEL"}, u \in Users \ {root} : Enter(n, c, u)
      \/ \E pid \in Pids : Enter(n, "KILL", pid)
      \/ \E c \in {"LOGOUT", "PS", "PYTHON", Other, NoCommand} : Enter(n, c, NoArg)

Running(c) == at = "dispatch" /\ sudos = 0 /\ name = c

(* An empty line, a command that is not in the table, or another command.  *)
cmd_dispatch ==
    /\ Running(NoCommand) \/ Running(Other)
    /\ at' = "return"
    /\ UNCHANGED <<command, login, saved_user, pwd_pos, process_table, variables, given, killed,
                   assigned>>

-----------------------------------------------------------------------------
(* Users.                                                                  *)

cmd_login ==
    /\ Running("LOGIN") /\ at' = "return"
    /\ current_user' = IF arg \in users THEN arg ELSE current_user
    /\ UNCHANGED <<command, users, saved_user, pwd_pos, process_table, variables, given, killed,
                   assigned>>

cmd_logout ==
    /\ Running("LOGOUT") /\ at' = "return"
    /\ current_user' = root
    /\ UNCHANGED <<command, users, saved_user, pwd_pos, process_table, variables, given, killed,
                   assigned>>

(* The user table is modelled with its limit and its sectors in FileSystem. *)
cmd_useradd ==
    /\ Running("USERADD") /\ at' = "return"
    /\ users' = users \cup {arg}
    /\ UNCHANGED <<command, current_user, saved_user, pwd_pos, process_table, variables, given, killed,
                   assigned>>

(* Deleting the current user does not log it out.                          *)
cmd_userdel ==
    /\ Running("USERDEL") /\ at' = "return"
    /\ users' = users \ {arg}
    /\ UNCHANGED <<command, current_user, saved_user, pwd_pos, process_table, variables, given, killed,
                   assigned>>

-----------------------------------------------------------------------------
(* Processes: KERNEL, SHELL, NETSVC and DISPSVC, made when first looked at. *)

ensure_processes_init == IF process_table = <<>> THEN <<1, 2, 3, 4>> ELSE process_table

cmd_ps ==
    /\ Running("PS") /\ at' = "return"
    /\ process_table' = ensure_processes_init
    /\ UNCHANGED <<command, login, saved_user, pwd_pos, variables, given, killed, assigned>>

(* Mutation: only the kernel is protected.                                 *)
critical_kernel(pid) == pid < 2

critical(pid) == pid <= 2

cmd_kill ==
    /\ Running("KILL") /\ at' = "return"
    /\ LET table == ensure_processes_init
       IN  IF critical(arg) \/ ~Contains(table, arg)
           THEN process_table' = table /\ UNCHANGED killed
           ELSE /\ process_table' = RemoveFirst(table, arg)
                /\ killed' = killed \cup {arg}
    /\ UNCHANGED <<command, login, saved_user, pwd_pos, variables, given, assigned>>

-----------------------------------------------------------------------------
(* SUDO.  Root runs the rest of the line at once; nothing to run is an     *)
(* error before the password is asked for.                                 *)

cmd_sudo ==
    /\ at = "dispatch" /\ sudos > 0
    /\ \/ /\ sudos = 1 /\ name = NoCommand
          /\ at' = "return" /\ UNCHANGED <<sudos, pwd_pos>>
       \/ /\ ~(sudos = 1 /\ name = NoCommand) /\ current_user = root
          /\ sudos' = sudos - 1 /\ UNCHANGED <<at, pwd_pos>>
       \/ /\ ~(sudos = 1 /\ name = NoCommand) /\ current_user # root
          /\ at' = "password" /\ pwd_pos' = 0 /\ UNCHANGED sudos
    /\ UNCHANGED <<name, arg, login, saved_user, process_table, variables, given, killed, assigned>>

(* The loop that reads the password also ends when it is full.             *)
password_key ==
    /\ at = "password" /\ pwd_pos < PasswordMax
    /\ \/ pwd_pos' = pwd_pos + 1
       \/ pwd_pos > 0 /\ pwd_pos' = pwd_pos - 1
    /\ UNCHANGED <<at, command, login, saved_user, process_table, variables, given, killed, assigned>>

password_escape ==
    /\ at = "password" /\ pwd_pos < PasswordMax
    /\ at' = "return"
    /\ UNCHANGED <<command, login, saved_user, pwd_pos, process_table, variables, given, killed, assigned>>

(* Enter, or the loop is full.                                             *)
password_end ==
    /\ at = "password"
    /\ IF pwd_pos = 0
       THEN at' = "return" /\ UNCHANGED <<saved_user, current_user, sudos>>
       ELSE /\ at' = "dispatch" /\ sudos' = sudos - 1
            /\ saved_user' = <<current_user>> \o saved_user
            /\ current_user' = root
    /\ UNCHANGED <<name, arg, users, pwd_pos, process_table, variables, given, killed, assigned>>

(* Mutation: the user is put back only while still root.                   *)
command_returns_if_root ==
    /\ at = "return"
    /\ IF saved_user = <<>>
       THEN at' = "prompt" /\ UNCHANGED <<saved_user, current_user>>
       ELSE /\ saved_user' = Tail(saved_user)
            /\ current_user' = IF current_user = root THEN Head(saved_user) ELSE current_user
            /\ UNCHANGED at
    /\ UNCHANGED <<command, users, pwd_pos, process_table, variables, given, killed, assigned>>

(* A command returns to the cmd_sudo that ran it, which puts back its      *)
(* user, or to the shell.                                                  *)
command_returns ==
    /\ at = "return"
    /\ IF saved_user = <<>>
       THEN at' = "prompt" /\ UNCHANGED <<saved_user, current_user>>
       ELSE /\ saved_user' = Tail(saved_user)
            /\ current_user' = Head(saved_user)
            /\ UNCHANGED at
    /\ UNCHANGED <<command, users, pwd_pos, process_table, variables, given, killed, assigned>>

-----------------------------------------------------------------------------
(* PYTHON.                                                                 *)

cmd_python ==
    /\ Running("PYTHON") /\ at' = "python"
    /\ variables' = <<>> /\ assigned' = [v \in Names |-> Unassigned]
    /\ UNCHANGED <<command, login, saved_user, pwd_pos, process_table, given, killed>>

IndexOf(v) == SelectInSeq(variables, LAMBDA x : x.name = v)

(* Mutation: a full table takes no value, also of a variable it has.       *)
Stored_if_room(v, n) ==
    IF Len(variables) >= VarsMax THEN variables
    ELSE IF IndexOf(v) > 0 THEN [variables EXCEPT ![IndexOf(v)].value = n]
    ELSE Append(variables, [name |-> v, value |-> n])

(* A variable that is not there when the table is full is dropped.         *)
Stored(v, n) ==
    IF IndexOf(v) > 0 THEN [variables EXCEPT ![IndexOf(v)].value = n]
    ELSE IF Len(variables) < VarsMax THEN Append(variables, [name |-> v, value |-> n])
    ELSE variables

python_assign(v, n) ==
    /\ at = "python"
    /\ variables' = Stored(v, n)
    /\ assigned' = [assigned EXCEPT ![v] = n]
    /\ UNCHANGED <<at, command, login, saved_user, pwd_pos, process_table, given, killed>>

python_exit ==
    /\ at = "python" /\ at' = "return"
    /\ variables' = <<>> /\ assigned' = [v \in Names |-> Unassigned]
    /\ UNCHANGED <<command, login, saved_user, pwd_pos, process_table, given, killed>>

-----------------------------------------------------------------------------
Next ==
    \/ enter_line \/ cmd_dispatch
    \/ cmd_login \/ cmd_logout \/ cmd_useradd \/ cmd_userdel
    \/ cmd_ps \/ cmd_kill
    \/ cmd_sudo \/ password_key \/ password_escape \/ password_end \/ command_returns
    \/ cmd_python \/ python_exit
    \/ \E v \in Names, n \in Values : python_assign(v, n)

Spec == Init /\ [][Next]_vars

-----------------------------------------------------------------------------
(* SUDO gives root for one command and no longer: a user who is not root   *)
(* and runs a line behind SUDO is the same user at the next prompt,        *)
(* whatever the line did to the current user and however its password was  *)
(* refused; and root is only given for a password that is not empty.       *)
SudoScoped ==
    /\ TypeOK
    /\ at = "prompt" /\ given.sudos > 0 /\ given.user # root => current_user = given.user
    /\ saved_user # <<>> => pwd_pos > 0 /\ given.sudos > 0 /\ Last(saved_user) = given.user

(* KERNEL and SHELL stay, and a process that KILL has removed stays away:  *)
(* the table is filled again only when it is empty, and that it never is.  *)
ProcessesStayKilled ==
    /\ process_table # <<>> => {1, 2} \subseteq Range(process_table)
    /\ killed \cap Range(process_table) = {}

(* A variable of PYTHON has the value assigned last; one that is not there *)
(* was assigned when the table was full of others.                         *)
LatestValue ==
    \A v \in Names : assigned[v] # Unassigned =>
      IF IndexOf(v) > 0 THEN variables[IndexOf(v)].value = assigned[v]
      ELSE Len(variables) = VarsMax
=============================================================================
