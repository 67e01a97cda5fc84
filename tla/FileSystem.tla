----------------------------- MODULE FileSystem -----------------------------
(***************************************************************************)
(* The command-line file system of src/commands.c: the in-memory file,     *)
(* content and user tables, the commands that change them, the save that   *)
(* rewrites the disk one sector at a time after every command, and the     *)
(* load at boot.  A power cycle may come between any two sectors.          *)
(*                                                                         *)
(* Abstractions.  A path is the sequence of its components: the string     *)
(* "C:\D\F" is <<"C:", "D", "F">>, and appending a token to the current    *)
(* directory is concatenation.  Sizes count 512-byte sectors, a chunk is   *)
(* one sector of file data.  Table indices start at 1 (0 in the code).     *)
(* Commands that end in an error message change nothing and are stutters.  *)
(***************************************************************************)
EXTENDS Integers, Sequences, FiniteSets, SequencesExt

CONSTANTS
    RelTokens,        \* tokens typed at commands that prefix current_dir
    AbsTokens,        \* tokens typed at commands that compare them as they are
    Modes,            \* attribute bytes typed at CHMOD
    UserNames,        \* user names typed at USERADD, USERDEL and PASSWD
    Chunks,           \* contents of one sector of file data
    FS_MAX_FILES,     \* 128: capacity of fs_table
    LOADED_FILES,     \* 64: table sectors cleared by a save and read at boot
    FS_MAX_USERS,     \* 32: capacity of user_table
    LOADED_USERS,     \* 5: user sectors cleared by a save and read at boot
    CONTENT_SLOTS,    \* 64: capacity of file_contents
    MAX_FILE_SIZE,    \* 4096 bytes: sectors of data a content slot holds
    CONTENT_SECTORS,  \* 16: sectors reserved on disk for one file
    FS_MAX_FILENAME,  \* 56 characters: components a stored name keeps
    Downloads,        \* lengths of the bodies WGET may bring
    MaxFaults,        \* bound: disk errors in a behaviour
    MaxCommands       \* bound: commands in a behaviour

ASSUME FileSystemAssumption ==
    /\ FS_MAX_FILES \in Nat /\ LOADED_FILES \in 1..FS_MAX_FILES
    /\ FS_MAX_USERS \in Nat /\ LOADED_USERS \in 1..FS_MAX_USERS
    /\ CONTENT_SLOTS \in Nat /\ MAX_FILE_SIZE \in Nat \ {0}
    /\ CONTENT_SECTORS \in Nat /\ MAX_FILE_SIZE <= CONTENT_SECTORS
    /\ FS_MAX_FILENAME \in Nat \ {0}
    /\ Downloads \subseteq Nat /\ MaxFaults \in Nat /\ MaxCommands \in Nat
    /\ Modes \subseteq 0..255
    /\ RelTokens \subseteq Seq(STRING) /\ AbsTokens \subseteq Seq(STRING)
    /\ UserNames \subseteq STRING
    /\ Chunks \subseteq STRING

(* Literals are strings: true in TLA+, but a rule the provers lack.        *)
ASSUME StringAssumption == {"C:", "root"} \subseteq STRING

VARIABLES
    current_dir,    \* path
    fs_table,       \* sequence of entries, its length is fs_count
    file_contents,  \* sequence of slots, its length is file_content_count
    user_table,     \* sequence of users, its length is user_count
    disk,           \* sector contents by LBA
    writing,        \* position of fs_save_to_disk in its writes, 0 when idle
    faults,         \* disk errors so far
    commands,       \* commands that changed something so far
    saved,          \* history: for each entry, whether it is unchanged since the
                    \* last save, or boot without a read error, among the
                    \* entries that a boot reads
    synced,         \* history: "yes" when the last save completed, "busy"
                    \* during a save without an error so far, else "no"
    overrun         \* whether COPY wrote past file_contents: what follows is
                    \* undefined and not modelled

memory == <<current_dir, fs_table, file_contents, user_table>>
vars == <<current_dir, fs_table, file_contents, user_table, disk, writing,
          faults, commands, saved, synced, overrun>>

Least(S) == CHOOSE i \in S : \A j \in S : i <= j
Smaller(a, b) == IF a <= b THEN a ELSE b
Larger(a, b) == IF a <= b THEN b ELSE a

(* The members of a finite set of numbers in ascending order, as the one   *)
(* sequence in a set.                                                      *)
Ascending(S) ==
    {s \in [1..Cardinality(S) -> S] :
        \A i, j \in 1..Cardinality(S) : i < j => s[i] < s[j]}

-----------------------------------------------------------------------------
(* Values.                                                                 *)

Zero == "zero"      \* a sector of zeroes read as data
Junk == "junk"      \* bytes past the end of a slot's data array
Data == Chunks \cup {Zero, Junk}

FILE == 0
DIR == 1

Path == Seq(STRING)
Entry == [name : Path, size : Nat, type : {FILE, DIR}, attr : 0..255]
Slot == [idx : 1..FS_MAX_FILES, size : Nat, data : Seq(Data)]
User == [username : STRING, hash : {"of_name", "of_password"}]

ZeroSector == [tag |-> "zero"]
DirSector(p) == [tag |-> "dir", path |-> p]
EntrySector(e) == [tag |-> "entry", entry |-> e]
UserSector(u) == [tag |-> "user", user |-> u]
DataSector(d) == IF d = Zero THEN ZeroSector ELSE [tag |-> "data", chunk |-> d]

Sector ==
    {ZeroSector} \cup [tag : {"dir"}, path : Path] \cup [tag : {"entry"}, entry : Entry]
        \cup [tag : {"user"}, user : User] \cup [tag : {"data"}, chunk : Data]

(* Disk layout: the current directory, the file table, the user table and  *)
(* CONTENT_SECTORS sectors for each position of the file table.            *)
FS_CURDIR_LBA == 0
FileLba(i) == i
UserLba(i) == FS_MAX_FILES + i
ContentLba(i, s) == FS_MAX_FILES + FS_MAX_USERS + (i - 1) * CONTENT_SECTORS + s
Lbas == 0..(FS_MAX_FILES + FS_MAX_USERS + FS_MAX_FILES * CONTENT_SECTORS)
NoLba == -1

-----------------------------------------------------------------------------
(* fs_save_to_disk: its writes in program order.  A failed "must" write    *)
(* ends the save with -1; the result of the clearing writes is ignored.    *)

(* Mutation: the last entry a boot reads is not cleared.                   *)
TableWrites_short == Larger(Len(fs_table), LOADED_FILES - 1)

TableWrites == Larger(Len(fs_table), LOADED_FILES)
UserWrites == Larger(Len(user_table), LOADED_USERS)
SaveLength == 1 + TableWrites + UserWrites + Len(file_contents) * CONTENT_SECTORS

TableWrite(i) ==
    [lba  |-> FileLba(i),
     val  |-> IF i <= Len(fs_table) THEN EntrySector(fs_table[i]) ELSE ZeroSector,
     must |-> i <= Len(fs_table)]

UserWrite(i) ==
    [lba  |-> UserLba(i),
     val  |-> IF i <= Len(user_table) THEN UserSector(user_table[i]) ELSE ZeroSector,
     must |-> i <= Len(user_table)]

(* Mutation: contents are placed by slot position instead of file_idx.     *)
ContentWrite_by_position(c, s) ==
    [lba  |-> ContentLba(c, s),
     val  |-> IF s <= Len(file_contents[c].data) THEN DataSector(file_contents[c].data[s])
              ELSE ZeroSector,
     must |-> TRUE]

ContentWrite(c, s) ==
    LET slot == file_contents[c]
        sectors_needed == Larger(1, slot.size)
    IN  [lba  |-> ContentLba(slot.idx, s),
         val  |-> IF s > slot.size THEN ZeroSector
                  ELSE IF s <= Len(slot.data) THEN DataSector(slot.data[s])
                  ELSE DataSector(Junk),
         must |-> s <= sectors_needed]

(* Mutation: the table is rewritten from its end.                          *)
SaveWrite_descending(p) ==
    IF p \in 2..(TableWrites + 1) THEN TableWrite(TableWrites + 2 - p)
    ELSE [lba |-> FS_CURDIR_LBA, val |-> DirSector(current_dir), must |-> TRUE]

SaveWrite(p) ==
    LET t == p - 1
        u == t - TableWrites
        k == u - UserWrites - 1
    IN  IF t = 0 THEN [lba |-> FS_CURDIR_LBA, val |-> DirSector(current_dir), must |-> TRUE]
        ELSE IF t <= TableWrites THEN TableWrite(t)
        ELSE IF u <= UserWrites THEN UserWrite(u)
        ELSE ContentWrite(1 + (k \div CONTENT_SECTORS), 1 + (k % CONTENT_SECTORS))

AllSaved == [i \in 1..Len(fs_table) |-> i <= LOADED_FILES]
AfterWrite == IF writing = SaveLength THEN 0 ELSE writing + 1

WriteSector ==
    /\ writing > 0
    /\ disk' = [disk EXCEPT ![SaveWrite(writing).lba] = SaveWrite(writing).val]
    /\ writing' = AfterWrite
    /\ saved' = IF writing = SaveLength THEN AllSaved ELSE saved
    /\ synced' = IF writing = SaveLength /\ synced = "busy" THEN "yes" ELSE synced
    /\ UNCHANGED <<memory, faults, commands>>

(* disk_write_lba reports an error; the sector keeps what it held.         *)
WriteFails ==
    /\ writing > 0
    /\ faults < MaxFaults
    /\ faults' = faults + 1
    /\ writing' = IF SaveWrite(writing).must THEN 0 ELSE AfterWrite
    /\ saved' = IF writing = SaveLength /\ ~SaveWrite(writing).must THEN AllSaved ELSE saved
    /\ synced' = "no"
    /\ UNCHANGED <<memory, disk, commands>>

-----------------------------------------------------------------------------
(* fs_load_from_disk and fs_init_commands: what a boot reads when sector   *)
(* bad (or none) cannot be read.                                           *)

(* The table is read up to its first empty sector; a sector that cannot be *)
(* read is left out and the entries behind it move up.                     *)
TableSectors(bad) ==
    {i \in 1..LOADED_FILES :
        /\ FileLba(i) # bad
        /\ \A j \in 1..i : FileLba(j) # bad => disk[FileLba(j)].tag = "entry"}

UserSectors(bad) ==
    {i \in 1..LOADED_USERS : UserLba(i) # bad /\ disk[UserLba(i)].tag = "user"}

(* Files whose content a boot reads.                                       *)
WithContent(table) == {i \in 1..Len(table) : table[i].size > 0 /\ table[i].type = FILE}

(* The k-th chunk read for file i: a sector that cannot be read is skipped *)
(* and the chunks behind it move up; chunks never read are zero.           *)
ReadChunk(i, size, k, bad) ==
    LET s == IF \E r \in 1..k : ContentLba(i, r) = bad THEN k + 1 ELSE k
    IN  IF s <= Smaller(size, CONTENT_SECTORS) /\ disk[ContentLba(i, s)].tag = "data"
        THEN disk[ContentLba(i, s)].chunk ELSE Zero

LoadedSlot(table, i, bad) ==
    [idx |-> i, size |-> table[i].size,
     data |-> [k \in 1..Smaller(table[i].size, MAX_FILE_SIZE) |->
                 ReadChunk(i, table[i].size, k, bad)]]

DefaultUser == [username |-> "root", hash |-> "of_name"]

fs_load_from_disk(bad) ==
    \E t \in Ascending(TableSectors(bad)), u \in Ascending(UserSectors(bad)) :
        LET table == [k \in 1..Len(t) |-> disk[FileLba(t[k])].entry] IN
        \E c \in Ascending(WithContent(table)) :
            /\ fs_table' = table
            /\ file_contents' = [k \in 1..Smaller(Len(c), CONTENT_SLOTS) |->
                                    LoadedSlot(table, c[k], bad)]
            /\ user_table' = IF u = <<>> THEN <<DefaultUser>>
                             ELSE [k \in 1..Len(u) |-> disk[UserLba(u[k])].user]
            /\ saved' = [k \in 1..Len(table) |-> bad = NoLba]
    /\ current_dir' = IF bad # FS_CURDIR_LBA /\ disk[FS_CURDIR_LBA].tag = "dir"
                      THEN disk[FS_CURDIR_LBA].path ELSE <<"C:">>

(* REBOOT, a reset or a power failure, at any point of a save, and the     *)
(* boot that follows.  At most one sector is unreadable during a boot.     *)
PowerCycle(bad) ==
    /\ IF bad = NoLba THEN faults' = faults
       ELSE faults < MaxFaults /\ faults' = faults + 1
    /\ fs_load_from_disk(bad)
    /\ writing' = 0
    /\ synced' = "no"
    /\ UNCHANGED <<disk, commands>>

-----------------------------------------------------------------------------
(* Commands.  The shell runs one at a time, and a command returns only     *)
(* after its save has ended.                                               *)

full_path(tok) == current_dir \o tok

(* str_copy into name[FS_MAX_FILENAME] cuts what does not fit.             *)
StoredName(p) == SubSeq(p, 1, Smaller(Len(p), FS_MAX_FILENAME))

Named(p) == {i \in 1..Len(fs_table) : fs_table[i].name = p}
FilesNamed(p) == {i \in Named(p) : fs_table[i].type = FILE}
DirsNamed(p) == {i \in Named(p) : fs_table[i].type = DIR}
SlotsOf(i) == {c \in 1..Len(file_contents) : file_contents[c].idx = i}

NewEntry(p, type, attr) == [name |-> StoredName(p), size |-> 0, type |-> type, attr |-> attr]

Idle == writing = 0
StartSave == writing' = 1 /\ synced' = "busy" /\ UNCHANGED <<disk, faults>>

AddEntry(e) == fs_table' = Append(fs_table, e) /\ saved' = Append(saved, FALSE)
SetEntry(i, e) ==
    fs_table' = [fs_table EXCEPT ![i] = e] /\ saved' = [saved EXCEPT ![i] = FALSE]
PutEntry(i, e) == IF i > Len(fs_table) THEN AddEntry(e) ELSE SetEntry(i, e)
DropEntry(i) == fs_table' = RemoveAt(fs_table, i) /\ saved' = RemoveAt(saved, i)

cmd_mkdir(tok) ==
    /\ Len(fs_table) < FS_MAX_FILES
    /\ Named(full_path(tok)) = {}
    /\ AddEntry(NewEntry(full_path(tok), DIR, 16))
    /\ UNCHANGED <<current_dir, file_contents, user_table>>
    /\ StartSave

cmd_touch(tok) ==
    /\ Len(fs_table) < FS_MAX_FILES
    /\ Named(full_path(tok)) = {}
    /\ AddEntry(NewEntry(full_path(tok), FILE, 32))
    /\ UNCHANGED <<current_dir, file_contents, user_table>>
    /\ StartSave

(* Compares the token itself, and does not ask whether the directory is    *)
(* empty or current.                                                       *)
cmd_rmdir(tok) ==
    /\ DirsNamed(tok) # {}
    /\ DropEntry(Least(DirsNamed(tok)))
    /\ UNCHANGED <<current_dir, file_contents, user_table>>
    /\ StartSave

(* The entries behind the file move up; the slots keep their file_idx.     *)
cmd_del(tok) ==
    /\ FilesNamed(full_path(tok)) # {}
    /\ DropEntry(Least(FilesNamed(full_path(tok))))
    /\ UNCHANGED <<current_dir, file_contents, user_table>>
    /\ StartSave

cmd_cd(tok) ==
    /\ DirsNamed(full_path(tok)) # {}
    /\ current_dir' = full_path(tok)
    /\ UNCHANGED <<fs_table, saved, file_contents, user_table>>
    /\ StartSave

cmd_cd_up ==
    /\ current_dir' = IF Len(current_dir) > 1
                      THEN SubSeq(current_dir, 1, Len(current_dir) - 1) ELSE current_dir
    /\ UNCHANGED <<fs_table, saved, file_contents, user_table>>
    /\ StartSave

(* Overwrite slot c, or take a new one when c is the position behind the   *)
(* last slot.                                                              *)
PutSlot(c, slot) ==
    IF c <= Len(file_contents) THEN [file_contents EXCEPT ![c] = slot]
    ELSE Append(file_contents, slot)

SlotFor(i) == IF SlotsOf(i) = {} THEN Len(file_contents) + 1 ELSE Least(SlotsOf(i))

(* NANO, left with ESC and a text that is not empty.  Cancelling, an empty *)
(* text and the error exits undo the new entry and save nothing.           *)
cmd_nano(tok, text) ==
    LET p == full_path(tok)
        is_new_file == FilesNamed(p) = {}
        file_idx == IF is_new_file THEN Len(fs_table) + 1 ELSE Least(FilesNamed(p))
        entry == IF is_new_file THEN NewEntry(p, FILE, 32) ELSE fs_table[file_idx]
    IN  /\ file_idx <= FS_MAX_FILES
        /\ SlotFor(file_idx) <= CONTENT_SLOTS
        /\ PutEntry(file_idx, [entry EXCEPT !.size = Len(text)])
        /\ file_contents' = PutSlot(SlotFor(file_idx),
                                [idx |-> file_idx, size |-> Len(text), data |-> text])
        /\ UNCHANGED <<current_dir, user_table>>
        /\ StartSave

(* save_file_content, the end of WGET.  An entry of either type is         *)
(* overwritten.  Without a free slot the entry stays changed in memory,    *)
(* -1 is returned and WGET does not save.                                  *)
save_file_content(tok, body) ==
    LET p == IF tok[1] = "C:" THEN tok ELSE full_path(tok)
        idx == IF Named(p) = {} THEN Len(fs_table) + 1 ELSE Least(Named(p))
        entry == IF Named(p) = {} THEN NewEntry(p, FILE, 0) ELSE fs_table[idx]
        len == Smaller(Len(body), MAX_FILE_SIZE)
    IN  /\ idx <= FS_MAX_FILES
        /\ PutEntry(idx, [entry EXCEPT !.size = Len(body)])
        /\ UNCHANGED <<current_dir, user_table>>
        /\ \/ /\ SlotFor(idx) <= CONTENT_SLOTS
              /\ file_contents' = PutSlot(SlotFor(idx),
                                    [idx |-> idx, size |-> len, data |-> SubSeq(body, 1, len)])
              /\ StartSave
           \/ /\ SlotFor(idx) > CONTENT_SLOTS
              /\ synced' = "no"
              /\ UNCHANGED <<file_contents, disk, writing, faults>>

(* Mutation: the check for a full table is missing.                        *)
cmd_copy_unbounded(src, dst) ==
    /\ FilesNamed(src) # {}
    /\ AddEntry([fs_table[Least(FilesNamed(src))] EXCEPT !.name = StoredName(dst)])
    /\ UNCHANGED <<current_dir, user_table, file_contents>>
    /\ StartSave

(* COPY copies as many bytes as the source slot's size says.  A slot that  *)
(* a boot loaded has the size of its entry, which after WGET may be larger *)
(* than its data array; the new slot is the last one, so that the rest     *)
(* goes over free slots as far as there are any.                           *)
LeavesContents(src) ==
    LET src_slots == SlotsOf(Least(FilesNamed(src)))
    IN  /\ src_slots # {}
        /\ Len(file_contents) < CONTENT_SLOTS
        /\ file_contents[Least(src_slots)].size
              > MAX_FILE_SIZE * (CONTENT_SLOTS - Len(file_contents))

(* The destination may already exist; its slot, if the content storage has *)
(* room, is always a new one.                                              *)
cmd_copy(src, dst) ==
    LET src_idx == Least(FilesNamed(src))
        dst_idx == Len(fs_table) + 1
        src_slots == SlotsOf(src_idx)
    IN  /\ FilesNamed(src) # {}
        /\ dst_idx <= FS_MAX_FILES
        /\ ~LeavesContents(src)
        /\ AddEntry([fs_table[src_idx] EXCEPT !.name = StoredName(dst)])
        /\ file_contents' =
              IF src_slots # {} /\ Len(file_contents) < CONTENT_SLOTS
              THEN Append(file_contents, [file_contents[Least(src_slots)] EXCEPT !.idx = dst_idx])
              ELSE file_contents
        /\ UNCHANGED <<current_dir, user_table>>
        /\ StartSave

(* The loop runs past the last slot, where file_content_count lies, which  *)
(* is its own index: from here on any memory may be written and saved.     *)
cmd_copy_overruns(src) ==
    /\ FilesNamed(src) # {}
    /\ Len(fs_table) < FS_MAX_FILES
    /\ LeavesContents(src)
    /\ overrun' = TRUE
    /\ UNCHANGED <<memory, saved, disk, writing, faults, synced>>

cmd_move(src, dst) ==
    /\ Named(src) # {}
    /\ LET i == Least(Named(src))
       IN  SetEntry(i, [fs_table[i] EXCEPT !.name = StoredName(dst)])
    /\ UNCHANGED <<current_dir, file_contents, user_table>>
    /\ StartSave

cmd_chmod(mode, tok) ==
    /\ Named(tok) # {}
    /\ LET i == Least(Named(tok))
       IN  SetEntry(i, [fs_table[i] EXCEPT !.attr = mode])
    /\ UNCHANGED <<current_dir, file_contents, user_table>>
    /\ StartSave

(* FORMAT, confirmed.                                                      *)
cmd_format ==
    /\ fs_table' = <<>> /\ saved' = <<>>
    /\ file_contents' = <<>>
    /\ UNCHANGED <<current_dir, user_table>>
    /\ StartSave

(* CAT/TYPE of the file at position i: the first slot that has its index,  *)
(* nothing when the entry's size is 0 or it has no slot.                   *)
cmd_cat(i) ==
    IF fs_table[i].size = 0 \/ SlotsOf(i) = {} THEN <<>>
    ELSE file_contents[Least(SlotsOf(i))].data

UsersNamed(n) == {i \in 1..Len(user_table) : user_table[i].username = n}

cmd_useradd(n) ==
    /\ Len(user_table) < FS_MAX_USERS
    /\ UsersNamed(n) = {}
    /\ user_table' = Append(user_table, [username |-> n, hash |-> "of_name"])
    /\ UNCHANGED <<current_dir, fs_table, saved, file_contents>>
    /\ StartSave

cmd_userdel(n) ==
    /\ UsersNamed(n) # {}
    /\ user_table' = RemoveAt(user_table, Least(UsersNamed(n)))
    /\ UNCHANGED <<current_dir, fs_table, saved, file_contents>>
    /\ StartSave

(* The name is the argument, or current_user (root under SUDO) without one. *)
cmd_passwd(n) ==
    /\ UsersNamed(n) # {}
    /\ user_table' = [user_table EXCEPT ![Least(UsersNamed(n))].hash = "of_password"]
    /\ UNCHANGED <<current_dir, fs_table, saved, file_contents>>
    /\ StartSave

-----------------------------------------------------------------------------
Texts == UNION {[1..n -> Chunks] : n \in 1..MAX_FILE_SIZE}
Bodies == UNION {[1..n -> Chunks] : n \in Downloads}

FileCommand ==
    \/ \E tok \in RelTokens : cmd_mkdir(tok) \/ cmd_touch(tok) \/ cmd_del(tok) \/ cmd_cd(tok)
    \/ cmd_cd_up
    \/ \E tok \in RelTokens, text \in Texts : cmd_nano(tok, text)
    \/ \E tok \in RelTokens \cup AbsTokens, body \in Bodies : save_file_content(tok, body)
    \/ \E tok \in AbsTokens : cmd_rmdir(tok)
    \/ \E tok \in AbsTokens, mode \in Modes : cmd_chmod(mode, tok)
    \/ \E src, dst \in AbsTokens : cmd_copy(src, dst) \/ cmd_move(src, dst)
    \/ cmd_format

UserCommand ==
    \E n \in UserNames : cmd_useradd(n) \/ cmd_userdel(n) \/ cmd_passwd(n)

Prompt ==
    /\ Idle
    /\ commands < MaxCommands
    /\ commands' = commands + 1

Command == Prompt /\ (FileCommand \/ UserCommand)
CopyOverruns == Prompt /\ \E src \in AbsTokens : cmd_copy_overruns(src)

(* An empty disk: the image the build writes has no file system on it.     *)
Init ==
    /\ current_dir = <<"C:">>
    /\ fs_table = <<>>
    /\ file_contents = <<>>
    /\ user_table = <<DefaultUser>>
    /\ disk = [l \in Lbas |-> ZeroSector]
    /\ writing = 0
    /\ faults = 0
    /\ commands = 0
    /\ saved = <<>>
    /\ synced = "no"
    /\ overrun = FALSE

Defined ==
    \/ Command
    \/ WriteSector
    \/ WriteFails
    \/ \E bad \in Lbas \cup {NoLba} : PowerCycle(bad)

Next ==
    \/ ~overrun /\ Defined /\ UNCHANGED overrun
    \/ ~overrun /\ CopyOverruns
    \/ overrun /\ UNCHANGED vars

Spec == Init /\ [][Next]_vars

-----------------------------------------------------------------------------
(* Properties.                                                             *)

(* Until a COPY leaves file_contents the tables do not outgrow their       *)
(* arrays, every slot points into the file table's index range, and the    *)
(* save position stays inside the save.  Like every property here it says  *)
(* nothing of what follows such a COPY, where the model stops.             *)
TypeOK ==
    /\ current_dir \in Path
    /\ fs_table \in Seq(Entry) /\ Len(fs_table) <= FS_MAX_FILES
    /\ file_contents \in Seq(Slot) /\ Len(file_contents) <= CONTENT_SLOTS
    /\ user_table \in Seq(User) /\ Len(user_table) <= FS_MAX_USERS
    /\ disk \in [Lbas -> Sector]
    /\ writing \in 0..SaveLength
    /\ faults \in 0..MaxFaults
    /\ commands \in 0..MaxCommands
    /\ saved \in [1..Len(fs_table) -> BOOLEAN]
    /\ synced \in {"yes", "busy", "no"}
    /\ overrun \in BOOLEAN

OnDisk == {disk[FileLba(i)].entry : i \in TableSectors(NoLba)}

(* Whatever is interrupted - a save cut by a power failure after any       *)
(* sector, or abandoned on a disk error - an entry that was saved once and *)
(* has stayed in fs_table since is found again by the next boot: the       *)
(* ascending rewrite never destroys the only copy of a surviving entry.    *)
SavedEntriesSurvive == \A i \in 1..Len(fs_table) : saved[i] => fs_table[i] \in OnDisk

(* After a save that met no error a boot reads back the tables that were   *)
(* saved: the first LOADED_FILES entries and LOADED_USERS users, nothing   *)
(* stale behind them, and the current directory.                           *)
SavedTablesReload ==
    synced = "yes" =>
        /\ disk[FS_CURDIR_LBA] = DirSector(current_dir)
        /\ TableSectors(NoLba) = 1..Smaller(Len(fs_table), LOADED_FILES)
        /\ \A i \in TableSectors(NoLba) : disk[FileLba(i)] = EntrySector(fs_table[i])
        /\ UserSectors(NoLba) = 1..Smaller(Len(user_table), LOADED_USERS)
        /\ \A i \in UserSectors(NoLba) : disk[UserLba(i)] = UserSector(user_table[i])

(* After a save that met no error a boot reads back the content of every   *)
(* file that has one content slot of the size its entry gives.             *)
SavedContentsReload ==
    synced = "yes" =>
        \A i \in WithContent(fs_table), c \in 1..Len(file_contents) :
            (SlotsOf(i) = {c} /\ file_contents[c].size = fs_table[i].size)
                => LoadedSlot(fs_table, i, NoLba) = file_contents[c]

(* Expected to fail.  Deleting a file leaves what TYPE prints for every    *)
(* other file as it was (README.md: "TYPE <file> # Display file            *)
(* contents").  cmd_del moves the entries up and leaves the slots alone.   *)
DelKeepsOtherContents ==
    [][\A tok \in RelTokens : (Idle /\ cmd_del(tok)) =>
          LET d == Least(FilesNamed(full_path(tok))) IN
          \A j \in 1..Len(fs_table') : cmd_cat(j)' = cmd_cat(IF j < d THEN j ELSE j + 1)]_vars
=============================================================================
