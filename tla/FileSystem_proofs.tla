------------------------- MODULE FileSystem_proofs -------------------------
(***************************************************************************)
(* Proofs about FileSystem, for every size of the tables and of the disk   *)
(* areas: the types, the survival of saved entries however often a save is *)
(* cut short, and what a boot reads back after a save that met no error.   *)
(***************************************************************************)
EXTENDS FileSystem, FiniteSetTheorems, SequenceTheorems, WellFoundedInduction, TLAPS

-----------------------------------------------------------------------------
(* Numbers.                                                                *)

(* The least element of a set of numbers exists.                           *)
LEMMA LeastExists ==
    ASSUME NEW S, S \subseteq Nat, S # {}
    PROVE  \E x \in S : \A y \in S : x <= y
  <1> DEFINE R == OpToRel(<, Nat)
  <1>1. R = {ss \in Nat \X Nat : ss[1] < ss[2]}
    BY DEF OpToRel
  <1>2. IsWellFoundedOn(R, Nat)
    BY NatLessThanWellFounded
  <1> HIDE DEF R
  <1>3. PICK x \in S : \A y \in S : ~(<<y, x>> \in R)
    BY <1>2, WFMin
  <1>4. ASSUME NEW y \in S PROVE x <= y
    <2> DEFINE p == <<y, x>>
    <2>1. p \notin {ss \in Nat \X Nat : ss[1] < ss[2]}
      BY <1>1, <1>3
    <2>2. p \in Nat \X Nat
      OBVIOUS
    <2>3. ~(p[1] < p[2])
      BY <2>1, <2>2
    <2>4. p[1] = y /\ p[2] = x
      OBVIOUS
    <2> QED
      BY <2>3, <2>4
  <1> QED
    BY <1>4

(* Least picks it.                                                         *)
LEMMA LeastIsLeast ==
    ASSUME NEW S, S \subseteq Nat, S # {}
    PROVE  Least(S) \in S /\ \A y \in S : Least(S) <= y
  <1>1. \E x \in S : \A y \in S : x <= y
    BY LeastExists
  <1> QED
    BY <1>1 DEF Least

(* Minimum and maximum of two lengths.                                     *)
LEMMA SmallerLarger ==
    ASSUME NEW a \in Nat, NEW b \in Nat
    PROVE  /\ Smaller(a, b) \in Nat /\ Larger(a, b) \in Nat
           /\ Smaller(a, b) <= a /\ Smaller(a, b) <= b
           /\ a <= Larger(a, b) /\ b <= Larger(a, b)
  BY DEF Smaller, Larger

(* Products of numbers are ordered as their factors.                       *)
LEMMA ProductOrder ==
    ASSUME NEW a \in Nat, NEW b \in Nat, NEW c \in Nat, a <= b
    PROVE  a * c \in Nat /\ b * c \in Nat /\ a * c <= b * c
  <1>1. (b - a) * c >= 0
    OBVIOUS
  <1>2. (b - a) * c = b * c - a * c
    OBVIOUS
  <1> QED
    BY <1>1, <1>2

(* Quotient and remainder of a position among the content sectors.         *)
LEMMA Position ==
    ASSUME NEW k \in Nat, NEW n \in Nat, NEW m \in Nat, m > 0, k < n * m
    PROVE  /\ k \div m \in 0..(n - 1) /\ k % m \in 0..(m - 1)
           /\ k = m * (k \div m) + (k % m)
  <1> DEFINE q == k \div m
             r == k % m
  <1>1. q \in Nat /\ r \in 0..(m - 1) /\ k = m * q + r
    OBVIOUS
  <1> HIDE DEF q, r
  <1>2. ASSUME n <= q PROVE FALSE
    <2>1. n * m <= q * m
      BY <1>1, <1>2, ProductOrder
    <2>2. q * m = m * q
      BY <1>1
    <2> QED
      BY <1>1, <2>1, <2>2
  <1> QED
    BY <1>1, <1>2 DEF q, r

-----------------------------------------------------------------------------
(* Sectors.                                                                *)

(* What is written is a sector.                                            *)
LEMMA SectorTypes ==
    /\ ZeroSector \in Sector
    /\ \A p \in Path : DirSector(p) \in Sector
    /\ \A e \in Entry : EntrySector(e) \in Sector
    /\ \A u \in User : UserSector(u) \in Sector
    /\ \A d \in Data : DataSector(d) \in Sector
  BY DEF Sector, ZeroSector, DirSector, EntrySector, UserSector, DataSector

(* The tag of a sector says what is in it.                                 *)
LEMMA SectorTags ==
    ASSUME NEW s \in Sector
    PROVE  /\ s.tag = "entry" => s.entry \in Entry /\ s = EntrySector(s.entry)
           /\ s.tag = "user" => s.user \in User /\ s = UserSector(s.user)
           /\ s.tag = "dir" => s.path \in Path
           /\ s.tag = "data" => s.chunk \in Data
  BY DEF Sector, ZeroSector, EntrySector, UserSector

-----------------------------------------------------------------------------
(* Sequences.                                                              *)

(* A function on 1..n is a sequence of length n.                           *)
LEMMA FunctionIsSeq ==
    ASSUME NEW S, NEW n \in Nat, NEW f \in [1..n -> S]
    PROVE  f \in Seq(S) /\ Len(f) = n
  OBVIOUS

(* Removing a position moves the elements behind it up by one.             *)
LEMMA RemoveAtElements ==
    ASSUME NEW S, NEW s \in Seq(S), NEW i \in 1..Len(s)
    PROVE  /\ RemoveAt(s, i) \in Seq(S)
           /\ Len(RemoveAt(s, i)) = Len(s) - 1
           /\ \A j \in 1..(Len(s) - 1) : RemoveAt(s, i)[j] = IF j < i THEN s[j] ELSE s[j + 1]
  <1> DEFINE a == SubSeq(s, 1, i - 1)
             b == SubSeq(s, i + 1, Len(s))
  <1>1. Len(s) \in Nat /\ \A j \in 1..Len(s) : s[j] \in S
    OBVIOUS
  <1>2. /\ a \in Seq(S) /\ Len(a) = i - 1
        /\ \A j \in 1..(i - 1) : a[j] = s[j]
    BY <1>1
  <1>3. /\ b \in Seq(S) /\ Len(b) = Len(s) - i
        /\ \A j \in 1..(Len(s) - i) : b[j] = s[i + j]
    BY <1>1
  <1>4. RemoveAt(s, i) = a \o b
    BY DEF RemoveAt
  <1> HIDE DEF a, b
  <1>5. /\ a \o b \in Seq(S)
        /\ Len(a \o b) = Len(a) + Len(b)
        /\ \A j \in 1..(Len(a) + Len(b)) :
             (a \o b)[j] = IF j <= Len(a) THEN a[j] ELSE b[j - Len(a)]
    BY <1>2, <1>3, ConcatProperties
  <1>6. Len(a) + Len(b) = Len(s) - 1
    BY <1>1, <1>2, <1>3
  <1>7. ASSUME NEW j \in 1..(Len(s) - 1)
        PROVE  (a \o b)[j] = IF j < i THEN s[j] ELSE s[j + 1]
    <2>1. (a \o b)[j] = IF j <= i - 1 THEN a[j] ELSE b[j - (i - 1)]
      BY <1>2, <1>5, <1>6
    <2>2. CASE j < i
      <3>1. j \in 1..(i - 1) /\ j <= i - 1
        BY <2>2
      <3> QED
        BY <1>2, <2>1, <2>2, <3>1
    <2>3. CASE ~(j < i)
      <3>1. /\ j - (i - 1) \in 1..(Len(s) - i) /\ ~(j <= i - 1)
            /\ i + (j - (i - 1)) = j + 1
        BY <1>1, <2>3
      <3> QED
        BY <1>3, <2>1, <2>3, <3>1
    <2> QED
      BY <2>2, <2>3
  <1> QED
    BY <1>4, <1>5, <1>6, <1>7

(* The ascending sequence of a set within 1..n has at most n elements, and *)
(* its k-th is at least k.                                                 *)
LEMMA AscendingBounds ==
    ASSUME NEW n \in Nat, NEW S, S \subseteq 1..n, NEW t \in Ascending(S)
    PROVE  /\ t \in Seq(S) /\ Len(t) = Cardinality(S) /\ Len(t) \in 0..n
           /\ \A k \in 1..Len(t) : t[k] \in S /\ k <= t[k]
           /\ \A i, j \in 1..Len(t) : i < j => t[i] < t[j]
  <1> DEFINE c == Cardinality(S)
  <1>1. c \in Nat /\ c <= n
    <2>1. IsFiniteSet(1..n) /\ Cardinality(1..n) = n
      BY FS_Interval
    <2>2. IsFiniteSet(S) /\ Cardinality(S) <= Cardinality(1..n)
      BY <2>1, FS_Subset
    <2> QED
      BY <2>1, <2>2, FS_CardinalityType
  <1>2. t \in [1..c -> S] /\ \A i, j \in 1..c : i < j => t[i] < t[j]
    BY DEF Ascending
  <1> HIDE DEF c
  <1>3. t \in Seq(S) /\ Len(t) = c
    BY <1>1, <1>2, FunctionIsSeq
  <1> DEFINE Low == {k \in 1..c : t[k] < k}
  <1>4. Low = {}
    <2> SUFFICES ASSUME Low # {} PROVE FALSE
      OBVIOUS
    <2>1. PICK k \in Low : \A y \in Low : k <= y
      <3>1. Low \subseteq Nat
        OBVIOUS
      <3> QED
        BY <3>1, LeastExists
    <2>2. k \in 1..c /\ t[k] < k /\ t[k] \in 1..n
      BY <1>2
    <2>3. k - 1 \in 1..c /\ t[k - 1] \in 1..n
      <3>1. k - 1 \in 1..c
        BY <1>1, <2>2
      <3> QED
        BY <3>1, <1>2
    <2>4. t[k - 1] < t[k]
      BY <1>1, <1>2, <2>2, <2>3
    <2>5. t[k - 1] < k - 1
      BY <2>2, <2>3, <2>4
    <2> QED
      BY <1>1, <2>1, <2>2, <2>3, <2>5
  <1>5. \A k \in 1..c : t[k] \in S /\ k <= t[k]
    <2> TAKE k \in 1..c
    <2>1. t[k] \in S /\ t[k] \in 1..n
      BY <1>2
    <2>2. ~(t[k] < k)
      BY <1>4
    <2> QED
      BY <1>1, <2>1, <2>2
  <1> QED
    BY <1>1, <1>2, <1>3, <1>5 DEF c

-----------------------------------------------------------------------------
(* The types.                                                              *)

EntriesOK ==
    /\ fs_table \in Seq(Entry) /\ Len(fs_table) <= FS_MAX_FILES
    /\ saved \in [1..Len(fs_table) -> BOOLEAN]
ContentsOK == file_contents \in Seq(Slot) /\ Len(file_contents) <= CONTENT_SLOTS
UsersOK == user_table \in Seq(User) /\ Len(user_table) <= FS_MAX_USERS
MemoryOK == current_dir \in Path /\ EntriesOK /\ ContentsOK /\ UsersOK

(* The tables of a state that has its types, and their lengths.            *)
LEMMA Lengths ==
    ASSUME TypeOK
    PROVE  /\ MemoryOK
           /\ Len(fs_table) \in Nat /\ Len(file_contents) \in Nat /\ Len(user_table) \in Nat
           /\ \A i \in 1..Len(fs_table) : fs_table[i] \in Entry
           /\ \A i \in 1..Len(file_contents) : file_contents[i] \in Slot
           /\ \A i \in 1..Len(user_table) : user_table[i] \in User
  <1>1. MemoryOK
    BY DEF TypeOK, MemoryOK, EntriesOK, ContentsOK, UsersOK
  <1> QED
    BY <1>1, LenProperties, ElementOfSeq DEF MemoryOK, EntriesOK, ContentsOK, UsersOK

(* A save has at least its first write.                                    *)
LEMMA SaveIsNotEmpty ==
    ASSUME NEW f \in Nat, NEW u \in Nat, NEW c \in Nat
    PROVE  1 + Larger(f, LOADED_FILES) + Larger(u, LOADED_USERS) + c * CONTENT_SECTORS \in Nat \ {0}
  <1>1. c * CONTENT_SECTORS \in Nat
    BY FileSystemAssumption, ProductOrder
  <1>2. LOADED_FILES \in Nat /\ LOADED_USERS \in Nat
    BY FileSystemAssumption
  <1>3. Larger(f, LOADED_FILES) \in Nat /\ Larger(u, LOADED_USERS) \in Nat
    BY <1>2, SmallerLarger
  <1> QED
    BY <1>1, <1>3

(* Adding, changing and removing an entry.                                 *)
LEMMA AddEntryType ==
    ASSUME TypeOK, NEW e \in Entry, Len(fs_table) < FS_MAX_FILES, AddEntry(e)
    PROVE  EntriesOK'
  <1>1. saved \in Seq(BOOLEAN) /\ Len(saved) = Len(fs_table)
    BY FunctionIsSeq, Lengths DEF TypeOK
  <1>2. fs_table' \in Seq(Entry) /\ Len(fs_table') = Len(fs_table) + 1
    BY AppendProperties DEF AddEntry, TypeOK
  <1>3. saved' \in Seq(BOOLEAN) /\ Len(saved') = Len(fs_table) + 1
    BY <1>1, AppendProperties DEF AddEntry
  <1> QED
    BY <1>2, <1>3, LenProperties, FileSystemAssumption, Lengths DEF EntriesOK

(* An entry written over another one keeps the length of the table.        *)
LEMMA SetEntryType ==
    ASSUME TypeOK, NEW e \in Entry, NEW i \in 1..Len(fs_table), SetEntry(i, e)
    PROVE  EntriesOK'
  <1>1. fs_table' \in Seq(Entry) /\ Len(fs_table') = Len(fs_table)
    BY ExceptSeq DEF SetEntry, TypeOK
  <1>2. saved' \in [1..Len(fs_table) -> BOOLEAN]
    BY DEF SetEntry, TypeOK
  <1> QED
    BY <1>1, <1>2 DEF EntriesOK, TypeOK

(* An entry removed from the table takes its mark of being saved with it.  *)
LEMMA DropEntryType ==
    ASSUME TypeOK, NEW i \in 1..Len(fs_table), DropEntry(i)
    PROVE  EntriesOK'
  <1>1. saved \in Seq(BOOLEAN) /\ Len(saved) = Len(fs_table)
    BY FunctionIsSeq, Lengths DEF TypeOK
  <1>2. fs_table' \in Seq(Entry) /\ Len(fs_table') = Len(fs_table) - 1
    BY RemoveAtElements DEF DropEntry, TypeOK
  <1>3. saved' \in Seq(BOOLEAN) /\ Len(saved') = Len(fs_table) - 1
    BY <1>1, RemoveAtElements DEF DropEntry
  <1> QED
    BY <1>2, <1>3, LenProperties, FileSystemAssumption, Lengths DEF EntriesOK, TypeOK

(* An entry written over another one or behind the last one.               *)
LEMMA PutEntryType ==
    ASSUME TypeOK, NEW e \in Entry, NEW i \in 1..(Len(fs_table) + 1), i <= FS_MAX_FILES,
           PutEntry(i, e)
    PROVE  EntriesOK'
  <1>0. Len(fs_table) \in Nat /\ FS_MAX_FILES \in Nat
    BY Lengths, FileSystemAssumption
  <1>1. CASE i > Len(fs_table)
    BY <1>0, <1>1, AddEntryType DEF PutEntry
  <1>2. CASE ~(i > Len(fs_table))
    <2>1. i \in 1..Len(fs_table)
      BY <1>0, <1>2
    <2> QED
      BY <1>2, <2>1, SetEntryType DEF PutEntry
  <1> QED
    BY <1>1, <1>2

(* Paths stay paths.                                                       *)
LEMMA PathTypes ==
    ASSUME TypeOK
    PROVE  /\ \A tok \in RelTokens \cup AbsTokens : tok \in Path /\ full_path(tok) \in Path
           /\ \A q \in Path : StoredName(q) \in Path
           /\ \A q \in Path, type \in {FILE, DIR}, attr \in 0..255 :
                NewEntry(q, type, attr) \in Entry
  <1>1. \A tok \in RelTokens \cup AbsTokens : tok \in Path /\ full_path(tok) \in Path
    BY FileSystemAssumption, ConcatProperties DEF TypeOK, full_path, Path
  <1>2. ASSUME NEW q \in Path PROVE StoredName(q) \in Path
    <2>1. Len(q) \in Nat /\ \A i \in 1..Len(q) : q[i] \in STRING
      BY LenProperties, ElementOfSeq DEF Path
    <2>2. Smaller(Len(q), FS_MAX_FILENAME) \in Nat /\ Smaller(Len(q), FS_MAX_FILENAME) <= Len(q)
      BY <2>1, FileSystemAssumption, SmallerLarger
    <2>3. \A i \in 1..Smaller(Len(q), FS_MAX_FILENAME) : q[i] \in STRING
      BY <2>1, <2>2
    <2> QED
      BY <2>2, <2>3, SubSeqProperties DEF StoredName, Path
  <1>3. \A q \in Path, type \in {FILE, DIR}, attr \in 0..255 : NewEntry(q, type, attr) \in Entry
    BY <1>2 DEF NewEntry, Entry
  <1> QED
    BY <1>1, <1>2, <1>3

(* The positions the searches give.                                        *)
LEMMA SearchTypes ==
    ASSUME TypeOK, NEW q
    PROVE  /\ Named(q) # {} => Least(Named(q)) \in 1..Len(fs_table)
           /\ FilesNamed(q) # {} => Least(FilesNamed(q)) \in 1..Len(fs_table)
           /\ DirsNamed(q) # {} => Least(DirsNamed(q)) \in 1..Len(fs_table)
           /\ UsersNamed(q) # {} => Least(UsersNamed(q)) \in 1..Len(user_table)
           /\ SlotsOf(q) # {} => Least(SlotsOf(q)) \in 1..Len(file_contents)
           /\ SlotFor(q) \in 1..(Len(file_contents) + 1)
  <1>0. /\ Len(fs_table) \in Nat /\ Len(file_contents) \in Nat /\ Len(user_table) \in Nat
        /\ Named(q) \subseteq 1..Len(fs_table) /\ FilesNamed(q) \subseteq 1..Len(fs_table)
        /\ DirsNamed(q) \subseteq 1..Len(fs_table) /\ UsersNamed(q) \subseteq 1..Len(user_table)
        /\ SlotsOf(q) \subseteq 1..Len(file_contents)
    BY Lengths DEF Named, FilesNamed, DirsNamed, UsersNamed, SlotsOf
  <1>1. ASSUME NEW S, NEW n \in Nat, S \subseteq 1..n, S # {} PROVE Least(S) \in 1..n
    <2>1. S \subseteq Nat
      BY <1>1
    <2> QED
      BY <1>1, <2>1, LeastIsLeast
  <1>2. SlotsOf(q) # {} => Least(SlotsOf(q)) \in 1..Len(file_contents)
    BY <1>0, <1>1
  <1> QED
    BY <1>0, <1>1, <1>2 DEF SlotFor

(* Putting a slot.                                                         *)
LEMMA PutSlotType ==
    ASSUME TypeOK, NEW slot \in Slot, NEW c \in 1..(Len(file_contents) + 1), c <= CONTENT_SLOTS,
           file_contents' = PutSlot(c, slot)
    PROVE  ContentsOK'
  <1>0. Len(file_contents) \in Nat /\ CONTENT_SLOTS \in Nat
    BY Lengths, FileSystemAssumption
  <1>1. CASE c <= Len(file_contents)
    <2>1. c \in 1..Len(file_contents)
      BY <1>0, <1>1
    <2> QED
      BY <1>1, <2>1, ExceptSeq DEF PutSlot, ContentsOK, TypeOK
  <1>2. CASE ~(c <= Len(file_contents))
    BY <1>0, <1>2, AppendProperties DEF PutSlot, ContentsOK, TypeOK
  <1> QED
    BY <1>1, <1>2

-----------------------------------------------------------------------------
(* Every command that changes the tables keeps their types.                *)

(* MKDIR, TOUCH, DEL and RMDIR.                                            *)
LEMMA EntryCommandType ==
    ASSUME TypeOK, NEW tok \in RelTokens \cup AbsTokens,
           cmd_mkdir(tok) \/ cmd_touch(tok) \/ cmd_del(tok) \/ cmd_rmdir(tok)
    PROVE  MemoryOK'
  <1>0. MemoryOK /\ full_path(tok) \in Path
    BY Lengths, PathTypes
  <1>1. CASE cmd_mkdir(tok)
    <2>1. NewEntry(full_path(tok), DIR, 16) \in Entry
      BY <1>0, PathTypes
    <2> QED
      BY <1>0, <1>1, <2>1, AddEntryType DEF cmd_mkdir, MemoryOK, ContentsOK, UsersOK
  <1>2. CASE cmd_touch(tok)
    <2>1. NewEntry(full_path(tok), FILE, 32) \in Entry
      BY <1>0, PathTypes
    <2> QED
      BY <1>0, <1>2, <2>1, AddEntryType DEF cmd_touch, MemoryOK, ContentsOK, UsersOK
  <1>3. CASE cmd_del(tok)
    BY <1>0, <1>3, SearchTypes, DropEntryType DEF cmd_del, MemoryOK, ContentsOK, UsersOK
  <1>4. CASE cmd_rmdir(tok)
    BY <1>0, <1>4, SearchTypes, DropEntryType DEF cmd_rmdir, MemoryOK, ContentsOK, UsersOK
  <1> QED
    BY <1>1, <1>2, <1>3, <1>4

(* MOVE keeps the entry but for its name.                                  *)
LEMMA MoveType ==
    ASSUME TypeOK, NEW src \in AbsTokens, NEW dst \in AbsTokens, cmd_move(src, dst)
    PROVE  MemoryOK'
  <1> DEFINE i == Least(Named(src))
             e == [fs_table[i] EXCEPT !.name = StoredName(dst)]
  <1>1. MemoryOK /\ i \in 1..Len(fs_table)
    BY Lengths, SearchTypes DEF cmd_move
  <1>2. SetEntry(i, e)
    BY DEF cmd_move
  <1> HIDE DEF i
  <1>3. e \in Entry
    <2>1. fs_table[i] \in Entry /\ StoredName(dst) \in Path
      BY <1>1, Lengths, PathTypes
    <2> QED
      BY <2>1 DEF Entry
  <1> HIDE DEF e
  <1> QED
    BY <1>1, <1>2, <1>3, SetEntryType DEF cmd_move, MemoryOK, ContentsOK, UsersOK

(* CHMOD keeps the entry but for its attributes.                           *)
LEMMA ChmodType ==
    ASSUME TypeOK, NEW tok \in AbsTokens, NEW mode \in Modes, cmd_chmod(mode, tok)
    PROVE  MemoryOK'
  <1> DEFINE i == Least(Named(tok))
             e == [fs_table[i] EXCEPT !.attr = mode]
  <1>1. MemoryOK /\ i \in 1..Len(fs_table) /\ mode \in 0..255
    BY Lengths, SearchTypes, FileSystemAssumption DEF cmd_chmod
  <1>2. SetEntry(i, e)
    BY DEF cmd_chmod
  <1> HIDE DEF i
  <1>3. e \in Entry
    <2>1. fs_table[i] \in Entry
      BY <1>1, Lengths
    <2> QED
      BY <1>1, <2>1 DEF Entry
  <1> HIDE DEF e
  <1> QED
    BY <1>1, <1>2, <1>3, SetEntryType DEF cmd_chmod, MemoryOK, ContentsOK, UsersOK

(* A text typed or downloaded is file data.                                *)
LEMMA TextTypes ==
    ASSUME NEW text \in Texts \cup Bodies
    PROVE  text \in Seq(Data) /\ Len(text) \in Nat
  <1>1. PICK n \in Nat : text \in [1..n -> Chunks]
    BY FileSystemAssumption DEF Texts, Bodies
  <1>2. text \in Seq(Chunks) /\ Len(text) = n
    BY <1>1, FunctionIsSeq
  <1>3. Chunks \subseteq Data
    BY DEF Data
  <1> QED
    BY <1>2, <1>3, SeqMonotonic

(* NANO puts a text into a new or an old file and into a slot of contents. *)
LEMMA NanoType ==
    ASSUME TypeOK, NEW tok \in RelTokens, NEW text \in Texts, cmd_nano(tok, text)
    PROVE  MemoryOK'
  <1> DEFINE q == full_path(tok)
             is_new_file == FilesNamed(q) = {}
             file_idx == IF is_new_file THEN Len(fs_table) + 1 ELSE Least(FilesNamed(q))
             entry == IF is_new_file THEN NewEntry(q, FILE, 32) ELSE fs_table[file_idx]
             e == [entry EXCEPT !.size = Len(text)]
             slot == [idx |-> file_idx, size |-> Len(text), data |-> text]
  <1>0. MemoryOK /\ q \in Path /\ Len(fs_table) \in Nat
    BY Lengths, PathTypes
  <1>1. file_idx \in 1..(Len(fs_table) + 1) /\ (~is_new_file => file_idx \in 1..Len(fs_table))
    BY <1>0, SearchTypes
  <1>2. /\ file_idx <= FS_MAX_FILES /\ SlotFor(file_idx) <= CONTENT_SLOTS
        /\ PutEntry(file_idx, e)
        /\ file_contents' = PutSlot(SlotFor(file_idx), slot)
        /\ UNCHANGED <<current_dir, user_table>>
    BY DEF cmd_nano
  <1>3. entry \in Entry
    <2>1. NewEntry(q, FILE, 32) \in Entry
      BY <1>0, PathTypes
    <2> QED
      BY <1>1, <2>1, Lengths
  <1> HIDE DEF q, is_new_file, file_idx, entry
  <1>4. e \in Entry
    BY <1>3, TextTypes DEF Entry
  <1>5. slot \in Slot
    <2>1. text \in Seq(Data) /\ Len(text) \in Nat
      BY TextTypes
    <2>2. file_idx \in 1..FS_MAX_FILES
      BY <1>0, <1>1, <1>2, FileSystemAssumption
    <2> QED
      BY <2>1, <2>2 DEF Slot
  <1> HIDE DEF e, slot
  <1>6. EntriesOK'
    BY <1>1, <1>2, <1>4, PutEntryType
  <1>7. ContentsOK'
    BY <1>2, <1>5, SearchTypes, PutSlotType
  <1> QED
    BY <1>0, <1>2, <1>6, <1>7 DEF MemoryOK, UsersOK

(* WGET stores a download; without a free slot nothing is saved.           *)
LEMMA WgetType ==
    ASSUME TypeOK, NEW tok \in RelTokens \cup AbsTokens, NEW body \in Bodies,
           save_file_content(tok, body)
    PROVE  MemoryOK' /\ (StartSave \/ (synced' = "no" /\ UNCHANGED <<disk, writing, faults>>
                                       /\ UNCHANGED file_contents))
  <1> DEFINE q == IF tok[1] = "C:" THEN tok ELSE full_path(tok)
             idx == IF Named(q) = {} THEN Len(fs_table) + 1 ELSE Least(Named(q))
             entry == IF Named(q) = {} THEN NewEntry(q, FILE, 0) ELSE fs_table[idx]
             len == Smaller(Len(body), MAX_FILE_SIZE)
             e == [entry EXCEPT !.size = Len(body)]
             slot == [idx |-> idx, size |-> len, data |-> SubSeq(body, 1, len)]
  <1>0. MemoryOK /\ q \in Path /\ Len(fs_table) \in Nat
    BY Lengths, PathTypes
  <1>1. idx \in 1..(Len(fs_table) + 1) /\ (Named(q) # {} => idx \in 1..Len(fs_table))
    BY <1>0, SearchTypes
  <1>2. /\ idx <= FS_MAX_FILES
        /\ PutEntry(idx, e)
        /\ UNCHANGED <<current_dir, user_table>>
        /\ \/ SlotFor(idx) <= CONTENT_SLOTS /\ file_contents' = PutSlot(SlotFor(idx), slot) /\ StartSave
           \/ synced' = "no" /\ UNCHANGED <<file_contents, disk, writing, faults>>
    BY DEF save_file_content
  <1>3. entry \in Entry
    <2>1. NewEntry(q, FILE, 0) \in Entry
      BY <1>0, PathTypes
    <2> QED
      BY <1>1, <2>1, Lengths
  <1>4. body \in Seq(Data) /\ Len(body) \in Nat
    BY TextTypes
  <1>5. len \in Nat /\ len <= Len(body)
    BY <1>4, FileSystemAssumption, SmallerLarger
  <1> HIDE DEF q, idx, entry, len
  <1>6. e \in Entry
    BY <1>3, <1>4 DEF Entry
  <1>7. slot \in Slot
    <2>1. SubSeq(body, 1, len) \in Seq(Data)
      <3>1. \A i \in 1..len : body[i] \in Data
        BY <1>4, <1>5, ElementOfSeq
      <3> QED
        BY <1>5, <3>1, SubSeqProperties
    <2>2. idx \in 1..FS_MAX_FILES
      BY <1>0, <1>1, <1>2, FileSystemAssumption
    <2> QED
      BY <1>5, <2>1, <2>2 DEF Slot
  <1> HIDE DEF e, slot
  <1>8. EntriesOK'
    BY <1>1, <1>2, <1>6, PutEntryType
  <1>9. ContentsOK'
    <2>1. CASE file_contents' = file_contents
      BY <1>0, <2>1 DEF MemoryOK, ContentsOK
    <2>2. CASE SlotFor(idx) <= CONTENT_SLOTS /\ file_contents' = PutSlot(SlotFor(idx), slot)
      BY <2>2, <1>7, SearchTypes, PutSlotType
    <2> QED
      BY <1>2, <2>1, <2>2
  <1> QED
    BY <1>0, <1>2, <1>8, <1>9 DEF MemoryOK, UsersOK

(* COPY adds an entry, and a slot when the source has one.                 *)
LEMMA CopyType ==
    ASSUME TypeOK, NEW src \in AbsTokens, NEW dst \in AbsTokens, cmd_copy(src, dst)
    PROVE  MemoryOK'
  <1> DEFINE src_idx == Least(FilesNamed(src))
             dst_idx == Len(fs_table) + 1
             src_slots == SlotsOf(src_idx)
             c == Least(src_slots)
             e == [fs_table[src_idx] EXCEPT !.name = StoredName(dst)]
             slot == [file_contents[c] EXCEPT !.idx = dst_idx]
  <1>0. MemoryOK /\ dst \in Path /\ Len(fs_table) \in Nat /\ Len(file_contents) \in Nat
    BY Lengths, PathTypes
  <1>1. /\ FilesNamed(src) # {} /\ dst_idx <= FS_MAX_FILES
        /\ AddEntry(e)
        /\ file_contents' = IF src_slots # {} /\ Len(file_contents) < CONTENT_SLOTS
                            THEN Append(file_contents, slot) ELSE file_contents
        /\ UNCHANGED <<current_dir, user_table>>
    BY DEF cmd_copy
  <1>2. src_idx \in 1..Len(fs_table) /\ (src_slots # {} => c \in 1..Len(file_contents))
    BY <1>1, SearchTypes
  <1> HIDE DEF src_idx, src_slots, c
  <1>3. e \in Entry
    <2>1. fs_table[src_idx] \in Entry /\ StoredName(dst) \in Path
      BY <1>0, <1>2, Lengths, PathTypes
    <2> QED
      BY <2>1 DEF Entry
  <1> HIDE DEF e
  <1>4. EntriesOK'
    <2>1. Len(fs_table) < FS_MAX_FILES
      BY <1>0, <1>1, FileSystemAssumption
    <2> QED
      BY <1>1, <1>3, <2>1, AddEntryType
  <1>5. src_slots # {} => slot \in Slot
    <2> SUFFICES ASSUME src_slots # {} PROVE slot \in Slot
      OBVIOUS
    <2>1. file_contents[c] \in Slot
      BY <1>2, Lengths
    <2>2. dst_idx \in 1..FS_MAX_FILES
      BY <1>0, <1>1, FileSystemAssumption
    <2> QED
      BY <2>1, <2>2 DEF Slot
  <1> HIDE DEF slot
  <1>6. ContentsOK'
    BY <1>0, <1>1, <1>5, AppendProperties, FileSystemAssumption DEF MemoryOK, ContentsOK
  <1> QED
    BY <1>0, <1>1, <1>4, <1>6 DEF MemoryOK, UsersOK

(* CD changes the current directory, FORMAT empties the tables.            *)
LEMMA DirectoryType ==
    ASSUME TypeOK, cmd_cd_up \/ cmd_format \/ \E tok \in RelTokens : cmd_cd(tok)
    PROVE  MemoryOK'
  <1>0. MemoryOK
    BY Lengths
  <1>1. ASSUME NEW tok \in RelTokens, cmd_cd(tok) PROVE MemoryOK'
    BY <1>0, <1>1, PathTypes DEF cmd_cd, MemoryOK, EntriesOK, ContentsOK, UsersOK
  <1>2. CASE cmd_cd_up
    <2>1. Len(current_dir) \in Nat /\ \A i \in 1..Len(current_dir) : current_dir[i] \in STRING
      BY <1>0, LenProperties, ElementOfSeq DEF MemoryOK, Path
    <2>2. SubSeq(current_dir, 1, Len(current_dir) - 1) \in Path
      <3>1. \A i \in 1..(Len(current_dir) - 1) : current_dir[i] \in STRING
        BY <2>1
      <3> QED
        BY <2>1, <3>1, SubSeqProperties DEF Path
    <2> QED
      BY <1>0, <1>2, <2>2 DEF cmd_cd_up, MemoryOK, EntriesOK, ContentsOK, UsersOK
  <1>3. CASE cmd_format
    <2>1. <<>> \in Seq(Entry) /\ <<>> \in Seq(Slot) /\ Len(<<>>) = 0 /\ <<>> \in [1..0 -> BOOLEAN]
      BY EmptySeq
    <2> QED
      BY <1>0, <1>3, <2>1, FileSystemAssumption DEF cmd_format, MemoryOK, EntriesOK, ContentsOK, UsersOK
  <1> QED
    BY <1>1, <1>2, <1>3

(* USERADD, USERDEL and PASSWD touch nothing but the users.                *)
LEMMA UserCommandType ==
    ASSUME TypeOK, UserCommand
    PROVE  MemoryOK'
  <1>0. MemoryOK /\ Len(user_table) \in Nat /\ \A i \in 1..Len(user_table) : user_table[i] \in User
    BY Lengths
  <1>1. PICK n \in UserNames : cmd_useradd(n) \/ cmd_userdel(n) \/ cmd_passwd(n)
    BY DEF UserCommand
  <1>2. CASE cmd_useradd(n)
    <2>1. [username |-> n, hash |-> "of_name"] \in User
      BY FileSystemAssumption DEF User
    <2>2. user_table' \in Seq(User) /\ Len(user_table') = Len(user_table) + 1
      BY <1>0, <1>2, <2>1, AppendProperties DEF cmd_useradd, MemoryOK, UsersOK
    <2>3. UsersOK'
      BY <1>0, <1>2, <2>2, FileSystemAssumption DEF cmd_useradd, UsersOK
    <2> QED
      BY <1>0, <1>2, <2>3 DEF cmd_useradd, MemoryOK, EntriesOK, ContentsOK
  <1>3. CASE cmd_userdel(n)
    <2>1. Least(UsersNamed(n)) \in 1..Len(user_table)
      BY <1>3, SearchTypes DEF cmd_userdel
    <2>2. user_table' \in Seq(User) /\ Len(user_table') = Len(user_table) - 1
      BY <1>0, <1>3, <2>1, RemoveAtElements DEF cmd_userdel, MemoryOK, UsersOK
    <2>3. UsersOK'
      BY <1>0, <2>2, FileSystemAssumption DEF MemoryOK, UsersOK
    <2> QED
      BY <1>0, <1>3, <2>3 DEF cmd_userdel, MemoryOK, EntriesOK, ContentsOK
  <1>4. CASE cmd_passwd(n)
    <2> DEFINE i == Least(UsersNamed(n))
               u == [user_table[i] EXCEPT !.hash = "of_password"]
    <2>1. i \in 1..Len(user_table)
      BY <1>4, SearchTypes DEF cmd_passwd
    <2>2. user_table' = [user_table EXCEPT ![i] = u]
      BY <1>4 DEF cmd_passwd
    <2> HIDE DEF i
    <2>3. u \in User
      BY <1>0, <2>1 DEF User
    <2> HIDE DEF u
    <2>4. UsersOK'
      BY <1>0, <2>1, <2>2, <2>3, ExceptSeq DEF MemoryOK, UsersOK
    <2> QED
      BY <1>0, <1>4, <2>4 DEF cmd_passwd, MemoryOK, EntriesOK, ContentsOK
  <1> QED
    BY <1>1, <1>2, <1>3, <1>4

(* A command at the prompt: the tables keep their types and a save starts, *)
(* but for a download that finds no content slot.                          *)
LEMMA CommandType ==
    ASSUME TypeOK, FileCommand \/ UserCommand
    PROVE  /\ MemoryOK'
           /\ StartSave \/ (synced' = "no" /\ UNCHANGED <<disk, writing, faults, file_contents>>)
  <1>1. CASE UserCommand
    BY <1>1, UserCommandType DEF UserCommand, cmd_useradd, cmd_userdel, cmd_passwd
  <1>2. ASSUME NEW tok \in RelTokens, cmd_mkdir(tok) \/ cmd_touch(tok) \/ cmd_del(tok)
        PROVE  MemoryOK' /\ StartSave
    <2>1. tok \in RelTokens \cup AbsTokens
      OBVIOUS
    <2> QED
      BY <1>2, <2>1, EntryCommandType DEF cmd_mkdir, cmd_touch, cmd_del
  <1>3. ASSUME NEW tok \in AbsTokens, cmd_rmdir(tok)
        PROVE  MemoryOK' /\ StartSave
    <2>1. tok \in RelTokens \cup AbsTokens
      OBVIOUS
    <2> QED
      BY <1>3, <2>1, EntryCommandType DEF cmd_rmdir
  <1>4. ASSUME cmd_cd_up \/ cmd_format \/ \E tok \in RelTokens : cmd_cd(tok)
        PROVE  MemoryOK' /\ StartSave
    BY <1>4, DirectoryType DEF cmd_cd_up, cmd_format, cmd_cd
  <1>5. ASSUME NEW tok \in RelTokens, NEW text \in Texts, cmd_nano(tok, text)
        PROVE  MemoryOK' /\ StartSave
    BY <1>5, NanoType DEF cmd_nano
  <1>6. ASSUME NEW src \in AbsTokens, NEW dst \in AbsTokens, cmd_copy(src, dst) \/ cmd_move(src, dst)
        PROVE  MemoryOK' /\ StartSave
    BY <1>6, CopyType, MoveType DEF cmd_copy, cmd_move
  <1>7. ASSUME NEW tok \in AbsTokens, NEW mode \in Modes, cmd_chmod(mode, tok)
        PROVE  MemoryOK' /\ StartSave
    BY <1>7, ChmodType DEF cmd_chmod
  <1> QED
    BY <1>1, <1>2, <1>3, <1>4, <1>5, <1>6, <1>7, WgetType DEF FileCommand

-----------------------------------------------------------------------------
(* The writes of a save.                                                   *)

Written(w, p) ==
    \/ p = 1 /\ w = [lba |-> FS_CURDIR_LBA, val |-> DirSector(current_dir), must |-> TRUE]
    \/ \E i \in 1..TableWrites : p = 1 + i /\ w = TableWrite(i)
    \/ \E i \in 1..UserWrites : p = 1 + TableWrites + i /\ w = UserWrite(i)
    \/ \E c \in 1..Len(file_contents), r \in 1..CONTENT_SECTORS :
         /\ p = 1 + TableWrites + UserWrites + (c - 1) * CONTENT_SECTORS + r
         /\ w = ContentWrite(c, r)

(* The lengths of the parts of a save.                                     *)
LEMMA SaveParts ==
    ASSUME TypeOK
    PROVE  /\ TableWrites \in Nat /\ Len(fs_table) <= TableWrites /\ LOADED_FILES <= TableWrites
           /\ TableWrites <= FS_MAX_FILES
           /\ UserWrites \in Nat /\ Len(user_table) <= UserWrites /\ LOADED_USERS <= UserWrites
           /\ UserWrites <= FS_MAX_USERS /\ UserWrites > 0
           /\ Len(file_contents) * CONTENT_SECTORS \in Nat
           /\ SaveLength \in Nat /\ SaveLength > 1 + TableWrites
  <1>1. /\ Len(fs_table) \in Nat /\ Len(file_contents) \in Nat /\ Len(user_table) \in Nat
        /\ Len(fs_table) <= FS_MAX_FILES /\ Len(user_table) <= FS_MAX_USERS
    BY Lengths DEF TypeOK
  <1>2. /\ LOADED_FILES \in Nat /\ LOADED_USERS \in Nat /\ LOADED_USERS > 0
        /\ LOADED_FILES <= FS_MAX_FILES /\ LOADED_USERS <= FS_MAX_USERS
        /\ FS_MAX_FILES \in Nat /\ FS_MAX_USERS \in Nat /\ CONTENT_SECTORS \in Nat
    BY FileSystemAssumption
  <1>3. Len(file_contents) * CONTENT_SECTORS \in Nat
    BY <1>1, <1>2, ProductOrder
  <1>4. /\ TableWrites \in Nat /\ Len(fs_table) <= TableWrites /\ LOADED_FILES <= TableWrites
        /\ TableWrites <= FS_MAX_FILES
    BY <1>1, <1>2 DEF TableWrites, Larger
  <1>5. /\ UserWrites \in Nat /\ Len(user_table) <= UserWrites /\ LOADED_USERS <= UserWrites
        /\ UserWrites <= FS_MAX_USERS
    BY <1>1, <1>2 DEF UserWrites, Larger
  <1> QED
    BY <1>2, <1>3, <1>4, <1>5 DEF SaveLength

(* Every write of a save is of one of four kinds.                          *)
LEMMA SaveWriteKinds ==
    ASSUME TypeOK, NEW p \in 1..SaveLength
    PROVE  Written(SaveWrite(p), p)
  <1> DEFINE t == p - 1
             u == t - TableWrites
             k == u - UserWrites - 1
             n == Len(file_contents)
  <1>1. /\ TableWrites \in Nat /\ UserWrites \in Nat /\ n \in Nat
        /\ n * CONTENT_SECTORS \in Nat /\ SaveLength \in Nat
        /\ CONTENT_SECTORS \in Nat /\ CONTENT_SECTORS > 0
    BY SaveParts, Lengths, FileSystemAssumption
  <1>2. CASE t = 0
    BY <1>2 DEF SaveWrite, Written
  <1>3. CASE t # 0 /\ t <= TableWrites
    <2>1. t \in 1..TableWrites /\ p = 1 + t /\ SaveWrite(p) = TableWrite(t)
      BY <1>1, <1>3 DEF SaveWrite
    <2> QED
      BY <2>1 DEF Written
  <1>4. CASE t > TableWrites /\ u <= UserWrites
    <2>1. u \in 1..UserWrites /\ p = 1 + TableWrites + u /\ SaveWrite(p) = UserWrite(u)
      BY <1>1, <1>4 DEF SaveWrite
    <2> QED
      BY <2>1 DEF Written
  <1>5. CASE t > TableWrites /\ u > UserWrites
    <2> DEFINE c == 1 + (k \div CONTENT_SECTORS)
               r == 1 + (k % CONTENT_SECTORS)
    <2>1. k \in Nat /\ k < n * CONTENT_SECTORS
      BY <1>1, <1>5 DEF SaveLength
    <2>2. SaveWrite(p) = ContentWrite(c, r)
      BY <1>1, <1>5 DEF SaveWrite
    <2>3. /\ k \div CONTENT_SECTORS \in 0..(n - 1) /\ k % CONTENT_SECTORS \in 0..(CONTENT_SECTORS - 1)
          /\ k = CONTENT_SECTORS * (k \div CONTENT_SECTORS) + (k % CONTENT_SECTORS)
      BY <1>1, <2>1, Position
    <2>4. c \in 1..n /\ r \in 1..CONTENT_SECTORS /\ k = CONTENT_SECTORS * (c - 1) + r - 1
      BY <1>1, <2>3
    <2> HIDE DEF c, r
    <2>5. CONTENT_SECTORS * (c - 1) = (c - 1) * CONTENT_SECTORS
      BY <1>1, <2>4
    <2>6. p = 1 + TableWrites + UserWrites + (c - 1) * CONTENT_SECTORS + r
      BY <1>1, <2>4, <2>5
    <2> QED
      BY <2>2, <2>4, <2>6 DEF Written
  <1> QED
    BY <1>1, <1>2, <1>3, <1>4, <1>5

(* What a save writes are sectors.                                         *)
LEMMA SaveWriteType ==
    ASSUME TypeOK, NEW p \in 1..SaveLength
    PROVE  SaveWrite(p).val \in Sector /\ SaveWrite(p).must \in BOOLEAN
  <1> DEFINE w == SaveWrite(p)
  <1>0. Written(w, p)
    BY SaveWriteKinds
  <1> HIDE DEF w
  <1>1. CASE w = [lba |-> FS_CURDIR_LBA, val |-> DirSector(current_dir), must |-> TRUE]
    BY <1>1, SectorTypes DEF TypeOK, w
  <1>2. ASSUME NEW i \in 1..TableWrites, w = TableWrite(i)
        PROVE  w.val \in Sector /\ w.must \in BOOLEAN
    <2>1. w.must = (i <= Len(fs_table))
          /\ w.val = IF i <= Len(fs_table) THEN EntrySector(fs_table[i]) ELSE ZeroSector
      BY <1>2 DEF TableWrite
    <2>2. i <= Len(fs_table) => fs_table[i] \in Entry
      BY Lengths, SaveParts
    <2> QED
      BY <2>1, <2>2, SectorTypes
  <1>3. ASSUME NEW i \in 1..UserWrites, w = UserWrite(i)
        PROVE  w.val \in Sector /\ w.must \in BOOLEAN
    <2>1. w.must = (i <= Len(user_table))
          /\ w.val = IF i <= Len(user_table) THEN UserSector(user_table[i]) ELSE ZeroSector
      BY <1>3 DEF UserWrite
    <2>2. i <= Len(user_table) => user_table[i] \in User
      BY Lengths, SaveParts
    <2> QED
      BY <2>1, <2>2, SectorTypes
  <1>4. ASSUME NEW c \in 1..Len(file_contents), NEW r \in 1..CONTENT_SECTORS, w = ContentWrite(c, r)
        PROVE  w.val \in Sector /\ w.must \in BOOLEAN
    <2> DEFINE slot == file_contents[c]
    <2>1. slot \in Slot
      BY Lengths
    <2>2. /\ w.must = (r <= Larger(1, slot.size))
          /\ w.val = IF r > slot.size THEN ZeroSector
                     ELSE IF r <= Len(slot.data) THEN DataSector(slot.data[r])
                     ELSE DataSector(Junk)
      BY <1>4 DEF ContentWrite
    <2> HIDE DEF slot
    <2>3. Junk \in Data /\ slot.data \in Seq(Data)
      BY <2>1 DEF Data, Slot
    <2>4. Len(slot.data) \in Nat /\ r \in Nat /\ r > 0
      BY <2>3, LenProperties, FileSystemAssumption
    <2>5. r <= Len(slot.data) => slot.data[r] \in Data
      BY <2>3, <2>4, ElementOfSeq
    <2> QED
      BY <2>2, <2>3, <2>5, SectorTypes
  <1> QED
    BY <1>0, <1>1, <1>2, <1>3, <1>4 DEF Written, w

(* Sectors are read and written within the disk.                           *)
LEMMA LbaRanges ==
    /\ FS_CURDIR_LBA \in Lbas
    /\ \A i \in 1..FS_MAX_FILES : FileLba(i) \in Lbas
    /\ \A i \in 1..FS_MAX_USERS : UserLba(i) \in Lbas
    /\ \A i \in 1..FS_MAX_FILES, r \in 1..CONTENT_SECTORS :
         /\ ContentLba(i, r) \in Lbas
         /\ ContentLba(i, r) > FS_MAX_FILES + FS_MAX_USERS
  <1>0. FS_MAX_FILES \in Nat /\ FS_MAX_USERS \in Nat /\ CONTENT_SECTORS \in Nat
    BY FileSystemAssumption
  <1>1. FS_MAX_FILES * CONTENT_SECTORS \in Nat
    BY <1>0, ProductOrder
  <1>2. ASSUME NEW i \in 1..FS_MAX_FILES, NEW r \in 1..CONTENT_SECTORS
        PROVE  ContentLba(i, r) \in Lbas /\ ContentLba(i, r) > FS_MAX_FILES + FS_MAX_USERS
    <2>1. (i - 1) * CONTENT_SECTORS \in Nat
      BY <1>0, ProductOrder
    <2>2. i * CONTENT_SECTORS <= FS_MAX_FILES * CONTENT_SECTORS
      BY <1>0, ProductOrder
    <2>3. i * CONTENT_SECTORS = (i - 1) * CONTENT_SECTORS + CONTENT_SECTORS
      BY <1>0
    <2> QED
      BY <1>0, <1>1, <2>1, <2>2, <2>3 DEF ContentLba, Lbas
  <1> QED
    BY <1>0, <1>1, <1>2 DEF Lbas, FS_CURDIR_LBA, FileLba, UserLba

(* What a boot reads.                                                      *)
LEMMA LoadType ==
    ASSUME TypeOK, NEW bad \in Lbas \cup {NoLba}, fs_load_from_disk(bad)
    PROVE  MemoryOK'
  <1>0. /\ LOADED_FILES \in Nat /\ LOADED_USERS \in Nat /\ FS_MAX_FILES \in Nat /\ FS_MAX_USERS \in Nat
        /\ LOADED_FILES <= FS_MAX_FILES /\ LOADED_USERS <= FS_MAX_USERS /\ FS_MAX_USERS > 0
        /\ CONTENT_SECTORS \in Nat /\ MAX_FILE_SIZE \in Nat /\ CONTENT_SLOTS \in Nat
        /\ MAX_FILE_SIZE <= CONTENT_SECTORS
    BY FileSystemAssumption
  <1>1. PICK t \in Ascending(TableSectors(bad)), u \in Ascending(UserSectors(bad)) :
          LET table == [k \in 1..Len(t) |-> disk[FileLba(t[k])].entry] IN
          \E c \in Ascending(WithContent(table)) :
            /\ fs_table' = table
            /\ file_contents' = [k \in 1..Smaller(Len(c), CONTENT_SLOTS) |->
                                    LoadedSlot(table, c[k], bad)]
            /\ user_table' = IF u = <<>> THEN <<DefaultUser>>
                             ELSE [k \in 1..Len(u) |-> disk[UserLba(u[k])].user]
            /\ saved' = [k \in 1..Len(table) |-> bad = NoLba]
    BY DEF fs_load_from_disk
  <1> DEFINE table == [k \in 1..Len(t) |-> disk[FileLba(t[k])].entry]
  <1>2. PICK c \in Ascending(WithContent(table)) :
            /\ fs_table' = table
            /\ file_contents' = [k \in 1..Smaller(Len(c), CONTENT_SLOTS) |->
                                    LoadedSlot(table, c[k], bad)]
            /\ user_table' = IF u = <<>> THEN <<DefaultUser>>
                             ELSE [k \in 1..Len(u) |-> disk[UserLba(u[k])].user]
            /\ saved' = [k \in 1..Len(table) |-> bad = NoLba]
    BY <1>1
  <1>3. /\ Len(t) \in 0..LOADED_FILES
        /\ \A k \in 1..Len(t) : t[k] \in TableSectors(bad) /\ k <= t[k]
    <2>1. TableSectors(bad) \subseteq 1..LOADED_FILES
      BY DEF TableSectors
    <2> QED
      BY <1>0, <2>1, AscendingBounds
  <1>4. ASSUME NEW i \in TableSectors(bad) PROVE disk[FileLba(i)].entry \in Entry
    <2>1. i \in 1..LOADED_FILES /\ disk[FileLba(i)].tag = "entry"
      BY DEF TableSectors
    <2>2. disk[FileLba(i)] \in Sector
      BY <1>0, <2>1, LbaRanges DEF TypeOK
    <2> QED
      BY <2>1, <2>2, SectorTags
  <1>5. table \in Seq(Entry) /\ Len(table) = Len(t) /\ table \in [1..Len(t) -> Entry]
    <2>1. table \in [1..Len(t) -> Entry]
      BY <1>3, <1>4
    <2> QED
      BY <1>0, <1>3, <2>1, FunctionIsSeq
  <1> HIDE DEF table
  <1>6. EntriesOK'
    BY <1>0, <1>2, <1>3, <1>5 DEF EntriesOK
  <1>7. UsersOK'
    <2>1. UserSectors(bad) \subseteq 1..LOADED_USERS
      BY DEF UserSectors
    <2>2. Len(u) \in 0..LOADED_USERS /\ \A k \in 1..Len(u) : u[k] \in UserSectors(bad)
      BY <1>0, <2>1, AscendingBounds
    <2>3. ASSUME NEW i \in UserSectors(bad) PROVE disk[UserLba(i)].user \in User
      <3>1. i \in 1..LOADED_USERS /\ disk[UserLba(i)].tag = "user"
        BY DEF UserSectors
      <3>2. disk[UserLba(i)] \in Sector
        BY <1>0, <3>1, LbaRanges DEF TypeOK
      <3> QED
        BY <3>1, <3>2, SectorTags
    <2> DEFINE users == [k \in 1..Len(u) |-> disk[UserLba(u[k])].user]
    <2>4. users \in [1..Len(u) -> User]
      BY <2>2, <2>3
    <2>5. users \in Seq(User) /\ Len(users) = Len(u)
      BY <1>0, <2>2, <2>4, FunctionIsSeq
    <2>6. <<DefaultUser>> \in Seq(User) /\ Len(<<DefaultUser>>) = 1
      <3>1. DefaultUser \in User
        BY StringAssumption DEF DefaultUser, User
      <3> QED
        BY <3>1
    <2> QED
      BY <1>0, <1>2, <2>2, <2>5, <2>6 DEF UsersOK
  <1>8. ContentsOK'
    <2>1. WithContent(table) \subseteq 1..LOADED_FILES
      BY <1>0, <1>3, <1>5 DEF WithContent
    <2>2. Len(c) \in 0..LOADED_FILES /\ \A k \in 1..Len(c) : c[k] \in WithContent(table)
      BY <1>0, <2>1, AscendingBounds
    <2>3. Smaller(Len(c), CONTENT_SLOTS) \in Nat /\ Smaller(Len(c), CONTENT_SLOTS) <= Len(c)
          /\ Smaller(Len(c), CONTENT_SLOTS) <= CONTENT_SLOTS
      <3>1. Len(c) \in Nat
        BY <1>0, <2>2
      <3> QED
        BY <1>0, <3>1, SmallerLarger
    <2>4. ASSUME NEW i \in WithContent(table) PROVE LoadedSlot(table, i, bad) \in Slot
      <3>1. i \in 1..Len(t) /\ table[i].size \in Nat /\ i \in 1..FS_MAX_FILES
        BY <1>0, <1>3, <1>5 DEF WithContent, Entry
      <3> DEFINE n == Smaller(table[i].size, MAX_FILE_SIZE)
      <3>2. n \in Nat
        BY <1>0, <3>1, SmallerLarger
      <3> HIDE DEF n
      <3>3. ASSUME NEW k \in 1..n PROVE ReadChunk(i, table[i].size, k, bad) \in Data
        <4> DEFINE q == IF \E r \in 1..k : ContentLba(i, r) = bad THEN k + 1 ELSE k
        <4>1. q \in Nat /\ q > 0
          BY <3>2
        <4> HIDE DEF q
        <4>2. ASSUME q <= Smaller(table[i].size, CONTENT_SECTORS) PROVE disk[ContentLba(i, q)] \in Sector
          <5>1. q \in 1..CONTENT_SECTORS
            BY <1>0, <3>1, <4>1, <4>2 DEF Smaller
          <5> QED
            BY <3>1, <5>1, LbaRanges DEF TypeOK
        <4>3. Zero \in Data
          BY DEF Data
        <4> QED
          BY <4>2, <4>3, SectorTags DEF ReadChunk, q
      <3> DEFINE d == [k \in 1..n |-> ReadChunk(i, table[i].size, k, bad)]
      <3>4. d \in Seq(Data)
        <4>1. d \in [1..n -> Data]
          BY <3>3
        <4> QED
          BY <3>2, <4>1, FunctionIsSeq
      <3>5. LoadedSlot(table, i, bad) = [idx |-> i, size |-> table[i].size, data |-> d]
        BY DEF LoadedSlot, n
      <3> HIDE DEF d
      <3> QED
        BY <3>1, <3>4, <3>5 DEF Slot
    <2> DEFINE m == Smaller(Len(c), CONTENT_SLOTS)
               contents == [k \in 1..m |-> LoadedSlot(table, c[k], bad)]
    <2>5. contents \in [1..m -> Slot]
      BY <2>2, <2>3, <2>4
    <2>6. contents \in Seq(Slot) /\ Len(contents) = m
      BY <2>3, <2>5, FunctionIsSeq
    <2> QED
      BY <1>2, <2>3, <2>6 DEF ContentsOK
  <1>9. current_dir' \in Path
    <2>1. disk[FS_CURDIR_LBA] \in Sector
      BY LbaRanges DEF TypeOK
    <2>2. <<"C:">> \in Path
      BY StringAssumption DEF Path
    <2> QED
      BY <2>1, <2>2, SectorTags DEF fs_load_from_disk
  <1> QED
    BY <1>6, <1>7, <1>8, <1>9 DEF MemoryOK

-----------------------------------------------------------------------------
(* The first boot, with an empty disk.                                     *)
LEMMA TypeInit == Init => TypeOK
  <1> SUFFICES ASSUME Init PROVE TypeOK
    OBVIOUS
  <1>1. DefaultUser \in User /\ <<"C:">> \in Path
    BY StringAssumption DEF DefaultUser, User, Path
  <1>2. /\ fs_table \in Seq(Entry) /\ Len(fs_table) = 0
        /\ file_contents \in Seq(Slot) /\ Len(file_contents) = 0
        /\ user_table \in Seq(User) /\ Len(user_table) = 1
        /\ saved \in [1..0 -> BOOLEAN]
    BY <1>1, EmptySeq DEF Init
  <1>3. SaveLength \in Nat
    <2>1. 0 \in Nat /\ 1 \in Nat
      OBVIOUS
    <2>2. 1 + Larger(0, LOADED_FILES) + Larger(1, LOADED_USERS) + 0 * CONTENT_SECTORS \in Nat \ {0}
      BY <2>1, SaveIsNotEmpty
    <2> QED
      BY <1>2, <2>2 DEF SaveLength, TableWrites, UserWrites
  <1>4. disk \in [Lbas -> Sector] /\ overrun \in BOOLEAN
    BY SectorTypes DEF Init
  <1> QED
    BY <1>1, <1>2, <1>3, <1>4, FileSystemAssumption DEF Init, TypeOK

(* The save of the new tables has a first write.                           *)
LEMMA NewSaveLength ==
    ASSUME MemoryOK'
    PROVE  SaveLength' \in Nat \ {0}
  <1>1. Len(fs_table') \in Nat /\ Len(user_table') \in Nat /\ Len(file_contents') \in Nat
    BY LenProperties DEF MemoryOK, EntriesOK, ContentsOK, UsersOK
  <1>2. 1 + Larger(Len(fs_table'), LOADED_FILES) + Larger(Len(user_table'), LOADED_USERS)
          + Len(file_contents') * CONTENT_SECTORS \in Nat \ {0}
    BY <1>1, SaveIsNotEmpty
  <1> QED
    BY <1>2 DEF SaveLength, TableWrites, UserWrites

(* What a step does: the defined ones leave overrun alone, and a COPY that *)
(* leaves file_contents changes nothing else the invariants speak of.      *)
LEMMA NextCases ==
    ASSUME [Next]_vars
    PROVE  \/ Defined /\ UNCHANGED overrun
           \/ CopyOverruns
           \/ UNCHANGED vars
  BY DEF Next

(* A COPY that leaves file_contents is where the model stops.              *)
LEMMA OverrunKeeps ==
    ASSUME CopyOverruns
    PROVE  UNCHANGED <<current_dir, fs_table, file_contents, user_table, saved, disk, writing,
                       faults, synced>>
  BY DEF CopyOverruns, cmd_copy_overruns, memory

(* Every step of a command, a save and a boot keeps the types.             *)
LEMMA TypeStep == TypeOK /\ [Next]_vars => TypeOK'
  <1> SUFFICES ASSUME TypeOK, [Next]_vars PROVE TypeOK'
    OBVIOUS
  <1>0. MaxFaults \in Nat /\ MaxCommands \in Nat /\ SaveLength \in Nat
    BY FileSystemAssumption, SaveParts
  <1>7. overrun' \in BOOLEAN
    BY NextCases DEF CopyOverruns, cmd_copy_overruns, vars, TypeOK
  <1>1. CASE Command
    <2>1. commands' \in 0..MaxCommands
      BY <1>0, <1>1 DEF Command, Prompt, TypeOK
    <2>2. MemoryOK' /\ SaveLength' \in Nat \ {0}
      BY <1>1, CommandType, NewSaveLength DEF Command
    <2>3. /\ disk' = disk /\ faults' = faults
          /\ \/ writing' = 1 /\ synced' = "busy"
             \/ writing' = 0 /\ synced' = "no"
      BY <1>1, CommandType DEF Command, Prompt, Idle, StartSave
    <2> QED
      BY <1>7, <2>1, <2>2, <2>3 DEF TypeOK, MemoryOK, EntriesOK, ContentsOK, UsersOK
  <1>2. CASE WriteSector
    <2>1. writing \in 1..SaveLength
      BY <1>0, <1>2 DEF WriteSector, TypeOK
    <2>2. disk' \in [Lbas -> Sector]
      BY <1>2, <2>1, SaveWriteType DEF WriteSector, TypeOK
    <2>3. writing' \in 0..SaveLength
      BY <1>0, <1>2, <2>1 DEF WriteSector, AfterWrite
    <2>4. saved' \in [1..Len(fs_table) -> BOOLEAN]
      BY <1>2 DEF WriteSector, AllSaved, TypeOK
    <2>5. SaveLength' = SaveLength
      BY <1>2 DEF WriteSector, memory, SaveLength, TableWrites, UserWrites
    <2> QED
      BY <1>2, <1>7, <2>2, <2>3, <2>4, <2>5 DEF WriteSector, memory, TypeOK
  <1>3. CASE WriteFails
    <2>1. writing \in 1..SaveLength
      BY <1>0, <1>3 DEF WriteFails, TypeOK
    <2>3. writing' \in 0..SaveLength
      BY <1>0, <1>3, <2>1 DEF WriteFails, AfterWrite
    <2>4. saved' \in [1..Len(fs_table) -> BOOLEAN]
      BY <1>3 DEF WriteFails, AllSaved, TypeOK
    <2>5. SaveLength' = SaveLength
      BY <1>3 DEF WriteFails, memory, SaveLength, TableWrites, UserWrites
    <2>6. faults' \in 0..MaxFaults
      BY <1>0, <1>3 DEF WriteFails, TypeOK
    <2> QED
      BY <1>3, <1>7, <2>3, <2>4, <2>5, <2>6 DEF WriteFails, memory, TypeOK
  <1>4. ASSUME NEW bad \in Lbas \cup {NoLba}, PowerCycle(bad) PROVE TypeOK'
    <2>1. MemoryOK' /\ SaveLength' \in Nat
      BY <1>4, LoadType, NewSaveLength DEF PowerCycle
    <2>2. faults' \in 0..MaxFaults
      BY <1>0, <1>4 DEF PowerCycle, TypeOK
    <2> QED
      BY <1>4, <1>7, <2>1, <2>2 DEF PowerCycle, TypeOK, MemoryOK, EntriesOK, ContentsOK, UsersOK
  <1>5. CASE UNCHANGED vars
    BY <1>5 DEF vars, TypeOK, SaveLength, TableWrites, UserWrites
  <1>6. CASE CopyOverruns
    <2>1. /\ UNCHANGED <<memory, saved, disk, writing, faults, synced>>
          /\ overrun' \in BOOLEAN /\ commands' \in 0..MaxCommands
      BY <1>0, <1>6 DEF CopyOverruns, Prompt, cmd_copy_overruns, TypeOK
    <2> QED
      BY <2>1 DEF memory, TypeOK, SaveLength, TableWrites, UserWrites
  <1> QED
    BY <1>1, <1>2, <1>3, <1>4, <1>5, <1>6, NextCases DEF Defined

(* Until a COPY leaves file_contents, the tables stay within their arrays, *)
(* every content slot points into the table's range, and a save ends where *)
(* it should.                                                              *)
THEOREM TypeCorrect == Spec => []TypeOK
  BY TypeInit, TypeStep, PTL DEF Spec

-----------------------------------------------------------------------------
(* The survival of saved entries.                                          *)

(* A save that has come past an entry has written it: only the result of a *)
(* clearing write is ignored.                                              *)
Rewritten ==
    \A i \in 1..Len(fs_table) :
      i + 1 < writing => disk[FileLba(i)] = EntrySector(fs_table[i])

(* A saved entry is on the disk where a boot reads it, at its own position *)
(* or behind it: deleting entries only moves the others up, and a save     *)
(* writes from the front.                                                  *)
Kept ==
    \A i \in 1..Len(fs_table) : saved[i] =>
      \E j \in i..LOADED_FILES :
        /\ disk[FileLba(j)] = EntrySector(fs_table[i])
        /\ \A k \in 1..j : disk[FileLba(k)].tag = "entry"

(* The last of the first p writes of the save to each sector is on disk.   *)
Done(p) ==
    \A q \in 1..p :
      (\A r \in (q + 1)..p : SaveWrite(r).lba # SaveWrite(q).lba) =>
        disk[SaveWrite(q).lba] = SaveWrite(q).val

SaveInv ==
    /\ synced = "busy" => writing > 0 /\ Done(writing - 1)
    /\ synced = "yes" => writing = 0 /\ Done(SaveLength)

(* A slot holds as much of its file as fits.                               *)
SlotInv ==
    \A c \in 1..Len(file_contents) :
      Len(file_contents[c].data) = Smaller(file_contents[c].size, MAX_FILE_SIZE)

IInv == TypeOK /\ Rewritten /\ Kept /\ SaveInv /\ SlotInv

(* A save only reaches the sectors of the disk, and reaches the sector of  *)
(* the file table's position j with its (j + 1)-st write alone.            *)
LEMMA SaveWriteLba ==
    ASSUME TypeOK, NEW p \in 1..SaveLength
    PROVE  /\ SaveWrite(p).lba \in Lbas
           /\ \A j \in 1..FS_MAX_FILES : SaveWrite(p).lba = FileLba(j) =>
                p = 1 + j /\ j \in 1..TableWrites /\ SaveWrite(p) = TableWrite(j)
           /\ p - 1 \in 1..TableWrites => SaveWrite(p) = TableWrite(p - 1)
  <1> DEFINE w == SaveWrite(p)
  <1>0. Written(w, p)
    BY SaveWriteKinds
  <1>1. /\ TableWrites \in Nat /\ UserWrites \in Nat /\ CONTENT_SECTORS \in Nat
        /\ FS_MAX_FILES \in Nat /\ FS_MAX_USERS \in Nat
        /\ TableWrites <= FS_MAX_FILES /\ UserWrites <= FS_MAX_USERS
    BY SaveParts, FileSystemAssumption
  <1> DEFINE Goal ==
           /\ w.lba \in Lbas
           /\ \A j \in 1..FS_MAX_FILES : w.lba = FileLba(j) =>
                p = 1 + j /\ j \in 1..TableWrites /\ w = TableWrite(j)
           /\ p - 1 \in 1..TableWrites => w = TableWrite(p - 1)
  <1> HIDE DEF w
  <1>2. ASSUME p = 1, w = [lba |-> FS_CURDIR_LBA, val |-> DirSector(current_dir), must |-> TRUE]
        PROVE  Goal
    <2>1. w.lba = 0 /\ w.lba \in Lbas
      BY <1>2, LbaRanges DEF FS_CURDIR_LBA
    <2> QED
      BY <1>1, <1>2, <2>1 DEF FileLba
  <1>3. ASSUME NEW i \in 1..TableWrites, p = 1 + i, w = TableWrite(i) PROVE Goal
    <2>1. w.lba = i /\ i \in 1..FS_MAX_FILES
      BY <1>1, <1>3 DEF TableWrite, FileLba
    <2>2. w.lba \in Lbas
      BY <2>1, LbaRanges DEF FileLba
    <2>3. p - 1 = i
      BY <1>1, <1>3
    <2> QED
      BY <1>3, <2>1, <2>2, <2>3 DEF FileLba
  <1>4. ASSUME NEW i \in 1..UserWrites, p = 1 + TableWrites + i, w = UserWrite(i) PROVE Goal
    <2>1. w.lba = FS_MAX_FILES + i /\ i \in 1..FS_MAX_USERS
      BY <1>1, <1>4 DEF UserWrite, UserLba
    <2>2. w.lba \in Lbas
      BY <2>1, LbaRanges DEF UserLba
    <2>3. p - 1 \notin 1..TableWrites
      BY <1>1, <1>4
    <2> QED
      BY <1>1, <2>1, <2>2, <2>3 DEF FileLba
  <1>5. ASSUME NEW c \in 1..Len(file_contents), NEW r \in 1..CONTENT_SECTORS,
               p = 1 + TableWrites + UserWrites + (c - 1) * CONTENT_SECTORS + r,
               w = ContentWrite(c, r)
        PROVE  Goal
    <2>0. file_contents[c].idx \in 1..FS_MAX_FILES /\ Len(file_contents) \in Nat
      BY Lengths DEF Slot
    <2>1. w.lba = ContentLba(file_contents[c].idx, r)
      BY <1>5 DEF ContentWrite
    <2>2. w.lba \in Lbas /\ w.lba > FS_MAX_FILES + FS_MAX_USERS
      BY <2>0, <2>1, LbaRanges
    <2>3. (c - 1) * CONTENT_SECTORS \in Nat
      BY <1>1, <2>0, ProductOrder
    <2>4. p - 1 \notin 1..TableWrites
      BY <1>1, <1>5, <2>3
    <2> QED
      BY <1>1, <2>2, <2>4 DEF FileLba
  <1>6. Goal
    BY <1>0, <1>2, <1>3, <1>4, <1>5 DEF Written
  <1> QED
    BY <1>6 DEF w

(* A write of the save goes to one sector.                                 *)
LEMMA DiskAfterWrite ==
    ASSUME TypeOK, WriteSector
    PROVE  \A l \in Lbas : disk'[l] = IF l = SaveWrite(writing).lba THEN SaveWrite(writing).val
                                      ELSE disk[l]
  BY DEF WriteSector, TypeOK

(* A write of the save brings the table forward.                           *)
LEMMA RewrittenWrite ==
    ASSUME TypeOK, Rewritten, WriteSector \/ WriteFails
    PROVE  Rewritten'
  <1>0. /\ Len(fs_table) \in Nat /\ TableWrites \in Nat /\ SaveLength \in Nat /\ FS_MAX_FILES \in Nat
        /\ Len(fs_table) <= TableWrites /\ TableWrites <= FS_MAX_FILES
    BY Lengths, SaveParts, FileSystemAssumption
  <1>1. writing \in 1..SaveLength /\ fs_table' = fs_table
    BY <1>0 DEF WriteSector, WriteFails, TypeOK, memory
  <1> DEFINE w == SaveWrite(writing)
  <1> SUFFICES ASSUME NEW i \in 1..Len(fs_table), i + 1 < writing'
               PROVE  disk'[FileLba(i)] = EntrySector(fs_table[i])
    BY <1>1 DEF Rewritten
  <1>2. FileLba(i) \in Lbas /\ i \in 1..FS_MAX_FILES /\ i \in 1..TableWrites
    <2>1. i \in 1..FS_MAX_FILES /\ i \in 1..TableWrites
      BY <1>0
    <2> QED
      BY <2>1, LbaRanges
  <1>3. w.lba = FileLba(i) => w = TableWrite(i)
    BY <1>1, <1>2, SaveWriteLba
  <1>4. i + 1 = writing => w = TableWrite(i)
    <2>1. i + 1 = writing => writing - 1 = i
      BY <1>1
    <2> QED
      BY <1>1, <1>2, <2>1, SaveWriteLba
  <1>5. TableWrite(i).val = EntrySector(fs_table[i]) /\ TableWrite(i).lba = FileLba(i)
        /\ TableWrite(i).must
    <2>1. i <= Len(fs_table)
      BY <1>0
    <2> QED
      BY <2>1 DEF TableWrite
  <1>6. i + 1 < writing => disk[FileLba(i)] = EntrySector(fs_table[i])
    BY DEF Rewritten
  <1>7. CASE WriteSector
    <2>1. i + 1 < writing \/ i + 1 = writing
      BY <1>0, <1>1, <1>7 DEF WriteSector, AfterWrite
    <2>2. disk'[FileLba(i)] = IF FileLba(i) = w.lba THEN w.val ELSE disk[FileLba(i)]
      BY <1>2, <1>7, DiskAfterWrite
    <2> HIDE DEF w
    <2> QED
      BY <1>3, <1>4, <1>5, <1>6, <2>1, <2>2
  <1>8. CASE WriteFails
    <2>1. ~w.must /\ (i + 1 < writing \/ i + 1 = writing)
      BY <1>0, <1>1, <1>8 DEF WriteFails, AfterWrite
    <2>2. disk' = disk
      BY <1>8 DEF WriteFails
    <2> HIDE DEF w
    <2> QED
      BY <1>4, <1>5, <1>6, <2>1, <2>2
  <1> QED
    BY <1>7, <1>8

(* The ascending rewrite never destroys the only copy of a saved entry.    *)
LEMMA KeptWrite ==
    ASSUME TypeOK, Rewritten, Kept, WriteSector \/ WriteFails
    PROVE  Kept'
  <1>0. /\ Len(fs_table) \in Nat /\ TableWrites \in Nat /\ SaveLength \in Nat /\ FS_MAX_FILES \in Nat
        /\ Len(fs_table) <= TableWrites /\ TableWrites <= FS_MAX_FILES
        /\ LOADED_FILES \in Nat /\ LOADED_FILES <= FS_MAX_FILES /\ SaveLength > 1 + TableWrites
    BY Lengths, SaveParts, FileSystemAssumption
  <1>1. writing \in 1..SaveLength /\ fs_table' = fs_table
    BY <1>0 DEF WriteSector, WriteFails, TypeOK, memory
  <1> DEFINE w == SaveWrite(writing)
  <1>2. \A i \in 1..LOADED_FILES : FileLba(i) \in Lbas /\ i \in 1..FS_MAX_FILES
    <2>1. \A i \in 1..LOADED_FILES : i \in 1..FS_MAX_FILES
      BY <1>0
    <2> QED
      BY <2>1, LbaRanges
  <1>3. \A i \in 1..LOADED_FILES : w.lba = FileLba(i) =>
           writing = 1 + i /\ w.val = IF i <= Len(fs_table) THEN EntrySector(fs_table[i]) ELSE ZeroSector
    <2> TAKE i \in 1..LOADED_FILES
    <2>1. w.lba = FileLba(i) => writing = 1 + i /\ w = TableWrite(i)
      BY <1>1, <1>2, SaveWriteLba
    <2> QED
      BY <2>1 DEF TableWrite
  <1>4. \A i \in 1..LOADED_FILES :
           disk'[FileLba(i)] = disk[FileLba(i)]
             \/ (disk'[FileLba(i)] = w.val /\ w.lba = FileLba(i))
    <2>1. CASE WriteFails
      BY <2>1 DEF WriteFails
    <2>2. CASE WriteSector
      BY <2>2, <1>2, DiskAfterWrite
    <2> QED
      BY <2>1, <2>2
  <1>5. \A i \in 1..LOADED_FILES :
           disk'[FileLba(i)] = disk[FileLba(i)]
             \/ /\ writing = 1 + i
                /\ disk'[FileLba(i)] = IF i <= Len(fs_table) THEN EntrySector(fs_table[i]) ELSE ZeroSector
    BY <1>3, <1>4
  <1>6. saved' = saved \/ (writing = SaveLength /\ saved' = AllSaved)
    BY DEF WriteSector, WriteFails
  <1> HIDE DEF w
  <1>7. \A e : EntrySector(e).tag = "entry"
    BY DEF EntrySector
  <1>8. \A i \in 1..Len(fs_table) : i + 1 < writing => disk[FileLba(i)] = EntrySector(fs_table[i])
    BY DEF Rewritten
  <1> SUFFICES ASSUME NEW i \in 1..Len(fs_table), saved'[i]
               PROVE  \E j \in i..LOADED_FILES :
                        /\ disk'[FileLba(j)] = EntrySector(fs_table[i])
                        /\ \A k \in 1..j : disk'[FileLba(k)].tag = "entry"
    BY <1>1 DEF Kept
  <1>9. CASE writing = SaveLength /\ saved' = AllSaved
    <2>1. i <= LOADED_FILES
      BY <1>9 DEF AllSaved
    <2>2. \A k \in 1..i : disk'[FileLba(k)] = EntrySector(fs_table[k])
      <3> TAKE k \in 1..i
      <3>1. k \in 1..LOADED_FILES /\ k \in 1..Len(fs_table) /\ k + 1 < writing
        BY <1>0, <1>9, <2>1
      <3> QED
        BY <1>5, <1>8, <3>1
    <2>3. i \in i..LOADED_FILES /\ i \in 1..i
      BY <1>0, <2>1
    <2> QED
      BY <1>7, <2>2, <2>3
  <1>10. CASE saved' = saved
    <2>1. PICK j \in i..LOADED_FILES :
                        /\ disk[FileLba(j)] = EntrySector(fs_table[i])
                        /\ \A k \in 1..j : disk[FileLba(k)].tag = "entry"
      BY <1>10 DEF Kept
    <2>2. j \in 1..LOADED_FILES /\ i <= j /\ i \in 1..LOADED_FILES /\ i \in i..LOADED_FILES
      BY <1>0
    <2>0. CASE WriteFails
      BY <2>0, <2>1 DEF WriteFails
    <2> SUFFICES ASSUME WriteSector
                 PROVE  \E m \in i..LOADED_FILES :
                          /\ disk'[FileLba(m)] = EntrySector(fs_table[i])
                          /\ \A k \in 1..m : disk'[FileLba(k)].tag = "entry"
      BY <2>0
    <2>3. CASE i + 1 > writing
      <3>1. disk'[FileLba(j)] = disk[FileLba(j)]
        BY <1>0, <1>1, <1>5, <2>2, <2>3
      <3>2. ASSUME NEW k \in 1..j PROVE disk'[FileLba(k)].tag = "entry"
        <4>1. k \in 1..LOADED_FILES
          BY <1>0, <2>2
        <4>2. CASE disk'[FileLba(k)] = disk[FileLba(k)]
          BY <2>1, <4>2
        <4>3. CASE /\ writing = 1 + k
                   /\ disk'[FileLba(k)] = IF k <= Len(fs_table) THEN EntrySector(fs_table[k]) ELSE ZeroSector
          <5>1. k <= Len(fs_table)
            BY <1>0, <2>3, <4>3, <4>1
          <5> QED
            BY <1>7, <4>3, <5>1
        <4> QED
          BY <1>5, <4>1, <4>2, <4>3
      <3> QED
        BY <2>1, <2>2, <3>1, <3>2
    <2>4. CASE i + 1 <= writing
      <3>1. disk'[FileLba(i)] = EntrySector(fs_table[i])
        <4>1. CASE i + 1 < writing
          BY <4>1, <1>0, <1>5, <1>8, <2>2
        <4>2. CASE i + 1 = writing
          <5>1. w = TableWrite(i)
            <6>1. writing - 1 = i /\ writing - 1 \in 1..TableWrites
              BY <1>0, <1>1, <4>2
            <6> QED
              BY <1>1, <6>1, SaveWriteLba DEF w
          <5>2. w.lba = FileLba(i) /\ w.val = EntrySector(fs_table[i])
            BY <1>0, <5>1 DEF TableWrite
          <5> QED
            BY <1>2, <2>2, <5>2, DiskAfterWrite DEF w
        <4> QED
          BY <1>0, <1>1, <2>4, <4>1, <4>2
      <3>2. ASSUME NEW k \in 1..i PROVE disk'[FileLba(k)].tag = "entry"
        <4>1. CASE k = i
          BY <1>7, <3>1, <4>1
        <4>2. CASE k < i
          <5>1. k \in 1..LOADED_FILES /\ k \in 1..j /\ k <= Len(fs_table)
            BY <1>0, <2>2, <4>2
          <5> QED
            BY <1>5, <1>7, <2>1, <5>1
        <4> QED
          BY <1>0, <4>1, <4>2
      <3> QED
        BY <2>2, <3>1, <3>2
    <2> QED
      BY <1>0, <1>1, <2>3, <2>4
  <1> QED
    BY <1>6, <1>9, <1>10

(* A command takes the entries it does not mark from their own position or *)
(* from one behind it.                                                     *)
Carried ==
    \A i \in 1..Len(fs_table') : saved'[i] =>
      \E h \in i..Len(fs_table) : saved[h] /\ fs_table'[i] = fs_table[h]

(* Entries that are carried are still on the disk.                         *)
LEMMA CarriedKept ==
    ASSUME TypeOK, TypeOK', Kept, Carried, disk' = disk
    PROVE  Kept'
  <1>1. Len(fs_table) \in Nat /\ Len(fs_table') \in Nat /\ LOADED_FILES \in Nat
    BY LenProperties, FileSystemAssumption DEF TypeOK
  <1> SUFFICES ASSUME NEW i \in 1..Len(fs_table'), saved'[i]
               PROVE  \E j \in i..LOADED_FILES :
                        /\ disk[FileLba(j)] = EntrySector(fs_table'[i])
                        /\ \A k \in 1..j : disk[FileLba(k)].tag = "entry"
    BY DEF Kept
  <1>2. PICK h \in i..Len(fs_table) : saved[h] /\ fs_table'[i] = fs_table[h]
    BY DEF Carried
  <1>3. h \in 1..Len(fs_table) /\ h >= i
    BY <1>1
  <1>4. PICK j \in h..LOADED_FILES :
                        /\ disk[FileLba(j)] = EntrySector(fs_table[h])
                        /\ \A k \in 1..j : disk[FileLba(k)].tag = "entry"
    BY <1>2, <1>3 DEF Kept
  <1>5. j \in i..LOADED_FILES
    BY <1>1, <1>3
  <1> QED
    BY <1>2, <1>4, <1>5

(* A table that stays, gains, changes or loses an entry is carried.        *)
LEMMA EntriesCarried ==
    ASSUME TypeOK, NEW e, NEW i,
           \/ UNCHANGED <<fs_table, saved>>
           \/ AddEntry(e)
           \/ i \in 1..Len(fs_table) /\ SetEntry(i, e)
           \/ i \in 1..Len(fs_table) /\ DropEntry(i)
    PROVE  Carried
  <1>0. Len(fs_table) \in Nat /\ saved \in Seq(BOOLEAN) /\ Len(saved) = Len(fs_table)
        /\ fs_table \in Seq(Entry)
    BY FunctionIsSeq, Lengths DEF TypeOK
  <1>1. CASE UNCHANGED <<fs_table, saved>>
    BY <1>0, <1>1 DEF Carried
  <1>2. CASE AddEntry(e)
    <2>1. /\ Len(fs_table') = Len(fs_table) + 1
          /\ \A k \in 1..Len(fs_table) : fs_table'[k] = fs_table[k] /\ saved'[k] = saved[k]
          /\ saved'[Len(fs_table) + 1] = FALSE
      <3>1. fs_table \in Seq(Entry \cup {e}) /\ e \in Entry \cup {e}
        BY <1>0, SeqMonotonic
      <3>2. /\ Len(fs_table') = Len(fs_table) + 1
            /\ \A k \in 1..Len(fs_table) : fs_table'[k] = fs_table[k]
        BY <1>2, <3>1, AppendProperties DEF AddEntry
      <3>3. /\ \A k \in 1..Len(fs_table) : saved'[k] = saved[k]
            /\ saved'[Len(fs_table) + 1] = FALSE
        <4>1. saved' = Append(saved, FALSE) /\ FALSE \in BOOLEAN
          BY <1>2, Zenon DEF AddEntry
        <4>2. ASSUME NEW x \in BOOLEAN
              PROVE  /\ \A k \in 1..Len(saved) : Append(saved, x)[k] = saved[k]
                     /\ Append(saved, x)[Len(saved) + 1] = x
          BY <1>0, AppendProperties
        <4> QED
          BY <1>0, <4>1, <4>2, Zenon
      <3> QED
        BY <3>2, <3>3
    <2> QED
      BY <1>0, <2>1 DEF Carried
  <1>3. CASE i \in 1..Len(fs_table) /\ SetEntry(i, e)
    <2>1. /\ Len(fs_table') = Len(fs_table)
          /\ \A k \in 1..Len(fs_table) : k # i => fs_table'[k] = fs_table[k] /\ saved'[k] = saved[k]
          /\ saved'[i] = FALSE
      BY <1>0, <1>3 DEF SetEntry
    <2> QED
      BY <1>0, <2>1 DEF Carried
  <1>4. CASE i \in 1..Len(fs_table) /\ DropEntry(i)
    <2>1. /\ Len(fs_table') = Len(fs_table) - 1
          /\ \A k \in 1..(Len(fs_table) - 1) :
                fs_table'[k] = IF k < i THEN fs_table[k] ELSE fs_table[k + 1]
      BY <1>0, <1>4, RemoveAtElements DEF DropEntry
    <2>2. \A k \in 1..(Len(fs_table) - 1) :
                saved'[k] = IF k < i THEN saved[k] ELSE saved[k + 1]
      BY <1>0, <1>4, RemoveAtElements DEF DropEntry
    <2> QED
      BY <1>0, <2>1, <2>2 DEF Carried
  <1> QED
    BY <1>1, <1>2, <1>3, <1>4

(* Every command carries the entries it does not mark.                     *)
LEMMA CommandCarries ==
    ASSUME TypeOK, FileCommand \/ UserCommand
    PROVE  Carried
  <1>0. Len(fs_table) \in Nat
    BY Lengths
  <1>1. CASE UserCommand
    BY <1>1, EntriesCarried DEF UserCommand, cmd_useradd, cmd_userdel, cmd_passwd
  <1>2. ASSUME NEW tok \in RelTokens, cmd_mkdir(tok) \/ cmd_touch(tok) \/ cmd_del(tok) \/ cmd_cd(tok)
        PROVE  Carried
    BY <1>2, EntriesCarried, SearchTypes DEF cmd_mkdir, cmd_touch, cmd_del, cmd_cd
  <1>3. ASSUME NEW tok \in AbsTokens, cmd_rmdir(tok)
        PROVE  Carried
    BY <1>3, EntriesCarried, SearchTypes DEF cmd_rmdir
  <1>4. CASE cmd_cd_up
    BY <1>4, EntriesCarried DEF cmd_cd_up
  <1>5. CASE cmd_format
    BY <1>5 DEF cmd_format, Carried
  <1>6. ASSUME NEW e, NEW i, PutEntry(i, e), i \in 1..(Len(fs_table) + 1)
        PROVE  Carried
    <2>1. i > Len(fs_table) \/ i \in 1..Len(fs_table)
      BY <1>0, <1>6
    <2> QED
      BY <1>0, <1>6, <2>1, EntriesCarried DEF PutEntry
  <1>7. ASSUME NEW tok \in RelTokens, NEW text \in Texts, cmd_nano(tok, text)
        PROVE  Carried
    <2> DEFINE q == full_path(tok)
               file_idx == IF FilesNamed(q) = {} THEN Len(fs_table) + 1 ELSE Least(FilesNamed(q))
    <2>1. file_idx \in 1..(Len(fs_table) + 1)
      BY <1>0, SearchTypes
    <2>2. \E e : PutEntry(file_idx, e)
      BY <1>7 DEF cmd_nano
    <2> HIDE DEF file_idx
    <2> QED
      BY <1>6, <2>1, <2>2
  <1>8. ASSUME NEW tok \in RelTokens \cup AbsTokens, NEW body \in Bodies, save_file_content(tok, body)
        PROVE  Carried
    <2> DEFINE q == IF tok[1] = "C:" THEN tok ELSE full_path(tok)
               idx == IF Named(q) = {} THEN Len(fs_table) + 1 ELSE Least(Named(q))
    <2>1. idx \in 1..(Len(fs_table) + 1)
      BY <1>0, SearchTypes
    <2>2. \E e : PutEntry(idx, e)
      BY <1>8 DEF save_file_content
    <2> HIDE DEF idx
    <2> QED
      BY <1>6, <2>1, <2>2
  <1>9. ASSUME NEW src \in AbsTokens, NEW dst \in AbsTokens, cmd_copy(src, dst) \/ cmd_move(src, dst)
        PROVE  Carried
    BY <1>9, EntriesCarried, SearchTypes DEF cmd_copy, cmd_move
  <1>10. ASSUME NEW tok \in AbsTokens, NEW mode \in Modes, cmd_chmod(mode, tok)
        PROVE  Carried
    BY <1>10, EntriesCarried, SearchTypes DEF cmd_chmod
  <1> QED
    BY <1>1, <1>2, <1>3, <1>4, <1>5, <1>7, <1>8, <1>9, <1>10 DEF FileCommand

(* After a boot every entry is on the disk at or behind its position.      *)
LEMMA KeptLoad ==
    ASSUME TypeOK, NEW bad \in Lbas \cup {NoLba}, PowerCycle(bad)
    PROVE  Kept'
  <1>0. LOADED_FILES \in Nat /\ FS_MAX_FILES \in Nat /\ LOADED_FILES <= FS_MAX_FILES
    BY FileSystemAssumption
  <1>1. PICK t \in Ascending(TableSectors(bad)) :
          /\ fs_table' = [k \in 1..Len(t) |-> disk[FileLba(t[k])].entry]
          /\ saved' = [k \in 1..Len(fs_table') |-> bad = NoLba]
    BY DEF PowerCycle, fs_load_from_disk
  <1>2. Len(t) \in 0..LOADED_FILES /\ \A k \in 1..Len(t) : t[k] \in TableSectors(bad) /\ k <= t[k]
    <2>1. TableSectors(bad) \subseteq 1..LOADED_FILES
      BY DEF TableSectors
    <2> QED
      BY <1>0, <2>1, AscendingBounds
  <1>3. Len(fs_table') = Len(t) /\ disk' = disk
    BY <1>0, <1>1, <1>2 DEF PowerCycle
  <1> SUFFICES ASSUME NEW i \in 1..Len(t), bad = NoLba
               PROVE  \E j \in i..LOADED_FILES :
                        /\ disk[FileLba(j)] = EntrySector(disk[FileLba(t[i])].entry)
                        /\ \A k \in 1..j : disk[FileLba(k)].tag = "entry"
    BY <1>1, <1>3 DEF Kept
  <1>4. t[i] \in 1..LOADED_FILES /\ t[i] \in i..LOADED_FILES
    BY <1>0, <1>2 DEF TableSectors
  <1>5. \A k \in 1..t[i] : disk[FileLba(k)].tag = "entry"
    <2> TAKE k \in 1..t[i]
    <2>1. FileLba(k) # NoLba
      BY <1>4 DEF FileLba, NoLba
    <2> QED
      BY <1>2, <2>1 DEF TableSectors
  <1>6. disk[FileLba(t[i])] = EntrySector(disk[FileLba(t[i])].entry)
    <2>1. t[i] \in 1..FS_MAX_FILES /\ t[i] \in 1..t[i]
      BY <1>0, <1>4
    <2>2. disk[FileLba(t[i])] \in Sector
      BY <2>1, LbaRanges DEF TypeOK
    <2> QED
      BY <1>5, <2>1, <2>2, SectorTags
  <1> QED
    BY <1>4, <1>5, <1>6

(* While the tables stay, so do the writes of the save.                    *)
LEMMA SameWrites ==
    ASSUME UNCHANGED memory
    PROVE  SaveLength' = SaveLength /\ \A p : SaveWrite(p)' = SaveWrite(p)
  BY DEF memory, SaveLength, TableWrites, UserWrites, SaveWrite, TableWrite, UserWrite, ContentWrite

(* Of several writes to one sector the last one stays.                     *)
LEMMA DoneWrite ==
    ASSUME TypeOK, WriteSector, NEW p \in 1..SaveLength, p = writing, Done(p - 1)
    PROVE  Done(p)'
  <1>0. SaveLength \in Nat
    BY SaveParts
  <1>1. \A q : SaveWrite(q)' = SaveWrite(q)
    BY SameWrites DEF WriteSector
  <1> SUFFICES ASSUME NEW q \in 1..p,
                      \A r \in (q + 1)..p : SaveWrite(r).lba # SaveWrite(q).lba
               PROVE  disk'[SaveWrite(q).lba] = SaveWrite(q).val
    BY <1>1 DEF Done
  <1>2. q \in 1..SaveLength
    BY <1>0
  <1>3. SaveWrite(q).lba \in Lbas
    BY <1>2, SaveWriteLba
  <1>4. disk'[SaveWrite(q).lba] = IF SaveWrite(q).lba = SaveWrite(p).lba THEN SaveWrite(p).val
                                  ELSE disk[SaveWrite(q).lba]
    BY <1>3, DiskAfterWrite
  <1>5. CASE q = p
    BY <1>4, <1>5
  <1>6. CASE q # p
    <2>1. q \in 1..(p - 1) /\ p \in (q + 1)..p
      BY <1>0, <1>6
    <2>2. \A r \in (q + 1)..(p - 1) : r \in (q + 1)..p
      BY <1>0
    <2> QED
      BY <1>4, <2>1, <2>2 DEF Done
  <1> QED
    BY <1>5, <1>6

(* The save as a whole.                                                    *)
LEMMA SaveInvStep ==
    ASSUME TypeOK, SaveInv, [Next]_vars
    PROVE  SaveInv'
  <1>0. SaveLength \in Nat
    BY SaveParts
  <1>1. CASE Command
    <2>1. \/ writing' = 1 /\ synced' = "busy"
          \/ synced' = "no"
      BY <1>1, CommandType DEF Command, StartSave
    <2>2. writing' = 1 => Done(writing - 1)'
      BY DEF Done
    <2> QED
      BY <2>1, <2>2 DEF SaveInv
  <1>2. CASE WriteSector
    <2>0. SaveLength' = SaveLength
      BY <1>2, SameWrites DEF WriteSector
    <2>1. PICK p \in 1..SaveLength : p = writing
      BY <1>0, <1>2 DEF WriteSector, TypeOK
    <2>2. synced = "busy" => Done(p)'
      BY <1>2, <2>1, DoneWrite DEF SaveInv
    <2>3. synced # "yes"
      BY <1>2, <2>1 DEF SaveInv
    <2>4. CASE p = SaveLength
      <3>1. writing' = 0 /\ (synced = "busy" => synced' = "yes") /\ (synced # "busy" => synced' = synced)
        BY <1>2, <2>1, <2>4 DEF WriteSector, AfterWrite
      <3>2. Done(p)' => Done(SaveLength)'
        BY <2>0, <2>4 DEF Done
      <3> QED
        BY <2>2, <2>3, <3>1, <3>2 DEF SaveInv
    <2>5. CASE p # SaveLength
      <3>1. writing' = p + 1 /\ synced' = synced
        BY <1>2, <2>1, <2>5 DEF WriteSector, AfterWrite
      <3>2. Done(p)' => Done(writing - 1)'
        <4>1. writing' - 1 = p
          BY <3>1
        <4> QED
          BY <4>1 DEF Done
      <3>3. writing' > 0
        BY <3>1
      <3> QED
        BY <2>2, <2>3, <3>1, <3>2, <3>3 DEF SaveInv
    <2> QED
      BY <2>4, <2>5
  <1>3. CASE WriteFails
    BY <1>3 DEF WriteFails, SaveInv
  <1>4. ASSUME NEW bad \in Lbas \cup {NoLba}, PowerCycle(bad) PROVE SaveInv'
    BY <1>4 DEF PowerCycle, SaveInv
  <1>5. CASE UNCHANGED vars \/ CopyOverruns
    <2>1. UNCHANGED memory /\ UNCHANGED disk /\ writing' = writing /\ synced' = synced
      BY <1>5, OverrunKeeps DEF vars, memory
    <2>2. SaveLength' = SaveLength /\ \A q : SaveWrite(q)' = SaveWrite(q)
      BY <2>1, SameWrites
    <2>3. Done(SaveLength) => Done(SaveLength)'
      BY <2>1, <2>2 DEF Done
    <2>4. Done(writing - 1) => Done(writing - 1)'
      BY <2>1, <2>2 DEF Done
    <2> QED
      BY <2>1, <2>3, <2>4 DEF SaveInv
  <1> QED
    BY <1>1, <1>2, <1>3, <1>4, <1>5, OverrunKeeps, NextCases DEF Defined

-----------------------------------------------------------------------------
(* The content slots.                                                      *)

Fits(slot) == Len(slot.data) = Smaller(slot.size, MAX_FILE_SIZE)

(* Putting a slot that fits.                                               *)
LEMMA PutSlotFits ==
    ASSUME TypeOK, SlotInv, NEW slot, Fits(slot), NEW c \in 1..(Len(file_contents) + 1),
           file_contents' = PutSlot(c, slot)
    PROVE  SlotInv'
  <1>0. Len(file_contents) \in Nat /\ file_contents \in Seq(Slot \cup {slot}) /\ slot \in Slot \cup {slot}
    BY Lengths, SeqMonotonic DEF TypeOK
  <1>1. CASE c <= Len(file_contents)
    <2>1. /\ Len(file_contents') = Len(file_contents)
          /\ \A k \in 1..Len(file_contents) :
               file_contents'[k] = IF k = c THEN slot ELSE file_contents[k]
      <3>1. c \in 1..Len(file_contents) /\ file_contents' = [file_contents EXCEPT ![c] = slot]
        BY <1>0, <1>1 DEF PutSlot
      <3> QED
        BY <1>0, <3>1, ExceptSeq
    <2> QED
      BY <2>1 DEF SlotInv, Fits
  <1>2. CASE ~(c <= Len(file_contents))
    <2>1. /\ Len(file_contents') = Len(file_contents) + 1
          /\ \A k \in 1..Len(file_contents) : file_contents'[k] = file_contents[k]
          /\ file_contents'[Len(file_contents) + 1] = slot
      BY <1>0, <1>2, AppendProperties DEF PutSlot
    <2>2. \A k \in 1..Len(file_contents') : k \in 1..Len(file_contents) \/ k = Len(file_contents) + 1
      BY <1>0, <2>1
    <2> QED
      BY <2>1, <2>2 DEF SlotInv, Fits
  <1> QED
    BY <1>1, <1>2

(* The slots NANO, WGET and COPY write fit, and the other commands write   *)
(* none.                                                                   *)
LEMMA CommandFits ==
    ASSUME TypeOK, SlotInv, FileCommand \/ UserCommand
    PROVE  SlotInv'
  <1>0. MAX_FILE_SIZE \in Nat /\ Len(file_contents) \in Nat
    BY FileSystemAssumption, Lengths
  <1>1. CASE UNCHANGED file_contents
    BY <1>1 DEF SlotInv
  <1>2. CASE cmd_format
    BY <1>2 DEF cmd_format, SlotInv
  <1>3. ASSUME NEW tok \in RelTokens, NEW text \in Texts, cmd_nano(tok, text)
        PROVE  SlotInv'
    <2>1. PICK i : file_contents' = PutSlot(SlotFor(i), [idx |-> i, size |-> Len(text), data |-> text])
      BY <1>3 DEF cmd_nano
    <2>2. Len(text) \in 1..MAX_FILE_SIZE
      <3>1. PICK n \in 1..MAX_FILE_SIZE : text \in [1..n -> Chunks]
        BY DEF Texts
      <3> QED
        BY <1>0, <3>1, FunctionIsSeq
    <2>3. Fits([idx |-> i, size |-> Len(text), data |-> text])
      BY <1>0, <2>2 DEF Fits, Smaller
    <2> QED
      BY <2>1, <2>3, SearchTypes, PutSlotFits
  <1>4. ASSUME NEW tok \in RelTokens \cup AbsTokens, NEW body \in Bodies, save_file_content(tok, body)
        PROVE  SlotInv'
    <2> DEFINE len == Smaller(Len(body), MAX_FILE_SIZE)
    <2>1. \/ UNCHANGED file_contents
          \/ \E i : file_contents' = PutSlot(SlotFor(i), [idx |-> i, size |-> len,
                                                          data |-> SubSeq(body, 1, len)])
      BY <1>4 DEF save_file_content
    <2>2. body \in Seq(Data) /\ Len(body) \in Nat
      BY TextTypes
    <2>3. len \in Nat /\ len <= Len(body) /\ len <= MAX_FILE_SIZE
      BY <1>0, <2>2, SmallerLarger
    <2> HIDE DEF len
    <2>4. Len(SubSeq(body, 1, len)) = len
      <3>1. \A i \in 1..len : body[i] \in Data
        BY <2>2, <2>3, ElementOfSeq
      <3> QED
        BY <2>3, <3>1, SubSeqProperties
    <2>5. \A i : Fits([idx |-> i, size |-> len, data |-> SubSeq(body, 1, len)])
      BY <1>0, <2>3, <2>4 DEF Fits, Smaller
    <2>6. ASSUME NEW i, file_contents' = PutSlot(SlotFor(i), [idx |-> i, size |-> len,
                                                          data |-> SubSeq(body, 1, len)])
          PROVE  SlotInv'
      BY <2>5, <2>6, SearchTypes, PutSlotFits
    <2> QED
      BY <1>1, <2>1, <2>6
  <1>5. ASSUME NEW src \in AbsTokens, NEW dst \in AbsTokens, cmd_copy(src, dst)
        PROVE  SlotInv'
    <2> DEFINE s == SlotsOf(Least(FilesNamed(src)))
               c == Least(s)
               slot == [file_contents[c] EXCEPT !.idx = Len(fs_table) + 1]
    <2>1. \/ UNCHANGED file_contents
          \/ s # {} /\ file_contents' = Append(file_contents, slot)
      BY <1>5 DEF cmd_copy
    <2>2. s # {} => c \in 1..Len(file_contents)
      BY SearchTypes
    <2> HIDE DEF s, c
    <2>3. ASSUME s # {}, file_contents' = Append(file_contents, slot)
          PROVE  SlotInv'
      <3>1. file_contents[c] \in Slot /\ Fits(file_contents[c])
        BY <2>2, <2>3, Lengths DEF SlotInv, Fits
      <3>2. slot.data = file_contents[c].data /\ slot.size = file_contents[c].size
        BY <3>1 DEF Slot
      <3>3. Fits(slot)
        BY <3>1, <3>2 DEF Fits
      <3> HIDE DEF slot
      <3>4. file_contents' = PutSlot(Len(file_contents) + 1, slot)
        BY <1>0, <2>3 DEF PutSlot
      <3>5. Len(file_contents) + 1 \in 1..(Len(file_contents) + 1)
        BY <1>0
      <3> QED
        BY <3>3, <3>4, <3>5, PutSlotFits
    <2> QED
      BY <1>1, <2>1, <2>3
  <1>6. CASE UserCommand
    BY <1>1, <1>6 DEF UserCommand, cmd_useradd, cmd_userdel, cmd_passwd
  <1>7. ASSUME NEW tok, cmd_mkdir(tok) \/ cmd_touch(tok) \/ cmd_del(tok) \/ cmd_cd(tok) \/ cmd_rmdir(tok)
        PROVE  SlotInv'
    BY <1>1, <1>7 DEF cmd_mkdir, cmd_touch, cmd_del, cmd_cd, cmd_rmdir
  <1>8. ASSUME NEW tok, NEW dst, cmd_cd_up \/ cmd_move(tok, dst) \/ cmd_chmod(dst, tok)
        PROVE  SlotInv'
    BY <1>1, <1>8 DEF cmd_cd_up, cmd_move, cmd_chmod
  <1> QED
    BY <1>2, <1>3, <1>4, <1>5, <1>6, <1>7, <1>8 DEF FileCommand

(* The slots a boot fills fit.                                             *)
LEMMA LoadFits ==
    ASSUME TypeOK, NEW bad \in Lbas \cup {NoLba}, PowerCycle(bad)
    PROVE  SlotInv'
  <1>0. LOADED_FILES \in Nat /\ MAX_FILE_SIZE \in Nat /\ CONTENT_SLOTS \in Nat
    BY FileSystemAssumption
  <1>1. PICK c \in Ascending(WithContent(fs_table')) :
           file_contents' = [k \in 1..Smaller(Len(c), CONTENT_SLOTS) |-> LoadedSlot(fs_table', c[k], bad)]
    <2>1. PICK t \in Ascending(TableSectors(bad)) :
            LET table == [k \in 1..Len(t) |-> disk[FileLba(t[k])].entry] IN
            \E c \in Ascending(WithContent(table)) :
              /\ fs_table' = table
              /\ file_contents' = [k \in 1..Smaller(Len(c), CONTENT_SLOTS) |->
                                      LoadedSlot(table, c[k], bad)]
      BY Zenon DEF PowerCycle, fs_load_from_disk
    <2> DEFINE table == [k \in 1..Len(t) |-> disk[FileLba(t[k])].entry]
    <2>2. PICK c \in Ascending(WithContent(table)) :
              /\ fs_table' = table
              /\ file_contents' = [k \in 1..Smaller(Len(c), CONTENT_SLOTS) |->
                                      LoadedSlot(table, c[k], bad)]
      BY <2>1, Zenon
    <2> HIDE DEF table
    <2> QED
      BY <2>2, Zenon
  <1>2. MemoryOK'
    BY LoadType DEF PowerCycle
  <1>3. Len(fs_table') \in Nat /\ \A i \in 1..Len(fs_table') : fs_table'[i] \in Entry
    BY <1>2, LenProperties, ElementOfSeq DEF MemoryOK, EntriesOK
  <1>4. Len(c) \in Nat /\ \A k \in 1..Len(c) : c[k] \in 1..Len(fs_table')
    <2>1. WithContent(fs_table') \subseteq 1..Len(fs_table')
      BY DEF WithContent
    <2> QED
      BY <1>3, <2>1, AscendingBounds
  <1>5. ASSUME NEW i \in 1..Len(fs_table') PROVE Fits(LoadedSlot(fs_table', i, bad))
    <2> DEFINE n == Smaller(fs_table'[i].size, MAX_FILE_SIZE)
               d == [k \in 1..n |-> ReadChunk(i, fs_table'[i].size, k, bad)]
    <2>1. n \in Nat
      BY <1>0, <1>3, SmallerLarger DEF Entry
    <2>2. LoadedSlot(fs_table', i, bad) = [idx |-> i, size |-> fs_table'[i].size, data |-> d]
      BY DEF LoadedSlot
    <2>3. Len(d) = n
      BY <2>1
    <2> HIDE DEF d
    <2>4. LoadedSlot(fs_table', i, bad).data = d /\ LoadedSlot(fs_table', i, bad).size = fs_table'[i].size
      BY <2>2
    <2> QED
      BY <2>3, <2>4 DEF Fits
  <1>6. Smaller(Len(c), CONTENT_SLOTS) \in Nat /\ Smaller(Len(c), CONTENT_SLOTS) <= Len(c)
    BY <1>0, <1>4, SmallerLarger
  <1>7. Len(file_contents') = Smaller(Len(c), CONTENT_SLOTS)
    BY <1>1, <1>6
  <1> QED
    BY <1>1, <1>4, <1>5, <1>6, <1>7 DEF SlotInv, Fits

-----------------------------------------------------------------------------
(* The inductive invariant.                                                *)
LEMMA InvInit == Init => IInv
  <1> SUFFICES ASSUME Init PROVE IInv
    OBVIOUS
  <1>1. TypeOK
    BY TypeInit
  <1> QED
    BY <1>1 DEF Init, IInv, Rewritten, Kept, SaveInv, SlotInv

(* Every step preserves it.                                                *)
LEMMA InvStep == IInv /\ [Next]_vars => IInv'
  <1> SUFFICES ASSUME IInv, [Next]_vars PROVE IInv'
    OBVIOUS
  <1>1. TypeOK /\ TypeOK' /\ SaveInv'
    BY TypeStep, SaveInvStep DEF IInv
  <1>2. CASE Command
    <2>1. disk' = disk /\ (writing' = 0 \/ writing' = 1)
      BY <1>1, <1>2, CommandType DEF Command, Prompt, Idle, StartSave
    <2>2. Kept'
      BY <1>1, <1>2, <2>1, CommandCarries, CarriedKept DEF Command, IInv
    <2>3. Rewritten'
      BY <2>1, <1>1, LenProperties DEF Rewritten, TypeOK
    <2>4. SlotInv'
      BY <1>1, <1>2, CommandFits DEF Command, IInv
    <2> QED
      BY <1>1, <2>2, <2>3, <2>4 DEF IInv
  <1>3. CASE WriteSector \/ WriteFails
    <2>1. SlotInv'
      BY <1>3 DEF WriteSector, WriteFails, memory, IInv, SlotInv
    <2> QED
      BY <1>1, <1>3, <2>1, RewrittenWrite, KeptWrite DEF IInv
  <1>4. ASSUME NEW bad \in Lbas \cup {NoLba}, PowerCycle(bad) PROVE IInv'
    <2>1. Rewritten'
      BY <1>1, <1>4, LenProperties DEF PowerCycle, Rewritten, TypeOK
    <2> QED
      BY <1>1, <1>4, <2>1, KeptLoad, LoadFits DEF IInv
  <1>5. CASE UNCHANGED vars \/ CopyOverruns
    BY <1>1, <1>5, OverrunKeeps DEF vars, IInv, Rewritten, Kept, SlotInv
  <1> QED
    BY <1>2, <1>3, <1>4, <1>5, NextCases DEF Defined

(* IInv holds in every state.                                              *)
LEMMA InvCorrect == Spec => []IInv
  BY InvInit, InvStep, PTL DEF Spec

(* However a save is cut short, by a power failure after any sector or by  *)
(* a disk error, a boot still finds every entry that was saved once and    *)
(* has not been changed or removed since: for tables of every size.        *)
THEOREM SurviveCorrect == Spec => []SavedEntriesSurvive
  <1>1. IInv => SavedEntriesSurvive
    <2> SUFFICES ASSUME IInv, NEW i \in 1..Len(fs_table), saved[i]
                 PROVE  fs_table[i] \in OnDisk
      BY DEF SavedEntriesSurvive
    <2>1. PICK j \in i..LOADED_FILES :
             /\ disk[FileLba(j)] = EntrySector(fs_table[i])
             /\ \A k \in 1..j : disk[FileLba(k)].tag = "entry"
      BY DEF IInv, Kept
    <2>2. j \in 1..LOADED_FILES /\ FileLba(j) # NoLba
      BY Lengths, FileSystemAssumption DEF IInv, FileLba, NoLba
    <2>3. j \in TableSectors(NoLba)
      BY <2>1, <2>2 DEF TableSectors
    <2>4. disk[FileLba(j)].entry = fs_table[i]
      BY <2>1 DEF EntrySector
    <2> QED
      BY <2>3, <2>4 DEF OnDisk
  <1> QED
    BY <1>1, InvCorrect, PTL

-----------------------------------------------------------------------------
(* What a completed save leaves on the disk.                               *)

(* Quotient and remainder are unique.                                      *)
LEMMA OnePosition ==
    ASSUME NEW m \in Nat, NEW a \in Nat, NEW b \in Nat, NEW r \in 0..(m - 1), NEW s \in 0..(m - 1),
           a * m + r = b * m + s
    PROVE  a = b /\ r = s
  <1>1. ASSUME NEW x \in Nat, NEW y \in Nat, x < y PROVE x * m + m <= y * m
    <2>1. (x + 1) * m <= y * m
      BY <1>1, ProductOrder
    <2>2. (x + 1) * m = x * m + m
      OBVIOUS
    <2> QED
      BY <2>1, <2>2
  <1>2. a * m \in Nat /\ b * m \in Nat
    BY ProductOrder
  <1>3. ~(a < b) /\ ~(b < a)
    BY <1>1, <1>2
  <1> QED
    BY <1>2, <1>3

(* The writes of a save by what they write.                                *)
LEMMA WriteAt ==
    ASSUME TypeOK
    PROVE  /\ SaveWrite(1) = [lba |-> FS_CURDIR_LBA, val |-> DirSector(current_dir), must |-> TRUE]
           /\ \A i \in 1..TableWrites : SaveWrite(1 + i) = TableWrite(i)
           /\ \A i \in 1..UserWrites : SaveWrite(1 + TableWrites + i) = UserWrite(i)
           /\ \A c \in 1..Len(file_contents), r \in 1..CONTENT_SECTORS :
                SaveWrite(1 + TableWrites + UserWrites + (c - 1) * CONTENT_SECTORS + r) = ContentWrite(c, r)
  <1>1. /\ TableWrites \in Nat /\ UserWrites \in Nat /\ Len(file_contents) \in Nat
        /\ CONTENT_SECTORS \in Nat /\ CONTENT_SECTORS > 0
    BY SaveParts, Lengths, FileSystemAssumption
  <1>2. ASSUME NEW i \in 1..TableWrites PROVE SaveWrite(1 + i) = TableWrite(i)
    BY <1>1 DEF SaveWrite
  <1>3. ASSUME NEW i \in 1..UserWrites PROVE SaveWrite(1 + TableWrites + i) = UserWrite(i)
    BY <1>1 DEF SaveWrite
  <1>4. ASSUME NEW c \in 1..Len(file_contents), NEW r \in 1..CONTENT_SECTORS
        PROVE  SaveWrite(1 + TableWrites + UserWrites + (c - 1) * CONTENT_SECTORS + r) = ContentWrite(c, r)
    <2> DEFINE m == (c - 1) * CONTENT_SECTORS
               p == 1 + TableWrites + UserWrites + m + r
               k == m + r - 1
               q == k \div CONTENT_SECTORS
               x == k % CONTENT_SECTORS
    <2>1. m \in Nat /\ c - 1 \in Nat
      BY <1>1, ProductOrder
    <2>2. k \in Nat
      BY <1>1, <2>1
    <2> HIDE DEF k
    <2>3. q \in Nat /\ x \in 0..(CONTENT_SECTORS - 1) /\ k = CONTENT_SECTORS * q + x
      BY <1>1, <2>2
    <2> HIDE DEF q, x
    <2>4. k = q * CONTENT_SECTORS + x
      BY <1>1, <2>3
    <2>5. k = (c - 1) * CONTENT_SECTORS + (r - 1)
      BY <1>1, <2>1 DEF k
    <2>6. r - 1 \in 0..(CONTENT_SECTORS - 1)
      BY <1>1
    <2>7. q = c - 1 /\ x = r - 1
      BY <1>1, <2>1, <2>3, <2>4, <2>5, <2>6, OnePosition
    <2> HIDE DEF m
    <2>8. p - 1 - TableWrites - UserWrites - 1 = k
      BY <1>1, <2>1 DEF k
    <2>9. p - 1 # 0 /\ ~(p - 1 <= TableWrites) /\ ~(p - 1 - TableWrites <= UserWrites)
      BY <1>1, <2>1
    <2> HIDE DEF p
    <2>10. SaveWrite(p) = ContentWrite(1 + q, 1 + x)
      BY <2>8, <2>9 DEF SaveWrite, q, x
    <2>11. 1 + q = c /\ 1 + x = r
      BY <2>7, <1>1
    <2> QED
      BY <2>10, <2>11 DEF p, m
  <1> QED
    BY <1>2, <1>3, <1>4 DEF SaveWrite

(* The areas of the disk do not overlap.                                   *)
LEMMA Areas ==
    /\ \A i \in 1..FS_MAX_FILES, r \in 1..CONTENT_SECTORS :
         \A j \in 1..FS_MAX_FILES, s \in 1..CONTENT_SECTORS :
           ContentLba(i, r) = ContentLba(j, s) => i = j /\ r = s
    /\ \A i \in 1..FS_MAX_FILES, r \in 1..CONTENT_SECTORS :
         /\ ContentLba(i, r) # FS_CURDIR_LBA
         /\ \A j \in 1..FS_MAX_FILES : ContentLba(i, r) # FileLba(j)
         /\ \A j \in 1..FS_MAX_USERS : ContentLba(i, r) # UserLba(j)
    /\ \A i \in 1..FS_MAX_FILES, j \in 1..FS_MAX_USERS : FileLba(i) # UserLba(j)
    /\ \A i \in 1..FS_MAX_FILES : FileLba(i) # FS_CURDIR_LBA
    /\ \A i \in 1..FS_MAX_USERS : UserLba(i) # FS_CURDIR_LBA
  <1>1. FS_MAX_FILES \in Nat /\ FS_MAX_USERS \in Nat /\ CONTENT_SECTORS \in Nat
    BY FileSystemAssumption
  <1>2. ASSUME NEW i \in 1..FS_MAX_FILES, NEW r \in 1..CONTENT_SECTORS,
               NEW j \in 1..FS_MAX_FILES, NEW s \in 1..CONTENT_SECTORS,
               ContentLba(i, r) = ContentLba(j, s)
        PROVE  i = j /\ r = s
    <2>1. i - 1 \in Nat /\ j - 1 \in Nat /\ r - 1 \in 0..(CONTENT_SECTORS - 1)
          /\ s - 1 \in 0..(CONTENT_SECTORS - 1)
      BY <1>1
    <2>2. (i - 1) * CONTENT_SECTORS \in Nat /\ (j - 1) * CONTENT_SECTORS \in Nat
      BY <1>1, <2>1, ProductOrder
    <2>3. (i - 1) * CONTENT_SECTORS + r = (j - 1) * CONTENT_SECTORS + s
      BY <1>1, <1>2, <2>2 DEF ContentLba
    <2>4. (i - 1) * CONTENT_SECTORS + (r - 1) = (j - 1) * CONTENT_SECTORS + (s - 1)
      BY <1>1, <2>2, <2>3
    <2>5. i - 1 = j - 1 /\ r - 1 = s - 1
      BY <1>1, <2>1, <2>4, OnePosition
    <2> QED
      BY <1>1, <2>5
  <1>3. ASSUME NEW i \in 1..FS_MAX_FILES, NEW r \in 1..CONTENT_SECTORS
        PROVE  /\ ContentLba(i, r) # FS_CURDIR_LBA
               /\ \A j \in 1..FS_MAX_FILES : ContentLba(i, r) # FileLba(j)
               /\ \A j \in 1..FS_MAX_USERS : ContentLba(i, r) # UserLba(j)
    <2>1. ContentLba(i, r) > FS_MAX_FILES + FS_MAX_USERS
      BY LbaRanges
    <2> QED
      BY <1>1, <2>1 DEF FS_CURDIR_LBA, FileLba, UserLba
  <1> QED
    BY <1>1, <1>2, <1>3 DEF FS_CURDIR_LBA, FileLba, UserLba

(* A sector that the save writes once holds what was written.              *)
LEMMA OnlyWrite ==
    ASSUME TypeOK, Done(SaveLength), NEW q \in 1..SaveLength,
           \A p \in 1..SaveLength : SaveWrite(p).lba = SaveWrite(q).lba => p = q
    PROVE  disk[SaveWrite(q).lba] = SaveWrite(q).val
  <1>1. SaveLength \in Nat
    BY SaveParts
  <1>2. \A r \in (q + 1)..SaveLength : r \in 1..SaveLength /\ r # q
    BY <1>1
  <1> QED
    BY <1>2 DEF Done

(* The disk after a save that met no error.  A content sector is compared  *)
(* only when one slot has its file's index.                                *)
LEMMA DiskAfterSave ==
    ASSUME TypeOK, Done(SaveLength)
    PROVE  /\ disk[FS_CURDIR_LBA] = DirSector(current_dir)
           /\ \A i \in 1..TableWrites : disk[FileLba(i)] = TableWrite(i).val
           /\ \A i \in 1..UserWrites : disk[UserLba(i)] = UserWrite(i).val
           /\ \A c \in 1..Len(file_contents), r \in 1..CONTENT_SECTORS :
                SlotsOf(file_contents[c].idx) = {c} =>
                  disk[ContentLba(file_contents[c].idx, r)] = ContentWrite(c, r).val
  <1>1. /\ TableWrites \in Nat /\ UserWrites \in Nat /\ Len(file_contents) \in Nat
        /\ CONTENT_SECTORS \in Nat /\ CONTENT_SECTORS > 0 /\ FS_MAX_FILES \in Nat /\ FS_MAX_USERS \in Nat
        /\ TableWrites <= FS_MAX_FILES /\ UserWrites <= FS_MAX_USERS
        /\ Len(file_contents) * CONTENT_SECTORS \in Nat
        /\ SaveLength = 1 + TableWrites + UserWrites + Len(file_contents) * CONTENT_SECTORS
    BY SaveParts, Lengths, FileSystemAssumption DEF SaveLength
  <1>2. /\ \A i \in 1..TableWrites : i \in 1..FS_MAX_FILES
        /\ \A i \in 1..UserWrites : i \in 1..FS_MAX_USERS
        /\ \A c \in 1..Len(file_contents) : file_contents[c].idx \in 1..FS_MAX_FILES
    BY <1>1, Lengths DEF Slot
  <1>3. /\ \A i : TableWrite(i).lba = FileLba(i) /\ UserWrite(i).lba = UserLba(i)
        /\ \A c, r : ContentWrite(c, r).lba = ContentLba(file_contents[c].idx, r)
    BY DEF TableWrite, UserWrite, ContentWrite
  <1> DEFINE d == [lba |-> FS_CURDIR_LBA, val |-> DirSector(current_dir), must |-> TRUE]
  <1>4. ASSUME NEW q \in 1..SaveLength, SaveWrite(q).lba = FS_CURDIR_LBA PROVE q = 1
    BY <1>2, <1>3, <1>4, SaveWriteKinds, Areas DEF Written
  <1>5. ASSUME NEW i \in 1..TableWrites, NEW q \in 1..SaveLength, SaveWrite(q).lba = FileLba(i)
        PROVE  q = 1 + i
    BY <1>2, <1>5, SaveWriteLba
  <1>6. ASSUME NEW i \in 1..UserWrites, NEW q \in 1..SaveLength, SaveWrite(q).lba = UserLba(i)
        PROVE  q = 1 + TableWrites + i
    <2>1. Written(SaveWrite(q), q)
      BY SaveWriteKinds
    <2>2. SaveWrite(q) # d
      BY <1>2, <1>6, Areas
    <2>3. \A j \in 1..TableWrites : SaveWrite(q) # TableWrite(j)
      BY <1>2, <1>3, <1>6, Areas
    <2>4. \A c \in 1..Len(file_contents), r \in 1..CONTENT_SECTORS : SaveWrite(q) # ContentWrite(c, r)
      BY <1>2, <1>3, <1>6, Areas
    <2>5. PICK j \in 1..UserWrites : q = 1 + TableWrites + j /\ SaveWrite(q) = UserWrite(j)
      BY <2>1, <2>2, <2>3, <2>4 DEF Written
    <2>6. UserLba(j) = UserLba(i)
      BY <1>3, <1>6, <2>5
    <2> QED
      BY <1>1, <2>5, <2>6 DEF UserLba
  <1>7. ASSUME NEW c \in 1..Len(file_contents), NEW r \in 1..CONTENT_SECTORS,
               SlotsOf(file_contents[c].idx) = {c},
               NEW q \in 1..SaveLength, SaveWrite(q).lba = ContentLba(file_contents[c].idx, r)
        PROVE  q = 1 + TableWrites + UserWrites + (c - 1) * CONTENT_SECTORS + r
    <2>1. Written(SaveWrite(q), q)
      BY SaveWriteKinds
    <2>2. SaveWrite(q) # d
      BY <1>2, <1>7, Areas
    <2>3. \A j \in 1..TableWrites : SaveWrite(q) # TableWrite(j)
      BY <1>2, <1>3, <1>7, Areas
    <2>4. \A j \in 1..UserWrites : SaveWrite(q) # UserWrite(j)
      BY <1>2, <1>3, <1>7, Areas
    <2>5. PICK b \in 1..Len(file_contents), s \in 1..CONTENT_SECTORS :
             /\ q = 1 + TableWrites + UserWrites + (b - 1) * CONTENT_SECTORS + s
             /\ SaveWrite(q) = ContentWrite(b, s)
      BY <2>1, <2>2, <2>3, <2>4 DEF Written
    <2>6. ContentLba(file_contents[b].idx, s) = ContentLba(file_contents[c].idx, r)
      BY <1>3, <1>7, <2>5
    <2>7. file_contents[b].idx = file_contents[c].idx /\ s = r
      BY <1>2, <2>6, Areas
    <2>8. b = c
      BY <1>7, <2>7 DEF SlotsOf
    <2> QED
      BY <2>5, <2>7, <2>8
  <1>8. disk[FS_CURDIR_LBA] = DirSector(current_dir)
    <2>1. 1 \in 1..SaveLength /\ SaveWrite(1) = d
      <3>1. 1 \in 1..SaveLength
        BY <1>1
      <3>2. SaveWrite(1) = d
        BY WriteAt
      <3> QED
        BY <3>1, <3>2
    <2>2. SaveWrite(1).lba = FS_CURDIR_LBA /\ SaveWrite(1).val = DirSector(current_dir)
      BY <2>1
    <2> QED
      BY <1>4, <2>1, <2>2, OnlyWrite
  <1>9. ASSUME NEW i \in 1..TableWrites PROVE disk[FileLba(i)] = TableWrite(i).val
    <2>1. 1 + i \in 1..SaveLength /\ SaveWrite(1 + i) = TableWrite(i)
      <3>1. 1 + i \in 1..SaveLength
        BY <1>1
      <3>2. SaveWrite(1 + i) = TableWrite(i)
        BY WriteAt
      <3> QED
        BY <3>1, <3>2
    <2> QED
      BY <1>3, <1>5, <2>1, OnlyWrite
  <1>10. ASSUME NEW i \in 1..UserWrites PROVE disk[UserLba(i)] = UserWrite(i).val
    <2>1. 1 + TableWrites + i \in 1..SaveLength /\ SaveWrite(1 + TableWrites + i) = UserWrite(i)
      <3>1. 1 + TableWrites + i \in 1..SaveLength
        BY <1>1
      <3>2. SaveWrite(1 + TableWrites + i) = UserWrite(i)
        BY WriteAt
      <3> QED
        BY <3>1, <3>2
    <2> QED
      BY <1>3, <1>6, <2>1, OnlyWrite
  <1>11. ASSUME NEW c \in 1..Len(file_contents), NEW r \in 1..CONTENT_SECTORS,
                SlotsOf(file_contents[c].idx) = {c}
         PROVE  disk[ContentLba(file_contents[c].idx, r)] = ContentWrite(c, r).val
    <2> DEFINE p == 1 + TableWrites + UserWrites + (c - 1) * CONTENT_SECTORS + r
    <2>1. (c - 1) * CONTENT_SECTORS \in Nat
          /\ c * CONTENT_SECTORS <= Len(file_contents) * CONTENT_SECTORS
      BY <1>1, ProductOrder
    <2>2. c * CONTENT_SECTORS = (c - 1) * CONTENT_SECTORS + CONTENT_SECTORS
      BY <1>1
    <2>3. p \in 1..SaveLength
      BY <1>1, <2>1, <2>2
    <2>4. SaveWrite(p) = ContentWrite(c, r)
      BY WriteAt
    <2> HIDE DEF p
    <2>5. \A q \in 1..SaveLength : SaveWrite(q).lba = ContentLba(file_contents[c].idx, r) => q = p
      BY <1>7, <1>11 DEF p
    <2> QED
      BY <1>3, <2>3, <2>4, <2>5, OnlyWrite
  <1> QED
    BY <1>8, <1>9, <1>10, <1>11

(* After a save that met no error a boot reads back the current directory, *)
(* the entries and the users that were saved, and nothing stale behind     *)
(* them: for tables of every size.                                         *)
THEOREM TablesCorrect == Spec => []SavedTablesReload
  <1>1. IInv => SavedTablesReload
    <2> SUFFICES ASSUME IInv, synced = "yes"
                 PROVE  /\ disk[FS_CURDIR_LBA] = DirSector(current_dir)
                        /\ TableSectors(NoLba) = 1..Smaller(Len(fs_table), LOADED_FILES)
                        /\ \A i \in TableSectors(NoLba) : disk[FileLba(i)] = EntrySector(fs_table[i])
                        /\ UserSectors(NoLba) = 1..Smaller(Len(user_table), LOADED_USERS)
                        /\ \A i \in UserSectors(NoLba) : disk[UserLba(i)] = UserSector(user_table[i])
      BY DEF SavedTablesReload
    <2>0. TypeOK /\ Done(SaveLength)
      BY DEF IInv, SaveInv
    <2>1. /\ Len(fs_table) \in Nat /\ Len(user_table) \in Nat
          /\ LOADED_FILES \in Nat /\ LOADED_USERS \in Nat /\ FS_MAX_FILES \in Nat
          /\ LOADED_FILES <= TableWrites /\ LOADED_USERS <= UserWrites
          /\ TableWrites \in Nat /\ UserWrites \in Nat
      BY <2>0, Lengths, SaveParts, FileSystemAssumption
    <2>2. \A i \in 1..LOADED_FILES :
            /\ FileLba(i) # NoLba
            /\ disk[FileLba(i)] = IF i <= Len(fs_table) THEN EntrySector(fs_table[i]) ELSE ZeroSector
      <3> TAKE i \in 1..LOADED_FILES
      <3>1. FileLba(i) # NoLba
        BY DEF FileLba, NoLba
      <3>2. disk[FileLba(i)] = TableWrite(i).val
        <4>1. i \in 1..TableWrites
          BY <2>1
        <4> QED
          BY <2>0, <4>1, DiskAfterSave
      <3> QED
        BY <3>1, <3>2 DEF TableWrite
    <2>3. \A i \in 1..LOADED_USERS :
            /\ UserLba(i) # NoLba
            /\ disk[UserLba(i)] = IF i <= Len(user_table) THEN UserSector(user_table[i]) ELSE ZeroSector
      <3> TAKE i \in 1..LOADED_USERS
      <3>1. UserLba(i) # NoLba
        BY <2>1 DEF UserLba, NoLba
      <3>2. disk[UserLba(i)] = UserWrite(i).val
        <4>1. i \in 1..UserWrites
          BY <2>1
        <4> QED
          BY <2>0, <4>1, DiskAfterSave
      <3> QED
        BY <3>1, <3>2 DEF UserWrite
    <2>4. /\ \A e : EntrySector(e).tag = "entry" /\ UserSector(e).tag = "user"
          /\ ZeroSector.tag = "zero"
      BY DEF EntrySector, UserSector, ZeroSector
    <2>5. \A i \in 1..LOADED_FILES : disk[FileLba(i)].tag = "entry" <=> i <= Len(fs_table)
      BY <2>2, <2>4
    <2>6. TableSectors(NoLba) = {i \in 1..LOADED_FILES : i <= Len(fs_table)}
      <3>1. ASSUME NEW i \in 1..LOADED_FILES
            PROVE  (\A j \in 1..i : FileLba(j) # NoLba => disk[FileLba(j)].tag = "entry")
                     <=> i <= Len(fs_table)
        <4>1. i \in 1..i /\ \A j \in 1..i : j \in 1..LOADED_FILES /\ j <= i
          BY <2>1
        <4> QED
          BY <2>1, <2>2, <2>5, <4>1
      <3> QED
        BY <2>2, <3>1 DEF TableSectors
    <2>7. UserSectors(NoLba) = {i \in 1..LOADED_USERS : i <= Len(user_table)}
      BY <2>3, <2>4 DEF UserSectors
    <2>8. /\ {i \in 1..LOADED_FILES : i <= Len(fs_table)} = 1..Smaller(Len(fs_table), LOADED_FILES)
          /\ {i \in 1..LOADED_USERS : i <= Len(user_table)} = 1..Smaller(Len(user_table), LOADED_USERS)
      BY <2>1 DEF Smaller
    <2>9. disk[FS_CURDIR_LBA] = DirSector(current_dir)
      BY <2>0, DiskAfterSave
    <2> QED
      BY <2>2, <2>3, <2>6, <2>7, <2>8, <2>9
  <1> QED
    BY <1>1, InvCorrect, PTL

(* After a save that met no error a boot reads back the content of every   *)
(* file that has one slot of the size its entry gives: for contents of     *)
(* every size, in every number of slots.                                   *)
THEOREM ContentsCorrect == Spec => []SavedContentsReload
  <1>1. IInv => SavedContentsReload
    <2> SUFFICES ASSUME IInv, synced = "yes", NEW i \in WithContent(fs_table),
                        NEW c \in 1..Len(file_contents), SlotsOf(i) = {c},
                        file_contents[c].size = fs_table[i].size
                 PROVE  LoadedSlot(fs_table, i, NoLba) = file_contents[c]
      BY DEF SavedContentsReload
    <2> DEFINE slot == file_contents[c]
               size == slot.size
               n == Smaller(size, MAX_FILE_SIZE)
    <2>0. TypeOK /\ Done(SaveLength)
      BY DEF IInv, SaveInv
    <2>1. /\ CONTENT_SECTORS \in Nat /\ MAX_FILE_SIZE \in Nat /\ MAX_FILE_SIZE <= CONTENT_SECTORS
          /\ FS_MAX_FILES \in Nat /\ FS_MAX_USERS \in Nat
      BY FileSystemAssumption
    <2>2. slot \in Slot /\ slot.idx = i
      BY <2>0, Lengths DEF SlotsOf
    <2>3. /\ size \in Nat /\ slot.data \in Seq(Data) /\ i \in 1..FS_MAX_FILES
          /\ slot = [idx |-> i, size |-> size, data |-> slot.data]
      BY <2>2 DEF Slot
    <2>4. Len(slot.data) = n
      BY DEF IInv, SlotInv
    <2>5. n \in Nat /\ n <= size /\ n <= MAX_FILE_SIZE
      BY <2>1, <2>3, SmallerLarger
    <2>6. \A r \in 1..CONTENT_SECTORS : disk[ContentLba(i, r)] = ContentWrite(c, r).val
      BY <2>0, <2>2, DiskAfterSave
    <2>7. \A r \in 1..CONTENT_SECTORS : ContentWrite(c, r).val =
              IF r > size THEN ZeroSector
              ELSE IF r <= Len(slot.data) THEN DataSector(slot.data[r]) ELSE DataSector(Junk)
      BY DEF ContentWrite
    <2> HIDE DEF slot, size, n
    <2>8. ASSUME NEW k \in 1..n PROVE ReadChunk(i, size, k, NoLba) = slot.data[k]
      <3>1. k \in 1..CONTENT_SECTORS /\ k <= size /\ k <= Smaller(size, CONTENT_SECTORS)
        BY <2>1, <2>3, <2>5 DEF Smaller
      <3>2. ~\E r \in 1..k : ContentLba(i, r) = NoLba
        <4>1. \A r \in 1..k : r \in 1..CONTENT_SECTORS
          BY <2>1, <3>1
        <4>2. \A r \in 1..k : ContentLba(i, r) > FS_MAX_FILES + FS_MAX_USERS
          BY <2>3, <4>1, LbaRanges
        <4> QED
          BY <2>1, <4>2 DEF NoLba
      <3>3. ReadChunk(i, size, k, NoLba) =
              IF disk[ContentLba(i, k)].tag = "data" THEN disk[ContentLba(i, k)].chunk ELSE Zero
        BY <3>1, <3>2 DEF ReadChunk
      <3>4. disk[ContentLba(i, k)] = DataSector(slot.data[k])
        BY <2>4, <2>5, <2>6, <2>7, <2>3, <3>1
      <3>5. \A d \in Data : /\ DataSector(d).tag = "data" => DataSector(d).chunk = d
                            /\ DataSector(d).tag # "data" => d = Zero
        BY DEF DataSector, ZeroSector
      <3>6. slot.data[k] \in Data
        BY <2>3, <2>4, <2>5, ElementOfSeq
      <3> QED
        BY <3>3, <3>4, <3>5, <3>6
    <2> DEFINE d == [k \in 1..n |-> ReadChunk(i, size, k, NoLba)]
    <2>9. LoadedSlot(fs_table, i, NoLba) = [idx |-> i, size |-> size, data |-> d]
      BY DEF LoadedSlot, n, size, slot
    <2>10. d = slot.data
      <3>1. slot.data = [k \in 1..n |-> slot.data[k]]
        BY <2>3, <2>4, <2>5
      <3> QED
        BY <2>8, <3>1
    <2> HIDE DEF d
    <2>11. LoadedSlot(fs_table, i, NoLba) = slot
      BY <2>3, <2>9, <2>10
    <2> QED
      BY <2>11 DEF slot
  <1> QED
    BY <1>1, InvCorrect, PTL
=============================================================================
