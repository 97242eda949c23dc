------------------------------- MODULE Ext2Dir -------------------------------
(***************************************************************************)
(* The records of one ext2 directory (fs/ext2/dir.c): variable-length      *)
(* records that tile chunks of one block each, several chunks to a page.   *)
(* ext2_add_link reuses a free record, splits one that is longer than its  *)
(* name needs, or appends a chunk; ext2_delete_entry merges a record into  *)
(* the one before it.  Nothing erases the header of a merged record, so    *)
(* the bytes inside a record may look like one.                            *)
(*                                                                         *)
(* Every operation runs under the i_mutex of the directory and is one      *)
(* action.  A reader of the directory drops i_mutex between two calls of   *)
(* ext2_readdir, and keeps an offset in its struct file.                   *)
(*                                                                         *)
(* Offsets and lengths are bytes.  Only headers are kept: what a name      *)
(* overwrites becomes Junk.  i_version and f_version matter only as far as *)
(* they differ (the variable moved).                                       *)
(***************************************************************************)
EXTENDS Naturals, FiniteSets, FiniteSetsExt

CONSTANTS
  Short, Long,   \* names of 1 and of LongLen characters
  LongLen,
  Inos,          \* inode numbers
  Targets,       \* the inodes that each name may be given to
  ChunkSize,     \* the block size
  PageSize,
  MaxSize,       \* bound: i_size
  MayFail,       \* may a page become unreadable?
  None           \* no name

Dot == "."
DotDot == ".."
Names == Short \cup Long \cup {Dot, DotDot}

NameLen(n) == IF n \in Long THEN LongLen ELSE IF n = DotDot THEN 2 ELSE 1

\* The length of the shortest record for a name of len characters.
EXT2_DIR_REC_LEN(len) == ((len + 8 + 3) \div 4) * 4

MinRec == EXT2_DIR_REC_LEN(1)
Needs(n) == EXT2_DIR_REC_LEN(NameLen(n))

ASSUME Ext2DirAssumption ==
  /\ {LongLen, ChunkSize, PageSize, MaxSize} \subseteq Nat \ {0}
  /\ ChunkSize % 4 = 0 /\ PageSize % ChunkSize = 0 /\ MaxSize % ChunkSize = 0
  /\ ChunkSize >= 2 * MinRec /\ ChunkSize >= EXT2_DIR_REC_LEN(LongLen)
  /\ MayFail \in BOOLEAN
  /\ None \notin Names /\ {Dot, DotDot} \cap Long = {} /\ 0 \notin Inos
  /\ Targets \in [Names -> SUBSET Inos]

VARIABLES
  data,      \* the header at every offset of the page cache
  i_size,
  start,     \* i_dir_start_lookup: the page where the last lookup succeeded
  bad,       \* pages that cannot be read
  f_pos,     \* the reader's position
  moved,     \* f_version # i_version
  steady,    \* ghost: names there since the scan began
  gave,      \* ghost: those of them that the reader was given
  wrong      \* ghost: was a name given twice, or one that is not there?

dirVars == <<data, i_size, start>>
scanVars == <<f_pos, moved, steady, gave, wrong>>
vars == <<dirVars, bad, scanVars>>

\* A reader that skips an unreadable page may stop past the last chunk.
Offsets == {4 * k : k \in 0 .. (MaxSize + PageSize) \div 4}
Header == [inode : Inos \cup {0}, rec_len : 0 .. ChunkSize, name : Names \cup {None}]

Zeroes == [inode |-> 0, rec_len |-> 0, name |-> None]
Junk == [inode |-> CHOOSE i \in Inos : TRUE, rec_len |-> 4, name |-> None]

(* Types.  Records begin at multiples of four and are no longer than a     *)
(* chunk (fs/ext2/dir.c).                                                  *)
TypeOK ==
  /\ data \in [Offsets -> Header]
  /\ i_size \in {c * ChunkSize : c \in 1 .. MaxSize \div ChunkSize}
  /\ start \in 0 .. MaxSize \div PageSize
  /\ bad \subseteq 0 .. MaxSize \div PageSize
  /\ f_pos \in Offsets
  /\ moved \in BOOLEAN
  /\ gave \subseteq steady /\ steady \subseteq Names
  /\ wrong \in BOOLEAN

-----------------------------------------------------------------------------
(* Pages and chunks                                                        *)

dir_pages == (i_size + PageSize - 1) \div PageSize
Pages == 0 .. dir_pages - 1

\* The last valid byte of page p, plus one, as an offset into the page.
ext2_last_byte(p) == Min({i_size - p * PageSize, PageSize})

ChunkOf(o) == o - (o % ChunkSize)
PageOf(o) == o \div PageSize

\* for (de = from; de <= to; de = ext2_next_entry(de)), until a zero length
Walk(d, from, to) ==
  LET visit[o \in Nat] ==
        IF o \notin Offsets \/ o > to THEN {}
        ELSE {o} \cup IF d[o].rec_len = 0 THEN {} ELSE visit[o + d[o].rec_len]
  IN visit[from]

\* The records of page p that start at least room bytes before its end.
Entries(p, room) ==
  IF ext2_last_byte(p) < room THEN {}
  ELSE Walk(data, p * PageSize, p * PageSize + ext2_last_byte(p) - room)

\* What a page must satisfy when it is read from the disk.  The test of the
\* inode number (dir.c:149) is left out: numbers here are those of inodes.
ext2_check_page(p) ==
  LET limit == IF i_size \div PageSize = p THEN i_size % PageSize ELSE PageSize
      base == p * PageSize
      recs == IF limit < MinRec THEN {} ELSE Walk(data, base, base + limit - MinRec)
      end == IF recs = {} THEN base ELSE Max(recs) + data[Max(recs)].rec_len
  IN /\ limit % ChunkSize = 0
     /\ \A o \in recs :
          LET len == data[o].rec_len IN
            /\ len >= MinRec
            /\ len % 4 = 0
            /\ data[o].name # None => len >= Needs(data[o].name)
            /\ ChunkOf(o) = ChunkOf(o + len - 1)
     /\ end = base + limit

ext2_match(n, o) == data[o].inode # 0 /\ data[o].name = n

-----------------------------------------------------------------------------
(* Looking names up                                                        *)

\* mutant: the last record of a page is left out
Hits_OffByOne(n, p) ==
  IF p \in bad THEN {} ELSE {o \in Entries(p, Needs(n) + 4) : ext2_match(n, o)}

\* The records of page p that ext2_find_entry would stop at.
Hits(n, p) ==
  IF p \in bad THEN {} ELSE {o \in Entries(p, Needs(n)) : ext2_match(n, o)}

\* The pages in the order of the search, from i_dir_start_lookup round to it.
Ring(k) == ((IF start >= dir_pages THEN 0 ELSE start) + k) % dir_pages

\* ext2_find_entry: the offset of the record, MaxSize if there is none.  What
\* it does in a corrupt directory is left out: it gives up at a record of
\* length zero (dir.c:400-404) and past i_blocks (417-423).
ext2_find_entry(n) ==
  LET tries == {k \in 0 .. dir_pages - 1 : Hits(n, Ring(k)) # {}}
  IN IF tries = {} THEN MaxSize ELSE Min(Hits(n, Ring(Min(tries))))

Found(n) == ext2_find_entry(n) # MaxSize

\* The second record of the first page.
ext2_dotdot == data[0].rec_len

\* mutant: only the first page is looked at
ext2_empty_dir_FirstPage(self) ==
  \A p \in {0} \ bad : \A o \in Entries(p, MinRec) :
    data[o].inode = 0 \/ data[o].name = DotDot
      \/ (data[o].name = Dot /\ data[o].inode = self)

\* "." with this inode, "..", and nothing else, as far as pages can be read.
ext2_empty_dir(self) ==
  \A p \in Pages \ bad : \A o \in Entries(p, MinRec) :
    data[o].inode = 0 \/ data[o].name = DotDot
      \/ (data[o].name = Dot /\ data[o].inode = self)

-----------------------------------------------------------------------------
(* Changing records                                                        *)

\* A name written at offset o destroys what its bytes cover.
Written(d, o, len, n, i) ==
  [x \in Offsets |->
     IF x = o THEN [inode |-> i, rec_len |-> len, name |-> n]
     ELSE IF o < x /\ x < o + 8 + NameLen(n) THEN Junk
     ELSE d[x]]

\* A fresh directory: one chunk with "." and "..".
ext2_make_empty(self, parent) ==
  LET zeroes == [o \in Offsets |-> Zeroes]
      dot == Written(zeroes, 0, MinRec, Dot, self)
  IN Written(dot, MinRec, ChunkSize - MinRec, DotDot, parent)

\* mutant: a record is taken for free without a look at its inode
Slots_IgnoresInode(n, p) ==
  LET end == p * PageSize + ext2_last_byte(p) IN
  {o \in Walk(data, p * PageSize, (p + 1) * PageSize - Needs(n)) :
     \/ o = end
     \/ o < end /\ (ext2_match(n, o) \/ data[o].rec_len >= Needs(n))}

\* Where ext2_add_link stops on page p: at i_size, at the name itself, at a
\* free record that is long enough, or at one with room behind its name.
Slots(n, p) ==
  LET end == p * PageSize + ext2_last_byte(p) IN
  {o \in Walk(data, p * PageSize, (p + 1) * PageSize - Needs(n)) :
     \/ o = end
     \/ /\ o < end
        /\ \/ ext2_match(n, o)
           \/ data[o].inode = 0 /\ data[o].rec_len >= Needs(n)
           \/ data[o].name # None
              /\ data[o].rec_len >= Needs(data[o].name) + Needs(n)}

\* mutant: only the pages the directory has
SearchEnds_NoExtension(n) == {p \in Pages : p \in bad \/ Slots(n, p) # {}}

\* The pages the search of ext2_add_link ends on: it runs one page past the
\* last one, so that it always meets i_size.
SearchEnds(n) == {p \in 0 .. dir_pages : p \in bad \/ Slots(n, p) # {}}

\* The slot, or MaxSize after an I/O error.
AddSlot(n) ==
  LET p == Min(SearchEnds(n)) IN IF p \in bad THEN MaxSize ELSE Min(Slots(n, p))

\* ext2_commit_chunk: i_size grows over what was written.
CommittedSize(o) ==
  Max({i_size, o + IF o = i_size THEN ChunkSize ELSE data[o].rec_len})

\* mutant: the new record gets the length of the one it was cut from
Inserted_KeepsLength(o, n, i) ==
  IF o = i_size THEN Written(data, o, ChunkSize, n, i)
  ELSE IF data[o].inode = 0 THEN Written(data, o, data[o].rec_len, n, i)
  ELSE LET keep == Needs(data[o].name) IN
       Written([data EXCEPT ![o].rec_len = keep],
               o + keep, data[o].rec_len, n, i)

\* The part of ext2_add_link after got_it, for the slot o.
Inserted(o, n, i) ==
  IF o = i_size THEN Written(data, o, ChunkSize, n, i)
  ELSE IF data[o].inode = 0 THEN Written(data, o, data[o].rec_len, n, i)
  ELSE LET keep == Needs(data[o].name) IN
       Written([data EXCEPT ![o].rec_len = keep],
               o + keep, data[o].rec_len - keep, n, i)

\* The record before o in its chunk takes its bytes; the first record of a
\* chunk stays, without an inode.
ext2_delete_entry(d, o) ==
  LET before == IF o = ChunkOf(o) THEN {} ELSE Walk(d, ChunkOf(o), o - 4)
      free == [d EXCEPT ![o].inode = 0]
  IN IF before = {} THEN free
     ELSE [free EXCEPT ![Max(before)].rec_len = o + d[o].rec_len - Max(before),
                       ![o].name = None]   \* without an inode it has no meaning

ext2_set_link(o, i) == [data EXCEPT ![o].inode = i]

-----------------------------------------------------------------------------
(* The operations                                                          *)

Live == {o \in UNION {Entries(p, MinRec) : p \in Pages} : data[o].inode # 0}
LiveNames == {data[o].name : o \in Live}

Init ==
  /\ \E self \in Targets[Dot], parent \in Targets[DotDot] :
       data = ext2_make_empty(self, parent)
  /\ i_size = ChunkSize
  /\ start = 0
  /\ bad = {}
  /\ f_pos = 0 /\ moved = TRUE
  /\ steady = {Dot, DotDot} /\ gave = {} /\ wrong = FALSE

\* A lookup that succeeds remembers the page.
Lookup(n) ==
  /\ Found(n)
  /\ start' = PageOf(ext2_find_entry(n))
  /\ UNCHANGED <<data, i_size, bad, scanVars>>

\* ext2_add_link for a name that ext2_lookup did not find.
AddLink(n, i) ==
  /\ ~Found(n)
  /\ LET o == AddSlot(n) IN
       /\ o < MaxSize
       /\ data' = Inserted(o, n, i)
       /\ i_size' = CommittedSize(o)
  /\ moved' = TRUE
  /\ UNCHANGED <<start, bad, f_pos, steady, gave, wrong>>

\* ext2_prepare_chunk finds no block for a new chunk; its header is written.
AddLinkFails(n) ==
  /\ ~Found(n)
  /\ i_size < MaxSize /\ AddSlot(n) = i_size
  /\ data' = [data EXCEPT ![i_size].rec_len = ChunkSize, ![i_size].inode = 0]
  /\ UNCHANGED <<i_size, start, bad, scanVars>>

\* ext2_find_entry and ext2_delete_entry, for unlink, rmdir and
\* a rename to another directory.
DeleteEntry(n) ==
  /\ n \notin {Dot, DotDot} /\ Found(n)
  /\ data' = ext2_delete_entry(data, ext2_find_entry(n))
  /\ start' = PageOf(ext2_find_entry(n))
  /\ moved' = TRUE
  /\ steady' = steady \ {n} /\ gave' = gave \ {n}
  /\ UNCHANGED <<i_size, bad, f_pos, wrong>>

\* A rename from another directory over an existing name.
SetLink(n, i) ==
  /\ n \notin {Dot, DotDot} /\ Found(n)
  /\ data' = ext2_set_link(ext2_find_entry(n), i)
  /\ start' = PageOf(ext2_find_entry(n))
  /\ moved' = TRUE
  /\ UNCHANGED <<i_size, bad, f_pos, steady, gave, wrong>>

\* ext2_rename inside this directory: it finds the old record, makes or
\* changes the new one, and then deletes the old one where it was found.
Rename(n, k) ==
  LET old == ext2_find_entry(n)
      i == data[old].inode
      o == IF Found(k) THEN ext2_find_entry(k) ELSE AddSlot(k)
  IN
  /\ {n, k} \cap {Dot, DotDot} = {} /\ n # k /\ Found(n)
  /\ o < MaxSize
  /\ IF Found(k)
     THEN /\ data' = ext2_delete_entry(ext2_set_link(o, i), old)
          /\ start' = PageOf(o)
          /\ UNCHANGED i_size
     ELSE /\ data' = ext2_delete_entry(Inserted(o, k, i), old)
          /\ start' = PageOf(old)
          /\ i_size' = CommittedSize(o)
  /\ moved' = TRUE
  /\ steady' = steady \ {n} /\ gave' = gave \ {n}
  /\ UNCHANGED <<bad, f_pos, wrong>>

\* A rename moves this directory: its ".." is set.
SetDotDot(i) ==
  /\ 0 \notin bad
  /\ data' = ext2_set_link(ext2_dotdot, i)
  /\ moved' = TRUE
  /\ UNCHANGED <<i_size, start, bad, f_pos, steady, gave, wrong>>

\* A page was dropped from the cache and cannot be read again.
LosePage(p) ==
  /\ MayFail /\ bad = {} /\ p \in Pages
  /\ bad' = {p}
  /\ UNCHANGED <<dirVars, scanVars>>

-----------------------------------------------------------------------------
(* Reading the directory                                                   *)

\* The first record at or after o, counted from the start of its chunk.
ext2_validate_entry(o) ==
  LET before == IF o = ChunkOf(o) THEN {} ELSE Walk(data, ChunkOf(o), o - 4)
  IN IF before = {} THEN o ELSE Max(before) + data[Max(before)].rec_len

Readable(o) == PageOf(o) \notin bad

\* mutant: the position is used as it is
Revalidated_Never == f_pos

\* need_revalidate
Revalidated ==
  IF moved /\ Readable(f_pos) /\ f_pos % PageSize # 0
  THEN ext2_validate_entry(f_pos) ELSE f_pos

\* From o on, the next record in use, or the page that cannot be read.
NextStop(o) ==
  Min({i_size} \cup {x \in IF o + MinRec > i_size THEN {} ELSE Walk(data, o, i_size - MinRec) :
                       data[x].inode # 0 \/ ~Readable(x)})

\* An unreadable page is skipped.
Resume(q) == IF q < i_size /\ ~Readable(q) THEN (PageOf(q) + 1) * PageSize ELSE q

AtEnd == f_pos + MinRec > i_size

Open ==
  /\ f_pos' = 0 /\ moved' = TRUE
  /\ steady' = LiveNames /\ gave' = {}
  /\ UNCHANGED <<dirVars, bad, wrong>>

\* One call of ext2_readdir with room for one entry: the first one in use is
\* handed over and the buffer is full at the next.  A call that hands over
\* more is several of these with nothing in between.
Readdir ==
  /\ ~AtEnd
  /\ LET e == NextStop(Revalidated)
         n == data[e].name
     IN IF e = i_size \/ ~Readable(e)
        THEN f_pos' = Resume(e) /\ UNCHANGED <<gave, wrong>>
        ELSE /\ f_pos' = Resume(NextStop(e + data[e].rec_len))
             /\ gave' = gave \cup ({n} \cap steady)
             /\ wrong' = (wrong \/ n \in gave \/ n \notin LiveNames)
  /\ moved' = (moved /\ ~Readable(f_pos))
  /\ UNCHANGED <<dirVars, bad, steady>>

-----------------------------------------------------------------------------
Next ==
  \/ \E n \in Names :
       \/ Lookup(n) \/ AddLinkFails(n) \/ DeleteEntry(n)
       \/ \E i \in Targets[n] : AddLink(n, i) \/ SetLink(n, i)
       \/ \E k \in Names : Rename(n, k)
  \/ \E i \in Targets[DotDot] : SetDotDot(i)
  \/ \E p \in Pages : LosePage(p)
  \/ Open \/ Readdir

Spec == Init /\ [][Next]_vars

-----------------------------------------------------------------------------
(* Correctness                                                             *)

(* Every page of the directory passes ext2_check_page when it is read from *)
(* the disk again (fs/ext2/dir.c:118): however records were split, merged  *)
(* and reused, they tile the chunks, none crosses a block, and none is     *)
(* shorter than its name.                                                  *)
PagesPassCheck == \A p \in Pages : ext2_check_page(p)

(* ext2_find_entry finds exactly the names that a walk over all records    *)
(* meets, wherever i_dir_start_lookup lets it begin (fs/ext2/dir.c:389),   *)
(* unless a page cannot be read.                                           *)
LookupFinds ==
  bad = {} => {n \in Names : Found(n)} = LiveNames

(* The loop of ext2_add_link over the pages ends before its BUG()          *)
(* (fs/ext2/dir.c:555): there is a place for every name, at worst at       *)
(* i_size.                                                                 *)
SlotFound == \A n \in Names : SearchEnds(n) # {}

(* "routine to check that the specified directory is empty (for rmdir)"    *)
(* (fs/ext2/dir.c:678): a directory that ext2_empty_dir lets go has no     *)
(* names but "." and "..", unless a page could not be read, which it       *)
(* skips.                                                                  *)
EmptyMeansEmpty ==
  bad = {} => (ext2_empty_dir(data[0].inode) <=> LiveNames = {Dot, DotDot})

(* A reader that saw the end of the directory was given every name that    *)
(* was there all the time, once, and never one that was not there, though  *)
(* records were merged and split under its position between its calls      *)
(* (fs/ext2/dir.c:321-327).                                                *)
ScanComplete == ~wrong /\ (bad = {} /\ AtEnd => gave = steady)

\* The directory as the rest of ext2 sees it.
dir ==
  LET live == Live
      At(n) == {o \in live : data[o].name = n}
  IN [n \in Names |-> IF At(n) = {} THEN 0 ELSE data[Min(At(n))].inode]

Abstract ==
  INSTANCE Directory WITH Fixed <- {Dot, DotDot}, damaged <- bad # {}

(* The records implement a function from names to inodes: no operation     *)
(* loses or changes a name it is not about, until a page cannot be read    *)
(* (fs/ext2/dir.c:466-634).  A second record of a name is not seen here,   *)
(* as dir takes the first one; ScanComplete sees it.                       *)
ImplementsDirectory == Abstract!Spec

=============================================================================
