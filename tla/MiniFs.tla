------------------------------- MODULE MiniFs -------------------------------
(***************************************************************************)
(* MiniFS, src/MES/minifs.c, on the RAM disk, src/ramdisk.c, as the calls  *)
(* of src/MES/fileio.c use it.  A disk is pages of PAGE cells; page 0      *)
(* holds the table of the chains, page 1 begins the root directory.  The   *)
(* kernel task runs one call after the other with interrupts off.          *)
(*                                                                         *)
(* The cell number k of file f is written with the value <<f, k>>.  Memory *)
(* for buffers is assumed to be there, no name begins another name, and    *)
(* none is empty or begins with 0xff, the marks of an entry that is free.  *)
(*                                                                         *)
(* MiniFS does not look at whether a file is open, nor at whether a        *)
(* descriptor is: that is left to the programs, the rule of sharing below. *)
(* A call that breaks it does what the code does, and is remembered in     *)
(* rule; what later calls do to the disk then is not followed, and nothing *)
(* is promised: a file that was deleted while it was open, and is closed,  *)
(* is written over whatever has its pages by then.                         *)
(***************************************************************************)
EXTENDS Integers, Sequences, FiniteSets, Functions

CONSTANTS
    PAGES,    \* pages of the disk
    PAGE,     \* cells of a page
    CACHE,    \* cells of the cache of an open file, CACHESIZ
    ENTRIES,  \* directory entries in a page
    FD_NUM,   \* open files
    Files,    \* paths that programs use: <<name>> or <<directory, name>>
    Dirs,     \* those of one name that are made as directories
    MAX_SIZE, \* bound: cells of a file
    Lengths,  \* bound: cells that one call reads or writes
    Places    \* bound: positions that programs seek

ASSUME MiniFsAssumption ==
    /\ PAGES \in Nat /\ PAGES > 2 /\ PAGE \in Nat \ {0}
    /\ CACHE \in Nat \ {0} /\ CACHE % PAGE = 0
    /\ ENTRIES \in Nat \ {0} /\ FD_NUM \in Nat \ {0} /\ MAX_SIZE \in Nat
    /\ Dirs \subseteq Files /\ Lengths \subseteq Nat /\ Places \subseteq Nat
    /\ \A f \in Files : f \in Seq(STRING) /\ Len(f) \in 1 .. 2
                       /\ \A k \in DOMAIN f : f[k] \notin {"ff", "00"}
    /\ \A f \in Dirs : Len(f) = 1

VARIABLES
    fat,     \* the table of the chains
    page,    \* the other pages: cells or directory entries
    filefd,  \* the open files
    wild,    \* a buffer was overrun or a variable used that was never set
    rule,    \* ghost: the programs have "kept" the rule of sharing or "broken" it
    kept     \* ghost: for each file its cells, and whether it must hold them

vars == <<fat, page, filefd, wild, rule, kept>>

FREE == -1
TAIL == -2
ROOT == 1
Page == 0 .. PAGES - 1
Fd == 1 .. FD_NUM

NoCell == <<>>
NoEnt == [name |-> "ff", size |-> 0, fat |-> 0, dir |-> FALSE]
ZeroEnt == [NoEnt EXCEPT !.name = "00"]
Blank == [ents |-> [k \in 1 .. ENTRIES |-> NoEnt], cells |-> [k \in 1 .. PAGE |-> NoCell]]
DataPage(cells) == [ents |-> [k \in 1 .. ENTRIES |-> ZeroEnt], cells |-> cells]
Closed == [open |-> FALSE]
Gone == [len |-> 0, ok |-> FALSE]

\* minifs_format
Formatted == [p \in Page |-> IF p = 0 THEN ROOT ELSE IF p = ROOT THEN TAIL ELSE FREE]

\* minifs_init, minifs_disk_regist and minifs_format of the RAM disk
Init ==
    /\ fat = Formatted
    /\ page = [p \in Page |-> Blank]
    /\ filefd = [d \in Fd |-> Closed]
    /\ wild = FALSE /\ rule = "kept"
    /\ kept = [f \in Files |-> Gone]

\* write_ram and read_ram refuse what ends at the end of the disk.
Reachable(p) == p < PAGES - 1

ReadPage(pages, p) ==
    IF Reachable(p) THEN pages[p] ELSE DataPage([k \in 1 .. PAGE |-> NoCell])

\* The pages of a chain.
Chain(f, first) ==
    LET walk[k \in 0 .. PAGES] ==
            [p \in Page \cup {FREE, TAIL} |->
                IF k = 0 \/ p \notin Page THEN <<>> ELSE <<p>> \o walk[k - 1][f[p]]]
    IN  walk[PAGES][first]

\* (mutant of FreeFat) The search takes a page that is the tail of a chain.
FreeFatTail(f) == {p \in ROOT + 1 .. PAGES - 1 : f[p] \in {FREE, TAIL}}
\* free_fat: the pages that are free; it takes the first.
FreeFat(f) == {p \in ROOT .. PAGES - 1 : f[p] = FREE}

FirstOf(S) == CHOOSE p \in S : \A q \in S : p <= q

\* load_data of a directory: what fits into the buffer.
LoadDir(f, pages, root) ==
    LET c == Chain(f, root)
        n == IF Len(c) < CACHE \div PAGE THEN Len(c) ELSE CACHE \div PAGE
    IN  [i \in 1 .. n * ENTRIES |->
            ReadPage(pages, c[(i - 1) \div ENTRIES + 1]).ents[((i - 1) % ENTRIES) + 1]]

\* save_data of a directory
SaveDir(f, pages, root, ents) ==
    LET c == Chain(f, root)
        at(p) == {k \in 1 .. Len(ents) \div ENTRIES : c[k] = p}
    IN  [p \in Page |->
            IF at(p) = {} \/ ~Reachable(p) THEN pages[p]
            ELSE [Blank EXCEPT !.ents =
                     [j \in 1 .. ENTRIES |-> ents[(FirstOf(at(p)) - 1) * ENTRIES + j]]]]

\* The entry of a name, 0 for none.
EntryOf(ents, name) ==
    LET found == {k \in DOMAIN ents : ents[k].name = name}
    IN  IF found = {} THEN 0 ELSE FirstOf(found)

Name(path) == path[Len(path)]

\* get_node: the directory of a path.  Without any directory among the
\* entries its result is a variable that was never set.
GetNode(path) ==
    LET ents == LoadDir(fat, page, ROOT)
        k == EntryOf(ents, path[1])
    IN  IF Len(path) = 1 THEN ROOT
        ELSE IF k # 0 /\ ents[k].dir THEN ents[k].fat ELSE 0

AnyDir == LET ents == LoadDir(fat, page, ROOT) IN \E k \in DOMAIN ents : ents[k].dir

-----------------------------------------------------------------------------
(* The cache of an open file.                                               *)

\* (mutant of Load) The pages before the window are not skipped.
LoadFromStart(f, pages, x) ==
    LET c == Chain(f, x.ent.fat)
        ends == (x.off + CACHE + PAGE - 1) \div PAGE
        n == IF Len(c) < ends THEN Len(c) ELSE ends
    IN  [x EXCEPT !.area = n * PAGE - x.off,
                  !.cache = [j \in 0 .. CACHE - 1 |->
                     IF j < n * PAGE THEN ReadPage(pages, c[j \div PAGE + 1]).cells[(j % PAGE) + 1]
                     ELSE NoCell]]
\* load_data: the pages that begin in the window of the cache, and how far
\* the chain reaches into it.
Load(f, pages, x) ==
    LET c == Chain(f, x.ent.fat)
        ends == (x.off + CACHE + PAGE - 1) \div PAGE
        n == IF Len(c) < ends THEN Len(c) ELSE ends
        cell(pos) == ReadPage(pages, c[pos \div PAGE + 1]).cells[(pos % PAGE) + 1]
        whole(pos) == (pos \div PAGE) * PAGE >= x.off /\ pos \div PAGE < n
    IN  [x EXCEPT !.area = n * PAGE - x.off,
                  !.cache = [j \in 0 .. CACHE - 1 |->
                                IF whole(x.off + j) THEN cell(x.off + j) ELSE NoCell]]

\* A page that begins in the window ends behind the buffer.
Overruns(f, x) ==
    \E i \in 0 .. Len(Chain(f, x.ent.fat)) - 1 :
        x.off <= i * PAGE /\ i * PAGE < x.off + CACHE /\ x.off + CACHE < (i + 1) * PAGE

\* save_data of an open file.  The pages of a directory stay as they were
\* loaded.
Save(f, pages, x) ==
    LET c == Chain(f, x.ent.fat)
        at(p) == {k \in 1 .. Len(c) : c[k] = p /\ x.off <= (k - 1) * PAGE
                                       /\ (k - 1) * PAGE < x.off + x.area}
        cell(pos) == IF pos - x.off < CACHE THEN x.cache[pos - x.off] ELSE NoCell
    IN  [p \in Page |->
            IF at(p) = {} \/ ~Reachable(p) \/ x.ent.dir THEN pages[p]
            ELSE DataPage([j \in 1 .. PAGE |-> cell((FirstOf(at(p)) - 1) * PAGE + j - 1)])]

\* The chain with one page more, if there is a free one.
Linked(f, first) ==
    LET c == Chain(f, first)
        new == FirstOf(FreeFat(f))
    IN  IF FreeFat(f) = {} THEN f ELSE [f EXCEPT ![c[Len(c)]] = new, ![new] = TAIL]

\* The chain with n pages more, as far as there are free ones.
Grown(f, first, n) ==
    LET g[k \in 0 .. n] == IF k = 0 THEN f ELSE Linked(g[k - 1], first) IN g[n]

\* A file that has the last page of the disk can not be written as a whole.
Holds(f, ent) == \A k \in DOMAIN Chain(f, ent.fat) : Reachable(Chain(f, ent.fat)[k])

\* (mutant of Flush) The cache is written before the chain has grown.
FlushFirst(f, pages, x) ==
    LET missing == x.ent.size - x.off - x.area
        n == IF missing > 0 THEN (missing - 1) \div PAGE + 1 ELSE 0
        g == Grown(f, x.ent.fat, n)
    IN  [fat |-> g, page |-> Save(f, pages, x), x |-> x, ok |-> TRUE,
         whole |-> n <= Cardinality(FreeFat(f)) /\ Holds(g, x.ent) /\ x.ent.size <= x.off + CACHE]
\* flushfile: the chain grows to hold the file, then the cache is written.  A
\* full disk makes it give the cache up; the caller decides whether the table
\* is saved then.  When the file goes on behind the window, the chain grows
\* all the same and what follows the buffer in memory is written to it.
Flush(f, pages, x) ==
    LET missing == x.ent.size - x.off - x.area
        n == IF missing > 0 THEN (missing - 1) \div PAGE + 1 ELSE 0
        y == [x EXCEPT !.area = @ + n * PAGE]
        g == Grown(f, x.ent.fat, n)
    IN  IF n > Cardinality(FreeFat(f))
        THEN [fat |-> g, page |-> pages, x |-> x, ok |-> FALSE, whole |-> FALSE]
        ELSE [fat |-> g, page |-> Save(g, pages, y), x |-> y, ok |-> TRUE,
              whole |-> Holds(g, x.ent) /\ x.ent.size <= x.off + CACHE]

-----------------------------------------------------------------------------
(* Calls.                                                                   *)

OpenOn(f) == {d \in Fd : filefd[d].open /\ filefd[d].path = f}
Written(f) == \E d \in OpenOn(f) : filefd[d].opt # "read"
Under(f) == {g \in Files : g[1] = f[1] /\ Len(f) = 1}

\* No more calls are followed once a buffer was overrun or the rule broken.
Followed == ~wild /\ rule = "kept"

\* The rule of sharing, which the calls do not test: a file is open for writing
\* once or for reading, and a directory is closed before the files in it are
\* used,
MayOpen(f, opt) ==
    /\ IF opt = "read" THEN ~Written(f) ELSE OpenOn(f) = {}
    /\ \A g \in Files \ {f} : g[1] = f[1] /\ (opt = "dir" \/ g \in Dirs) => OpenOn(g) = {}
\* a file is not deleted while it, or a file in it, is open,
MayDelete(f) == \A g \in Under(f) \cup {f} : OpenOn(g) = {}
\* a disk is not formatted while a file is open,
MayFormat == \A d \in Fd : ~filefd[d].open
\* and no descriptor is used that is not open.
RuleAfter(may) == IF may THEN rule ELSE "broken"

\* A directory that gets a third page loses its second one, with the files
\* that have their entries there; in the root also with the directories.
Unlinked(f, first) ==
    [g \in Files |-> IF first # TAIL /\ (Len(f) = 1 \/ (Len(g) = 2 /\ g[1] = f[1]))
                     THEN [kept[g] EXCEPT !.ok = FALSE] ELSE kept[g]]

\* The entry of a file that is being written was lost in that way.  Its close
\* will write the entry over the one that has taken the place.
Lost == \E d \in Fd :
    LET x == filefd[d]
        root == GetNode(x.path)
    IN  /\ x.open /\ x.opt # "read"
        /\ root # x.root \/ EntryOf(LoadDir(fat, page, root), Name(x.path)) # x.index

\* The open file that minifs_open sets up for an entry.
Opened(f, opt, ent, k, root, table, pages) ==
    LET cur == IF opt = "append" THEN ent.size ELSE 0
    IN  Load(table, pages,
             [open |-> TRUE, path |-> f, ent |-> ent, index |-> k, root |-> root,
              cur |-> cur, off |-> (cur \div CACHE) * CACHE, area |-> 0,
              cache |-> <<>>, opt |-> opt])

\* minifs_open of a file that exists.
OpenOld(d, f, opt, root) ==
    LET ents == LoadDir(fat, page, root)
        k == EntryOf(ents, Name(f))
    IN  /\ k # 0
        /\ filefd' = [filefd EXCEPT ![d] = Opened(f, opt, ents[k], k, root, fat, page)]
        /\ UNCHANGED <<fat, page, wild, kept>>

\* minifs_open of a file that does not: it gets a page, and an entry for
\* which the directory may have to grow.  Growing puts the new page behind
\* the first page of the directory.
Create(d, f, opt, root) ==
    LET ents0 == LoadDir(fat, page, root)
        new == FirstOf(FreeFat(fat))
        fat1 == [fat EXCEPT ![new] = TAIL]
        grow == EntryOf(ents0, "ff") = 0
        add == FirstOf(FreeFat(fat1))
        fat2 == IF grow THEN [fat1 EXCEPT ![root] = add, ![add] = TAIL] ELSE fat1
        page1 == IF grow /\ Reachable(add) THEN [page EXCEPT ![add] = Blank] ELSE page
        ents == LoadDir(fat2, page1, root)
        k == IF EntryOf(ents, "ff") = 0 THEN Len(ents) + 1 ELSE EntryOf(ents, "ff")
        ent == [name |-> Name(f), size |-> 0, fat |-> new, dir |-> opt = "dir"]
        page2 == IF opt = "dir" /\ Reachable(new) THEN [page1 EXCEPT ![new] = Blank] ELSE page1
        page3 == SaveDir(fat2, page2, root,
                         [j \in DOMAIN ents |-> IF j = k THEN ent ELSE ents[j]])
    IN  /\ EntryOf(ents0, Name(f)) = 0 /\ opt # "read"
        /\ FreeFat(fat) # {}
        /\ grow => FreeFat(fat1) # {}
        /\ fat' = fat2 /\ page' = page3
        /\ filefd' = [filefd EXCEPT ![d] = Opened(f, opt, ent, k, root, fat2, page3)]
        /\ kept' = [(IF grow THEN Unlinked(f, fat[root]) ELSE kept)
                      EXCEPT ![f] = [len |-> 0, ok |-> k <= Len(ents) /\ opt # "dir" /\ ~Lost
                                                        /\ (grow => fat[root] = TAIL)]]
        /\ UNCHANGED wild

\* minifs_open, for the first fd that is free.
Open(f, opt) ==
    /\ Followed /\ rule' = RuleAfter(MayOpen(f, opt))
    /\ (opt = "dir") = (f \in Dirs)
    /\ \E d \in Fd :
          /\ ~filefd[d].open /\ \A e \in 1 .. d - 1 : filefd[e].open
          /\ LET root == GetNode(f)
             IN  \/ root # 0 /\ (OpenOld(d, f, opt, root) \/ Create(d, f, opt, root))
                 \/ /\ root = 0 /\ ~AnyDir
                    /\ wild' = TRUE /\ UNCHANGED <<fat, page, filefd, kept>>

\* minifs_close: the entry is written back, then the cache.
Close(d) ==
    /\ Followed /\ filefd[d].open
    /\ filefd' = [filefd EXCEPT ![d] = Closed]
    /\ LET x == filefd[d]
           ents == LoadDir(fat, page, x.root)
           saved == SaveDir(fat, page, x.root,
                            [j \in DOMAIN ents |-> IF j = x.index THEN x.ent ELSE ents[j]])
           r == Flush(fat, saved, x)
       IN  IF x.opt = "read"
           THEN UNCHANGED <<fat, page, kept>>
           ELSE /\ fat' = IF r.ok THEN r.fat ELSE fat
                /\ page' = r.page
                /\ kept' = [kept EXCEPT ![x.path].ok = @ /\ r.whole]
    /\ UNCHANGED <<wild, rule>>

\* Behind the window the cache is written out, which gives r, and the table
\* saved, whether the disk was full or not; the next window begins at cur.
Moved(s, r) ==
    [fat |-> r.fat, page |-> r.page, ok |-> s.ok /\ r.whole,
     x |-> Load(r.fat, r.page, [r.x EXCEPT !.off = r.x.cur])]

\* The cell at cur goes to the window.
PutCell(x) ==
    [x EXCEPT !.cache = [@ EXCEPT ![x.cur - x.off] = <<x.path, x.cur>>],
              !.cur = @ + 1,
              !.ent.size = IF @ < x.cur + 1 THEN x.cur + 1 ELSE @]

\* One cell of minifs_write.
WriteCell(s) ==
    LET t == IF s.x.cur - s.x.off < CACHE THEN s ELSE Moved(s, Flush(s.fat, s.page, s.x))
    IN  [t EXCEPT !.x = PutCell(@)]

\* n cells, one after the other.
WriteCells(s, n) ==
    LET w[k \in 0 .. n] == IF k = 0 THEN s ELSE WriteCell(w[k - 1]) IN w[n]

\* minifs_write of n cells
Write(d, n) ==
    /\ Followed /\ filefd[d].open
    /\ filefd[d].opt # "read" /\ ~filefd[d].ent.dir
    /\ filefd[d].cur + n <= MAX_SIZE
    /\ LET s == WriteCells([fat |-> fat, page |-> page, x |-> filefd[d], ok |-> TRUE], n)
           f == filefd[d].path
       IN  /\ fat' = s.fat /\ page' = s.page
           /\ filefd' = [filefd EXCEPT ![d] = s.x]
           /\ wild' = Overruns(s.fat, s.x)
           /\ kept' = [kept EXCEPT ![f].len = s.x.ent.size, ![f].ok = @ /\ s.ok]
    /\ UNCHANGED rule

\* One cell of minifs_read, while there is one: behind the window the next
\* part of the file is loaded.
ReadCell(x) ==
    LET y == IF x.cur - x.off < CACHE THEN x ELSE Load(fat, page, [x EXCEPT !.off = x.cur])
    IN  IF y.cur < y.ent.size THEN [y EXCEPT !.cur = @ + 1] ELSE y

\* n cells, one after the other.
ReadCells(x, n) ==
    LET y[k \in 0 .. n] == IF k = 0 THEN x ELSE ReadCell(y[k - 1]) IN y[n]

\* minifs_read of n cells.  The window of a file that is written moves
\* without being written out.
Read(d, n) ==
    /\ Followed /\ filefd[d].open
    /\ LET x == filefd[d]
           y == ReadCells(x, n)
       IN  /\ filefd' = [filefd EXCEPT ![d] = y]
           /\ kept' = [kept EXCEPT ![x.path].ok = @ /\ (x.opt = "read" \/ y.off = x.off)]
           /\ wild' = Overruns(fat, y)
    /\ UNCHANGED <<fat, page, rule>>

\* minifs_seek: the window is moved to the position in every case, and its
\* begin need not be the begin of a page.
Seek(d, to) ==
    /\ Followed /\ filefd[d].open
    /\ LET x == filefd[d]
           pos == IF to > x.ent.size THEN x.ent.size ELSE to
           r == IF x.opt = "read" THEN [fat |-> fat, page |-> page, x |-> x, ok |-> TRUE, whole |-> TRUE]
                ELSE Flush(fat, page, x)
           y == [r.x EXCEPT !.cur = pos, !.off = pos]
       IN  /\ fat' = IF r.ok THEN r.fat ELSE fat
           /\ page' = r.page
           /\ filefd' = [filefd EXCEPT ![d] = Load(r.fat, r.page, y)]
           /\ wild' = Overruns(r.fat, y)
           /\ kept' = [kept EXCEPT ![x.path].ok = @ /\ r.whole /\ (x.opt = "read" \/ pos % PAGE = 0)]
    /\ UNCHANGED rule

\* minifs_close, minifs_write, minifs_read or minifs_seek of a descriptor that
\* is not open: they test only that there is such a descriptor, and work on what
\* the file it had last left in its record.
CallClosed(d) ==
    /\ Followed /\ ~filefd[d].open
    /\ rule' = "broken"
    /\ UNCHANGED <<fat, page, filefd, wild, kept>>

\* The chain is given back.  The loop tests a variable before it was set:
\* when that happens to be TAIL, nothing is given back.
Released(f, first, tail) ==
    LET c == Chain(f, first)
    IN  [p \in Page |-> IF ~tail /\ \E k \in DOMAIN c : c[k] = p THEN FREE ELSE f[p]]

\* del_all: only the chain of the first entry is given back, the loop over a
\* later one does not begin.
DelAll(f, pages, root, tail) ==
    LET ents == LoadDir(f, pages, root)
        used == {k \in DOMAIN ents : ents[k].name \notin {"ff", "00"}}
    IN  [fat |-> IF used = {} THEN f ELSE Released(f, ents[FirstOf(used)].fat, tail),
         page |-> SaveDir(f, pages, root, [k \in DOMAIN ents |-> NoEnt])]

\* minifs_delete
Delete(f) ==
    /\ Followed /\ rule' = RuleAfter(MayDelete(f))
    /\ LET root == GetNode(f)
           ents == LoadDir(fat, page, root)
           k == EntryOf(ents, Name(f))
       IN  \/ /\ root # 0 /\ k # 0
              /\ \E tail, inner \in BOOLEAN :
                    LET s == IF ents[k].dir THEN DelAll(fat, page, ents[k].fat, inner)
                             ELSE [fat |-> fat, page |-> page]
                    IN  /\ fat' = Released(s.fat, ents[k].fat, tail)
                        /\ page' = SaveDir(fat', s.page, root,
                                           [j \in DOMAIN ents |-> IF j = k THEN NoEnt ELSE ents[j]])
              /\ UNCHANGED wild
           \/ /\ root = 0 /\ ~AnyDir
              /\ wild' = TRUE /\ UNCHANGED <<fat, page>>
    /\ kept' = [g \in Files |-> IF g \in Under(f) \cup {f} THEN Gone ELSE kept[g]]
    /\ UNCHANGED filefd

\* minifs_format
Format ==
    /\ Followed /\ rule' = RuleAfter(MayFormat)
    /\ fat' = Formatted
    /\ page' = [page EXCEPT ![ROOT] = Blank]
    /\ kept' = [f \in Files |-> Gone]
    /\ UNCHANGED <<filefd, wild>>

\* The calls that fileio.c passes on to MiniFS: of names that are no device, and
\* of descriptors that are marked as files.
Next ==
    \/ \E f \in Files : Delete(f) \/ \E opt \in {"read", "write", "append", "dir"} : Open(f, opt)
    \/ \E d \in Fd :
          \/ Close(d) \/ CallClosed(d)
          \/ \E n \in Lengths : Write(d, n) \/ Read(d, n)
          \/ \E to \in Places : Seek(d, to)
    \/ Format

Spec == Init /\ [][Next]_vars

-----------------------------------------------------------------------------
(* What the file system promises.                                           *)

\* minifs_dirent: the entries that a directory lists.
Listed(root) ==
    LET ents == LoadDir(fat, page, root)
    IN  {<<root, k, ents[k]>> : k \in {j \in DOMAIN ents : ents[j].name \notin {"ff", "00"}}}

\* Every directory entry on the disk.
AllEnts ==
    LET top == Listed(ROOT)
    IN  top \cup UNION {Listed(e[3].fat) : e \in {x \in top : x[3].dir}}

\* The chains of two entries share no page, and every chain ends, while no
\* buffer was overrun and the programs keep the rule of sharing.
ChainsApart ==
    Followed => LET all == AllEnts IN
        \A e \in all :
            LET c == Chain(fat, e[3].fat)
            IN  /\ Len(c) < PAGES /\ c # <<>> /\ fat[c[Len(c)]] = TAIL
                /\ \A o \in all \ {e} :
                      Range(c) \cap Range(Chain(fat, o[3].fat)) = {}

\* A file that was written, from its begin or from the begin of a page on, and
\* closed is found in its directory with all its cells, whatever programs that
\* keep the rule of sharing do with other files; unless the disk was full, the
\* file got the last page of the disk, or a directory above it a third page, or
\* it was made while another file had lost its entry in that way.
ReadBack ==
    Followed => \A f \in Files :
        kept[f].ok /\ ~Written(f) =>
            LET root == GetNode(f)
                ents == LoadDir(fat, page, root)
                k == EntryOf(ents, Name(f))
                c == Chain(fat, ents[k].fat)
            IN  /\ root # 0 /\ k # 0 /\ ents[k].size = kept[f].len
                /\ \A j \in 0 .. kept[f].len - 1 :
                      /\ j \div PAGE < Len(c)
                      /\ page[c[j \div PAGE + 1]].cells[(j % PAGE) + 1] = <<f, j>>

\* The cache of an open file shows the file, when its window begins with a page,
\* while the programs keep the rule of sharing.
CacheTrue ==
    Followed => \A d \in Fd :
        LET x == filefd[d]
        IN  x.open /\ kept[x.path].ok /\ x.off % PAGE = 0 =>
                \A j \in 0 .. CACHE - 1 :
                    x.off + j < x.ent.size => x.cache[j] = <<x.path, x.off + j>>
=============================================================================
