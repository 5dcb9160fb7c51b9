------------------------------ MODULE MCDisks ------------------------------
(* Instances of MiniFs, Put and Seeprom: the three disks.                    *)
(*                                                                          *)
(* ram: a small disk with one entry per directory page, a file in the root   *)
(* and a directory with a file.  rom: a program of two pages and one of one  *)
(* page are uploaded.  se: two blocks of two pages.  A behaviour runs one of  *)
(* the three.                                                                *)
EXTENDS MiniFs, Put, Seeprom

VARIABLE part

MCFiles == {<<"a">>, <<"d">>, <<"d", "x">>}
MCDirs == {<<"d">>}
MCNames == {"a", "b"}
MCLines == [n \in MCNames |->
              IF n = "a" THEN << <<0, 0>>, <<0, 2>>, <<1, 3>> >> ELSE << <<0, 0>>, <<0, 1>> >>]

MCPages == {<<1, 1>>, <<2, 2>>}

MCInit == Init /\ PutInit /\ SeInit /\ part \in {"ram", "rom", "se"}

MCNext ==
    /\ \/ part = "ram" /\ Next /\ UNCHANGED <<putVars, seVars>>
       \/ part = "rom" /\ PutNext /\ UNCHANGED <<vars, seVars>>
       \/ part = "se" /\ SeNext /\ UNCHANGED <<vars, putVars>>
    /\ UNCHANGED part

MCSpec == MCInit /\ [][MCNext]_<<vars, putVars, seVars, part>>

-----------------------------------------------------------------------------
(* What later steps and the properties tell apart.                           *)

\* ram: the entries of the pages of directories, the cells of files that must
\* hold them, and nothing once calls are not followed.
PagesOf(first) == Range(Chain(fat, first))
DirPages(all) == PagesOf(ROOT) \cup UNION {PagesOf(e[3].fat) : e \in {x \in all : x[3].dir}}
Cells(f) ==
    LET ents == LoadDir(fat, page, GetNode(f))
        k == EntryOf(ents, Name(f))
    IN  IF k = 0 THEN <<>>
        ELSE LET c == Chain(fat, ents[k].fat)
             IN  [j \in {i \in 0 .. kept[f].len - 1 : i \div PAGE < Len(c)} |->
                     page[c[j \div PAGE + 1]].cells[(j % PAGE) + 1]]
Window(x) == [j \in (0 .. kept[x.path].len - x.off - 1) \cap DOMAIN x.cache |-> x.cache[j]]
SeenFd(d) ==
    LET x == filefd[d]
    IN  CASE ~x.open -> <<>>
          [] x.opt = "read" /\ ~kept[x.path].ok -> <<x.path, x.ent, x.off, x.cur>>
          [] x.opt = "read" -> <<x.path, x.ent, x.off, x.cur, Window(x)>>
          [] OTHER -> <<x.path, x.ent, x.index, x.off, x.cur, x.area, x.opt = "dir",
                        IF kept[x.path].ok THEN Window(x) ELSE <<>>>>
SeenRam ==
    IF ~Followed THEN <<>>
    ELSE <<fat, [d \in Fd |-> SeenFd(d)],
           [p \in DirPages(AllEnts) |-> page[p].ents],
           [f \in Files |-> IF kept[f].ok THEN kept[f].len ELSE -1],
           [f \in Files |-> IF kept[f].ok /\ GetNode(f) # 0 THEN Cells(f) ELSE <<>>]>>

\* rom: the cells that were sent, and nothing once data went astray.
CellsSent(i) ==
    LET e == rom.tab.ents[i]
        c == RomChain(e.fat)
    IN  [pos \in {x \in sent[e.name] : x \div ROM_PAGE < Len(c)} |->
            rom.cells[c[pos \div ROM_PAGE + 1]][pos % ROM_PAGE] = <<e.name, pos>>]
SeenRom == IF stray THEN <<short>>
           ELSE <<rom.tab, filed, cmd, host, short, sent, [i \in Dir |-> CellsSent(i)]>>

Seen ==
    CASE part = "ram" -> <<part, SeenRam>>
      [] part = "rom" -> <<part, SeenRom>>
      [] part = "se" -> <<part, seVars>>

\* Bound: no step begins with a page of the RAM disk that is not free and that
\* nothing has.
NoLeak ==
    part = "ram" /\ Followed => LET all == AllEnts IN
        {p \in ROOT + 1 .. PAGES - 1 : fat[p] # FREE}
            \subseteq DirPages(all) \cup UNION {PagesOf(e[3].fat) : e \in all}
=============================================================================
