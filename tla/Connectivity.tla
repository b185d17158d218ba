---------------------------- MODULE Connectivity ----------------------------
(***************************************************************************)
(* Passes 3 and 4 of e2fsck (e2fsck/pass3.c, pass4.c, dirinfo.c): every    *)
(* directory is traced up to the root, what hangs loose is put into        *)
(* /lost+found, ".." entries are set right, and the link counts are made   *)
(* to agree with the entries.                                              *)
(*                                                                         *)
(* The image is what pass 2 leaves: a directory has one name at most and   *)
(* an entry for an unused inode is cleared.  The two variables hold e2fsck *)
(* between two steps: s is the image with the tables e2fsck keeps of it,   *)
(* at is where the passes are.  Every question is answered yes or, when    *)
(* Answers allows it, no; fix_problem then unmarks the valid flag, which   *)
(* decides whether the file system is marked clean at the end.             *)
(***************************************************************************)
EXTENDS Integers, Sequences, FiniteSets, FiniteSetsExt, SequencesExt, TLC

CONSTANTS
  SubDirs,       \* directories other than the root
  PlainFiles,    \* inodes of files
  FreeInode,     \* the inode a new /lost+found gets
  EmptyFiles,    \* files without blocks
  LinkMax,       \* EXT2_LINK_MAX
  DepthLimit,    \* parents climbed before loops are looked for (2048)
  Answers,       \* the answers given to questions
  Cycles,        \* whether directories may contain each other in a cycle
  Rootless       \* whether the root may be missing, or its names

ASSUME ConnectivityConstants ==
  /\ SubDirs \cap PlainFiles = {} /\ EmptyFiles \subseteq PlainFiles
  /\ SubDirs \cup PlainFiles \cup {FreeInode} \subseteq Nat \ {0, 1}
  /\ FreeInode \notin SubDirs \cup PlainFiles
  /\ Answers \subseteq BOOLEAN /\ TRUE \in Answers
  /\ Cycles \in BOOLEAN /\ Rootless \in BOOLEAN

VARIABLES s, at
passVars == <<s, at>>

EXT2_ROOT_INO == 1
Inodes == {EXT2_ROOT_INO, FreeInode} \cup SubDirs \cup PlainFiles
NoEntry == 0

\* The entries of the image that refer to an inode: names, "." and "..".
Entries(img, ino) ==
  Cardinality({e \in img.names : e[2] = ino})
  + (IF ino \in img.dirs THEN 1 ELSE 0)
  + Cardinality({d \in img.dirs : img.dd[d] = ino})

\* Pass 2 on an image: entries for unused inodes go, and the tables are filled.
\* dir_info keeps the ".." that stood in a cleared entry; one that was missing
\* is written as the root and not noted.
Pass2(img) ==
  LET dotdot(d) == IF d \in img.missing THEN EXT2_ROOT_INO ELSE img.dd[d]
      seen == [img EXCEPT
        !.names = {e \in @ : e[1] \in img.dirs /\ e[2] \in img.used},
        !.dd = [d \in Inodes |-> IF dotdot(d) \in img.used THEN dotdot(d) ELSE NoEntry],
        !.missing = {}]
      above(d) == {e[1] : e \in {n \in seen.names : n[2] = d}}
  IN  [image |-> seen,
       parent |-> [d \in Inodes |-> IF d = EXT2_ROOT_INO THEN d
                                    ELSE IF above(d) = {} THEN 0 ELSE Min(above(d))],
       dotdot |-> [d \in Inodes |-> IF d \in img.missing THEN 0 ELSE img.dd[d]],
       info |-> img.dirs,
       count |-> [i \in Inodes |-> Entries(seen, i)],
       lost_and_found |-> 0, bad |-> FALSE, done |-> {}, loop |-> {},
       restart |-> FALSE, valid |-> TRUE]

\* fix_problem: the answer, and the valid flag gone when it is no.
fix_problem(c) ==
  {[s |-> IF yes THEN c ELSE [c EXCEPT !.valid = FALSE], yes |-> yes] : yes \in Answers}

e2fsck_adjust_inode_count(c, ino, adj) ==
  IF ino = 0 THEN c
  ELSE [c EXCEPT !.count[ino] = Max({0, @ + adj}),
                 !.image.links[ino] = Max({0, @ + adj})]

\* A new /lost+found in the root.
MakeLostAndFound(c) ==
  LET made == [c EXCEPT !.image.names = @ \cup {<<EXT2_ROOT_INO, FreeInode>>},
                        !.image.lpf = FreeInode,
                        !.image.dirs = @ \cup {FreeInode},
                        !.image.used = @ \cup {FreeInode},
                        !.image.dd[FreeInode] = EXT2_ROOT_INO,
                        !.parent[FreeInode] = EXT2_ROOT_INO,
                        !.dotdot[FreeInode] = EXT2_ROOT_INO,
                        !.info = @ \cup {FreeInode}]
      counted == e2fsck_adjust_inode_count(made, EXT2_ROOT_INO, 1)
  IN  [counted EXCEPT !.count[FreeInode] = 2, !.image.links[FreeInode] = 2,
                      !.lost_and_found = FreeInode]

CreateLostAndFound(c) ==
  UNION {
    IF ~q.yes THEN {[s |-> q.s, ino |-> 0]}
    ELSE IF FreeInode \notin c.image.used /\ c.image.space
      THEN {[s |-> MakeLostAndFound(q.s), ino |-> FreeInode]}
    ELSE {[s |-> IF r.yes THEN [r.s EXCEPT !.lost_and_found = EXT2_ROOT_INO] ELSE r.s,
           ino |-> 0] : r \in fix_problem(q.s)}
    : q \in fix_problem(c)}

\* MUTANT: e2fsck goes on although it cut off a directory it had passed.
UnlinkOld_goes_on(c) ==
  LET old == c.image.lpf
      cut == [c EXCEPT !.image.names = @ \ {<<EXT2_ROOT_INO, old>>}, !.image.lpf = 0,
                       !.parent[old] = 0]
  IN  e2fsck_adjust_inode_count(cut, old, -1)

\* An entry "lost+found" that will not do is taken out of the root.  When it was
\* a directory e2fsck has to start again.
UnlinkOld(c) ==
  LET old == c.image.lpf
      cut == [c EXCEPT !.image.names = @ \ {<<EXT2_ROOT_INO, old>>}, !.image.lpf = 0,
                       !.parent[old] = 0, !.restart = @ \/ old \in c.image.dirs]
  IN  e2fsck_adjust_inode_count(cut, old, -1)

e2fsck_get_lost_and_found(c) ==
  LET lpf == c.image.lpf
  IN  IF c.lost_and_found # 0 THEN {[s |-> c, ino |-> c.lost_and_found]}
      ELSE IF lpf = 0 THEN CreateLostAndFound(c)
      ELSE IF lpf \in c.image.dirs /\ ~c.image.oddlpf
        THEN {[s |-> [c EXCEPT !.lost_and_found = lpf], ino |-> lpf]}
      ELSE UNION {IF q.yes THEN CreateLostAndFound(UnlinkOld(q.s))
                  ELSE {[s |-> q.s, ino |-> 0]} : q \in fix_problem(c)}

\* The result of e2fsck_reconnect_file, with ok for its return value 0.  A
\* directory that must grow and cannot is a failure of the link.
e2fsck_reconnect_file(c, ino) ==
  UNION {LET bad == g.s.bad \/ g.ino = 0
             linked == e2fsck_adjust_inode_count(
                         [g.s EXCEPT !.image.names = @ \cup {<<g.ino, ino>>}], ino, 1)
         IN  IF bad THEN {[s |-> [g.s EXCEPT !.bad = TRUE], ok |-> FALSE]}
             ELSE {[s |-> linked, ok |-> TRUE]}
                  \cup IF c.image.space THEN {} ELSE {[s |-> g.s, ok |-> FALSE]}
         : g \in IF c.bad THEN {[s |-> c, ino |-> 0]} ELSE e2fsck_get_lost_and_found(c)}

\* MUTANT: the directory ".." named before keeps its count.
fix_dotdot_plus(c, ino, parent) ==
  [e2fsck_adjust_inode_count(c, parent, 1)
     EXCEPT !.image.dd[ino] = parent, !.dotdot[ino] = parent,
            !.parent[ino] = c.lost_and_found]

\* fix_dotdot: the entry and the counts follow; dir_info's parent becomes
\* lost+found whatever the new ".." is.
fix_dotdot(c, ino, parent) ==
  LET minus == e2fsck_adjust_inode_count(c, c.image.dd[ino], -1)
      plus == e2fsck_adjust_inode_count(minus, parent, 1)
  IN  [plus EXCEPT !.image.dd[ino] = parent, !.dotdot[ino] = parent,
                   !.parent[ino] = c.lost_and_found]

(*************************************************************************)
(* Pass 3.                                                               *)
(*************************************************************************)
At(pc) == [pc |-> pc, i |-> 1, dir |-> 0, ino |-> 0, loop_pass |-> FALSE, climbed |-> 0]

\* The answer to a question the root depends on; without a root e2fsck stops.
check_root ==
  /\ at.pc = "root"
  /\ \/ /\ EXT2_ROOT_INO \in s.image.used
        /\ s' = [s EXCEPT !.done = {EXT2_ROOT_INO}]
        /\ at' = At("iter")
     \/ /\ EXT2_ROOT_INO \notin s.image.used
        /\ \E q \in fix_problem(s) :
             IF q.yes /\ s.image.space
               THEN /\ s' = [q.s EXCEPT !.image.used = @ \cup {EXT2_ROOT_INO},
                                        !.image.dirs = @ \cup {EXT2_ROOT_INO},
                                        !.image.dd[EXT2_ROOT_INO] = EXT2_ROOT_INO,
                                        !.image.links[EXT2_ROOT_INO] = 2,
                                        !.info = @ \cup {EXT2_ROOT_INO},
                                        !.count[EXT2_ROOT_INO] = 2,
                                        !.dotdot[EXT2_ROOT_INO] = EXT2_ROOT_INO,
                                        !.done = {EXT2_ROOT_INO}]
                    /\ at' = At("iter")
               ELSE s' = q.s /\ at' = At("abort")

\* e2fsck_dir_info_iter: the i-th directory of the sorted table.  A directory
\* added to the table before this place moves the others up by one.
DirInfo == SetToSortSeq(s.info, <)
dir_info_iter ==
  /\ at.pc = "iter"
  /\ at' = IF at.i > Len(DirInfo) THEN [at EXCEPT !.pc = "force"]
           ELSE IF s.restart THEN At("restart")
           ELSE IF DirInfo[at.i] \notin s.image.dirs THEN [at EXCEPT !.i = @ + 1]
           ELSE [at EXCEPT !.pc = "climb", !.i = @ + 1, !.dir = DirInfo[at.i],
                           !.ino = DirInfo[at.i], !.loop_pass = FALSE, !.climbed = 0]
  /\ UNCHANGED s

\* The directory has no parent, or the parent was met before in the loop pass.
Unconnected ==
  \/ s.parent[at.ino] = 0
  \/ at.loop_pass /\ s.parent[at.ino] \in s.loop

\* One turn of the loop of check_directory, up to the next parent.
check_directory ==
  /\ at.pc = "climb"
  /\ LET c == [s EXCEPT !.done = @ \cup {at.ino}]
         parent == s.parent[at.ino]
     IN  \/ at.ino \in s.done /\ at' = [at EXCEPT !.pc = "dotdot"] /\ UNCHANGED s
         \/ /\ at.ino \notin s.done /\ Unconnected
            /\ \E q \in fix_problem(c) :
                 \/ ~q.yes /\ s' = q.s
                 \/ q.yes /\ \E r \in e2fsck_reconnect_file(q.s, at.ino) :
                      s' = IF r.ok THEN fix_dotdot(r.s, at.ino, r.s.lost_and_found)
                           ELSE [r.s EXCEPT !.valid = FALSE]
            /\ at' = [at EXCEPT !.pc = "dotdot"]
         \/ /\ at.ino \notin s.done /\ ~Unconnected
            /\ IF at.loop_pass
                 THEN s' = [c EXCEPT !.loop = @ \cup {parent}] /\ at' = [at EXCEPT !.ino = parent]
                 ELSE IF at.climbed > DepthLimit
                   THEN /\ s' = [c EXCEPT !.loop = {}]
                        /\ at' = [at EXCEPT !.loop_pass = TRUE, !.ino = at.dir,
                                           !.climbed = @ + 1]
                   ELSE s' = c /\ at' = [at EXCEPT !.ino = parent, !.climbed = @ + 1]

\* The end of check_directory: ".." and the parent must agree.
check_dotdot ==
  /\ at.pc = "dotdot"
  /\ at' = [at EXCEPT !.pc = "iter"]
  /\ IF s.dotdot[at.dir] = s.parent[at.dir] THEN UNCHANGED s
     ELSE \E q \in fix_problem(s) :
            s' = IF q.yes THEN fix_dotdot(q.s, at.dir, s.parent[at.dir]) ELSE q.s

\* e2fsck_pass3 forces the creation of /lost+found at its end.
force_lost_and_found ==
  /\ at.pc = "force"
  /\ \E g \in e2fsck_get_lost_and_found(s) :
       /\ s' = g.s
       /\ at' = At(IF g.s.restart THEN "restart" ELSE "pass4")

\* main: everything again from the image.
Restart ==
  /\ at.pc = "restart"
  /\ s' = Pass2(s.image)
  /\ at' = At("root")

(*************************************************************************)
(* Pass 4.                                                               *)
(*************************************************************************)
\* disconnect_inode: each outcome with skip for its return value 1.
disconnect_inode(c, ino) ==
  LET cleared == [c EXCEPT !.image.links[ino] = 0, !.image.used = @ \ {ino}]
      connect(d) ==
        UNION {IF q.yes
                 THEN {[s |-> IF r.ok THEN r.s ELSE [r.s EXCEPT !.valid = FALSE],
                        skip |-> FALSE] : r \in e2fsck_reconnect_file(q.s, ino)}
                 ELSE {[s |-> q.s, skip |-> TRUE]} : q \in fix_problem(d)}
  IN  IF ino \in EmptyFiles
        THEN UNION {IF yes THEN {[s |-> cleared, skip |-> FALSE]} ELSE connect(c)
                    : yes \in Answers}
        ELSE connect(c)

\* The link count the inode should have.
LinkCount(c, ino) ==
  IF ino \in c.image.dirs /\ c.count[ino] > LinkMax THEN 1 ELSE c.count[ino]

fix_count(c, ino) ==
  IF LinkCount(c, ino) = c.image.links[ino] THEN {c}
  ELSE {IF q.yes THEN [q.s EXCEPT !.image.links[ino] = LinkCount(c, ino)] ELSE q.s
        : q \in fix_problem(c)}

s_inodes_count == Max(Inodes)
e2fsck_pass4 ==
  /\ at.pc = "pass4"
  /\ IF at.i \notin s.image.used THEN UNCHANGED s
     ELSE \E d \in IF s.count[at.i] = 0 THEN disconnect_inode(s, at.i)
                   ELSE {[s |-> s, skip |-> FALSE]} :
            IF d.skip THEN s' = d.s ELSE s' \in fix_count(d.s, at.i)
  /\ at' = IF at.i < s_inodes_count THEN [at EXCEPT !.i = @ + 1]
           ELSE At(IF s'.restart THEN "restart" ELSE "done")

(*************************************************************************)
(* The images the passes start from.                                     *)
(*************************************************************************)
RECURSIVE Ancestors(_, _, _)
Ancestors(up, d, n) ==
  IF n = 0 \/ up[d] \in {0, EXT2_ROOT_INO} THEN {}
  ELSE {up[d]} \cup Ancestors(up, up[d], n - 1)

\* The directory each inode is in (0: none).  No directory contains itself.
Places ==
  {up \in [SubDirs \cup PlainFiles -> {0, EXT2_ROOT_INO} \cup SubDirs] :
     \A d \in SubDirs :
       d # up[d] /\ (Cycles \/ d \notin Ancestors(up, d, Cardinality(SubDirs)))}

\* A file system: root says whether the root is there, lpf is the inode named
\* lost+found and odd whether it may not serve, gone holds the directories
\* without "..", space says whether there is room for a new directory.
Image(up, dd, root, lpf, odd, gone, space) ==
  LET used == DOMAIN up \cup IF root THEN {EXT2_ROOT_INO} ELSE {}
  IN  [names |-> {<<up[i], i>> : i \in {j \in DOMAIN up : up[j] # 0}},
       dirs |-> used \ PlainFiles, used |-> used,
       dd |-> [i \in Inodes |-> IF i \in SubDirs THEN dd[i]
                                ELSE IF i = EXT2_ROOT_INO /\ root THEN i ELSE NoEntry],
       links |-> [i \in Inodes |-> 2],
       lpf |-> lpf, oddlpf |-> odd, missing |-> gone, space |-> space]

PassInit ==
  /\ \E up \in Places, dd \in [SubDirs -> Inodes \ {FreeInode}], odd \in BOOLEAN,
       gone \in {{}} \cup {{d} : d \in SubDirs},
       root \in {TRUE, ~Rootless}, space \in {TRUE, ~Rootless} :
       \E lpf \in {0} \cup {i \in DOMAIN up : up[i] = EXT2_ROOT_INO} :
         /\ lpf # 0 => root
         /\ odd => lpf \in SubDirs
         /\ s = Pass2(Image(up, dd, root, lpf, odd, gone, space))
  /\ at = At("root")

PassNext ==
  \/ check_root \/ dir_info_iter \/ check_directory \/ check_dotdot
  \/ force_lost_and_found \/ Restart \/ e2fsck_pass4

PassSpec == PassInit /\ [][PassNext]_passVars

(*************************************************************************)
(* Properties.                                                           *)
(*************************************************************************)
RECURSIVE Under(_, _)
Under(img, dirs) ==
  LET more == dirs \cup {e[2] : e \in {n \in img.names : n[1] \in dirs}}
  IN  IF more = dirs THEN dirs ELSE Under(img, more)

\* When passes 3 and 4 end with the valid flag still set, every inode in use can
\* be reached from the root, and every ".." names the directory that holds the
\* directory: what pass3.c promises of a file system it calls clean.
CleanMeansConnected ==
  at.pc = "done" /\ s.valid =>
    /\ s.image.used = Under(s.image, {EXT2_ROOT_INO})
    /\ \A e \in s.image.names : e[2] \in s.image.dirs => s.image.dd[e[2]] = e[1]

\* When passes 3 and 4 end with the valid flag still set, the link count of every
\* inode in use is the number of entries that refer to it, with 1 standing for
\* more than EXT2_LINK_MAX on a directory: the running counts of pass3.c have not
\* drifted from the entries it changed.
CleanMeansCounted ==
  at.pc = "done" /\ s.valid =>
    \A i \in s.image.used :
      s.image.links[i] = IF i \in s.image.dirs /\ Entries(s.image, i) > LinkMax
                           THEN 1 ELSE Entries(s.image, i)
=============================================================================
