----------------------------- MODULE FileSystem -----------------------------
(***************************************************************************)
(* The system calls of FileCalls as steps of processes, with a crash that  *)
(* loses everything but the disk.  A call is one step here; the            *)
(* transactions it makes of its blocks are in Xv6Log.                      *)
(***************************************************************************)
EXTENDS FileCalls

CONSTANTS Callers, Fds, Olds, Paths, Modes, Sources, MaxRead, Majors

VARIABLES fs,      \* the state of Inodes and FileCalls
          lost     \* inodes a crash left allocated without a link

(* A panic stops the machine.  r, out and off mean nothing between calls.  *)
Call(p, t) == /\ fs.panic = "" /\ fs.cwd[p] # 0
              /\ fs' = [t EXCEPT !.r = 0, !.out = <<>>, !.off = 0]
              /\ UNCHANGED lost

(* The calls a process may make at will: the name and the arguments.  The  *)
(* last process does not exit.                                             *)
Calls(p) ==
  {<<"open", path, m>> : path \in Paths, m \in Modes}
  \cup {<<call, fd>> : call \in {"close", "dup"}, fd \in Fds}
  \cup {<<"read", fd, MaxRead, room>> : fd \in Fds, room \in {0, MaxRead}}
  \cup {<<"write", fd, src>> : fd \in Fds, src \in Sources}
  \cup {<<"fstat", fd, m>> : fd \in Fds, m \in BOOLEAN}
  \cup {<<"link", old, new>> : old \in Olds, new \in Paths}
  \cup {<<call, path>> : call \in {"unlink", "mkdir", "chdir", "exec"}, path \in Paths}
  \cup {<<"mknod", path, m>> : path \in Paths, m \in Majors}
  \cup {<<"fork", np>> : np \in {q \in Callers : fs.cwd[q] = 0}}
  \cup {<<"exit">> : q \in {q \in Proc \ {p} : fs.cwd[q] # 0}}

Unlinked(s) == {i \in Inum : s.dino[i].type # "none" /\ s.dino[i].nlink = 0}

Crash(p) ==
  /\ fs.panic = ""
  /\ fs' = userinit([Blank EXCEPT !.dino = fs.dino, !.data = fs.data,
                                   !.used = fs.used, !.adrift = fs.adrift], p)
  /\ lost' = Unlinked(fs)

-----------------------------------------------------------------------------
(* Properties.  They are about the states between two calls, as long as    *)
(* nobody has left a removed directory through ".." or linked into one     *)
(* (adrift): dirlookup and dirlink do not look at dp->nlink.               *)

Sound == fs.panic = "" /\ ~fs.adrift
Now(i) == IF fs.ic[i].valid THEN fs.ic[i].ino ELSE fs.dino[i]
Allocated == {i \in Inum : fs.dino[i].type # "none"}
Dirs == {i \in Allocated : Now(i).type = "dir" /\ Now(i).nlink > 0}
(* The entries in use: where each is and what it says.                     *)
Entries == UNION {LET q == content(fs, Now(d))
                  IN  {[dir |-> d, at |-> k, n |-> q[k].n, i |-> q[k].i] :
                         k \in {j \in DOMAIN q : q[j].i # 0}} : d \in Dirs}

TypeOK ==
  /\ \A i \in Inum : fs.ic[i].ref \in Nat /\ fs.dino[i].nlink \in Nat
  /\ fs.used \subseteq Block /\ lost \subseteq Inum
  /\ \A p \in Proc : fs.cwd[p] \in Inum \cup {0}
  /\ \A p \in Proc, fd \in Fd : fs.ofile[p][fd] \in File \cup {0}
  /\ ~fs.inop /\ fs.log = {}

(* The bitmap of balloc and bfree marks exactly the blocks that bmap has   *)
(* put into an inode, and no block is in two places, whatever failed on    *)
(* the way: a full disk, an unmapped buffer, a refused name.               *)
BlocksOwnedOnce ==
  Sound => LET all == FoldSet(LAMBDA i, q : q \o owned(fs, Now(i)), <<>>, Allocated)
           IN  ToSet(all) = fs.used /\ Len(all) = Cardinality(fs.used)

(* "Number of links to inode in file system" (fs.h): nlink, which create,  *)
(* sys_link and sys_unlink keep by hand and roll back by hand, is the      *)
(* number of entries other than "." that name the inode.                   *)
LinkCounts ==
  Sound => LET links == {e \in Entries : e.n # "."}
           IN  \A i \in Allocated : Now(i).nlink = Cardinality({e \in links : e.i = i})

(* Directories form a tree: names are unique, "." is the directory, ".."   *)
(* is the one directory that holds it, and no entry names a free inode.    *)
Tree ==
  Sound => LET all == Entries
               named == {e \in all : e.n \notin {".", ".."}}
           IN  /\ \A e, f \in all : e.dir = f.dir /\ e.n = f.n => e = f
               /\ \A e \in all : e.i \in Allocated
               /\ \A d \in Dirs :
                    /\ [dir |-> d, at |-> 1, n |-> ".", i |-> d] \in all
                    /\ \E up \in Dirs :
                         /\ [dir |-> d, at |-> 2, n |-> "..", i |-> up] \in all
                         /\ {e.dir : e \in {f \in named : f.i = d}}
                              = IF d = ROOTINO THEN {} ELSE {up}

(* Between calls every reference of the inode table and of the file table  *)
(* is somebody's: iput and fileclose ran on every path out of every call,  *)
(* the ones that fail half way included.                                   *)
RefCounts ==
  fs.panic = "" =>
    /\ \A i \in Inum \ {0} : fs.ic[i].ref = Cardinality({f \in File : fs.ftab[f].ip = i})
                                      + Cardinality({p \in Proc : fs.cwd[p] = i})
    /\ \A f \in File : fs.ftab[f].ref =
         Cardinality({x \in Proc \X Fd : fs.ofile[x[1]][x[2]] = f})

(* "Must be called after every change to an ip->xxx field that lives on    *)
(* disk" (iupdate): the table never holds what the disk would lose.        *)
DiskCurrent == fs.panic = "" => \A i \in Inum : fs.ic[i].valid => fs.ic[i].ino = fs.dino[i]

(* iput frees an inode without links when the last reference goes; only a  *)
(* crash between unlink and the last close leaves one behind.              *)
NoOrphan == Sound => \A i \in Unlinked(fs) \ lost : fs.ic[i].ref > 0

(* "max # of blocks any FS op writes" (param.h): no transaction of any     *)
(* call logs more than MAXOPBLOCKS blocks.                                 *)
OpFits == fs.fits

(* No sequence of calls makes the kernel panic before somebody is adrift.  *)
NoPanic == fs.panic # "" => fs.adrift

(* Between two calls, whatever the earlier ones did and wherever they      *)
(* failed, the file system is consistent: the bitmap, the link counts, the *)
(* tree of directories and the inodes on the disk agree.                   *)
Consistent == /\ TypeOK /\ BlocksOwnedOnce /\ LinkCounts /\ Tree
              /\ NoOrphan /\ DiskCurrent
=============================================================================
