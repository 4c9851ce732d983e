---------------------------- MODULE VirtualFiles ----------------------------
(***************************************************************************)
(* VFSEngine (vfs.h): files below one root.  The tree is never deeper:     *)
(* the only directory made is the root, so find_node's walk down through   *)
(* directories is a walk along the root's children, the newest in front.   *)
(* The root is there: DevTools has the start with an arena too small.      *)
(***************************************************************************)
EXTENDS Integers, Sequences, SequencesExt

CONSTANTS
  AllPaths,      (* paths the page uses, Root and Empty among them         *)
  Root, Empty,   (* "/" and ""                                             *)
  ContentLength, (* content -> its length                                  *)
  MaxFiles,      (* bound on the files created                             *)
  NoContent

ASSUME FilesAssumption ==
  /\ Root # Empty
  /\ ContentLength \in [DOMAIN ContentLength -> Nat]
  /\ NoContent \notin DOMAIN ContentLength

VARIABLES
  tree,          (* the root's children, the newest first: [path, content] *)
  totalFiles, totalBytes,
  returned       (* what the last call returned                            *)

fileVars == <<tree, totalFiles, totalBytes, returned>>

----------------------------------------------------------------------------
\* Slip: the walk ends at the first child.
FindAtFront(path) == IF tree # << >> /\ path = tree[1].path THEN 1 ELSE 0

\* find_node for all but the root: the first child of that path, or 0.  The
\* empty path is never found.
Find(path) ==
  IF path = Empty THEN 0 ELSE SelectInSeq(tree, LAMBDA file : file.path = path)

FilesInit ==
  /\ tree = << >>
  /\ totalFiles = 0 /\ totalBytes = 0
  /\ returned = FALSE

OverwriteFile(path, content) ==
  /\ path # Root /\ Find(path) # 0
  /\ tree' = [tree EXCEPT ![Find(path)].content = content]
  /\ returned' = TRUE
  /\ UNCHANGED <<totalFiles, totalBytes>>

CreateFile(path, content) ==
  /\ path # Root /\ Find(path) = 0
  /\ Len(tree) < MaxFiles
  /\ tree' = <<[path |-> path, content |-> content]>> \o tree
  /\ totalFiles' = totalFiles + 1
  /\ totalBytes' = totalBytes + ContentLength[content]
  /\ returned' = TRUE

\* The root is a directory; for a new file the arena may have no room.
WriteRefused(path) ==
  /\ path = Root \/ Find(path) = 0
  /\ returned' = FALSE
  /\ UNCHANGED <<tree, totalFiles, totalBytes>>

FileExists(path) ==
  /\ returned' = (path = Root \/ Find(path) # 0)
  /\ UNCHANGED <<tree, totalFiles, totalBytes>>

FilesNext ==
  \E path \in AllPaths :
    \/ \E content \in DOMAIN ContentLength :
         OverwriteFile(path, content) \/ CreateFile(path, content)
    \/ WriteRefused(path)
    \/ FileExists(path)

FilesSpec == FilesInit /\ [][FilesNext]_fileVars

----------------------------------------------------------------------------
FilePaths == AllPaths \ {Root, Empty}

Contents == [path \in FilePaths |-> IF Find(path) = 0 THEN NoContent ELSE tree[Find(path)].content]

Map == INSTANCE FileMap WITH
  Paths <- FilePaths, Length <- ContentLength, NoFile <- NoContent,
  stored <- Contents, files <- totalFiles, bytes <- totalBytes, answer <- returned

\* What each call does and answers.  "/" is a directory, always there; the
\* empty path is never found, and a file written to it is lost.
EachCallIsAnswered ==
  \A path \in AllPaths :
    /\ \A content \in DOMAIN ContentLength :
         OverwriteFile(path, content) \/ CreateFile(path, content) =>
           IF path \in FilePaths THEN Map!Write(path, content) ELSE Map!WriteLost(content)
    /\ WriteRefused(path) =>
         IF path \in FilePaths THEN Map!Refuse(path) ELSE Map!Answered(FALSE)
    /\ FileExists(path) =>
         IF path \in FilePaths THEN Map!Exists(path) ELSE Map!Answered(path = Root)

\* However writes to new and old paths and to those no file can have are
\* mixed, each path has the content that the last write to it named and no
\* other path's changes, a file is found once it is there and is counted
\* once, and a refused write leaves the old one.
FilesAreMap == Map!Init /\ [][EachCallIsAnswered]_fileVars
============================================================================
