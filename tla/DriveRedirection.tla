-------------------------- MODULE DriveRedirection --------------------------
(***************************************************************************)
(* The drive backend of the RDP channel (rdpdr/): folders of this machine  *)
(* that the remote Windows sees as drives.  The remote opens files, reads, *)
(* writes, renames, marks for deletion and closes them; the backend keeps  *)
(* one table per kind of fact about an open file, all keyed by the file id *)
(* it handed out, and reaches the file by its path for everything but      *)
(* reads and writes.                                                       *)
(*                                                                         *)
(* Requests are handled one at a time, each in one step.  Other programs   *)
(* of this machine change the folder between two requests.                 *)
(*                                                                         *)
(* A drive is a root folder and its children; a child folder is empty.  A  *)
(* file's content is one fact: whether it holds data the remote was told   *)
(* is written.  A node stands for an inode: the file itself, whatever its  *)
(* name is now.                                                            *)
(***************************************************************************)
EXTENDS Naturals, Sequences, FiniteSets, SequencesExt

CONSTANTS
    Drives,     \* device ids mapped to a folder (drive_paths)
    Devices,    \* device ids the remote names in its requests
    Names,      \* names of the children of a root
    Requested,  \* paths the remote asks for: sequences of components
    MaxOpens,   \* bound: create requests (and so file ids)
    MaxChanges  \* bound: changes other programs make in the folders

ASSUME DriveAssumption ==
    /\ Drives \subseteq Devices
    /\ IsFiniteSet(Drives) /\ IsFiniteSet(Names)
    /\ Names \cap {"", ".", ".."} = {}
    /\ {MaxOpens, MaxChanges} \subseteq Nat

VARIABLES
    tree,           \* what each path of each drive names: a node or Nothing
    written,        \* nodes that hold data the remote was told is written
    nextFileId,     \* file_id
    fileMap,        \* file_map: None for a folder, else the File's access
    pathMap,        \* file_path_map
    deviceMap,      \* file_device_map
    dirMap,         \* file_dir_map: names the iterator has still to return
    deleteOnClose,  \* delete_on_close
    changes,        \* changes other programs made
    opened,         \* observer: the node each open handle was opened on
    wanted,         \* observer: handles whose latest disposition is delete
    disturbed,      \* observer: handles whose file another party moved
    kept,           \* observer: the latest close could not remove what it was to
    listing         \* observer: what each listing told the remote, unless cut short

tables == <<fileMap, pathMap, deviceMap, opened>>
folders == <<tree, written, changes, kept>>
driveVars == <<tree, written, nextFileId, tables, dirMap,
               deleteOnClose, changes, wanted, disturbed, kept, listing>>

(* A node is its kind and a number; one that neither a path names nor a    *)
(* handle holds is free for the next file.                                 *)
Nothing == <<"nothing", 0>>
Root == <<>>
Refused == <<"..">>
Paths == Drives \X ({Root} \cup {<<n>> : n \in Names})

Dispositions == {"open", "create", "open_if", "overwrite", "overwrite_if",
                 "supersede"}
OpenKinds == {"folder", "file", "either"}

Exists(p) == tree[p] # Nothing
IsFolder(p) == tree[p][1] = "folder"
IsFile(p) == tree[p][1] = "file"
Children(p) == IF p[2] = Root
               THEN {n \in Names : Exists(<<p[1], <<n>>>>)} ELSE {}
Handles == DOMAIN pathMap

Without(f, x) == Restrict(f, DOMAIN f \ {x})
With(f, x, v) == [y \in DOMAIN f \cup {x} |-> IF y = x THEN v ELSE f[y]]

DriveInit ==
    /\ tree = [p \in Paths |-> IF p[2] = Root THEN <<"folder", 1>> ELSE Nothing]
    /\ written = {}
    /\ nextFileId = 0
    /\ fileMap = <<>> /\ pathMap = <<>> /\ deviceMap = <<>> /\ dirMap = <<>>
    /\ deleteOnClose = {}
    /\ changes = 0
    /\ opened = <<>> /\ wanted = {} /\ disturbed = {} /\ kept = FALSE /\ listing = <<>>

-----------------------------------------------------------------------------
(* safe_join walks the components of a request from the drive's root: ".." *)
(* drops the last name, and climbing above the root refuses the request.   *)
Component(path, c) ==
    CASE path = Refused -> Refused
      [] c = "." -> path
      [] c = ".." -> IF path = Root THEN Refused ELSE Front(path)
      [] OTHER -> Append(path, c)

SafeJoin(components) == FoldLeft(Component, Root, components)

(* The path a request reaches: none for a device that is not mapped or a   *)
(* path that leaves the drive.                                             *)
Reached(device, components) ==
    IF device \in Drives /\ SafeJoin(components) # Refused
    THEN {<<device, SafeJoin(components)>>} ELSE {}

ASSUME RequestAssumption ==
    \A r \in Requested : SafeJoin(r) \in {Refused, Root} \cup {<<n>> : n \in Names}

(* A listing whose entries are taken away under it is no longer followed.  *)
Listed(t) ==
    Restrict(listing, {h \in DOMAIN listing :
        \A n \in listing[h].names : t[<<listing[h].drive, <<n>>>>] # Nothing})

(* The folder after p's node is unlinked, and after a new one is made.     *)
Unlinks(p) ==
    /\ tree' = [tree EXCEPT ![p] = Nothing]
    /\ written' = written \ {tree[p]}
    /\ listing' = Listed(tree')

InUse == {tree[p] : p \in Paths} \cup {opened[h] : h \in Handles}
Unused(kind) == {i \in 1..Cardinality(InUse) + 2 : <<kind, i>> \notin InUse}
NewFile(kind) == <<kind, CHOOSE i \in Unused(kind) : TRUE>>

Makes(p, kind) == tree' = [tree EXCEPT ![p] = NewFile(kind)]

At(p) == {h \in Handles : pathMap[h] = p}

-----------------------------------------------------------------------------
(* create_drive.  Every request burns a file id, a refused one too.        *)
TakesId == nextFileId < MaxOpens /\ nextFileId' = nextFileId + 1

(* insert_file and insert_directory.                                       *)
Inserts(device, p, access) ==
    /\ fileMap' = With(fileMap, nextFileId, access)
    /\ pathMap' = With(pathMap, nextFileId, p)
    /\ deviceMap' = With(deviceMap, nextFileId, device)
    /\ opened' = With(opened, nextFileId, tree'[p])
    /\ UNCHANGED <<dirMap, deleteOnClose, wanted, disturbed>>

Access(disposition) == IF disposition = "open" THEN "reads" ELSE "writes"

(* What a create request does with the path it reaches: a folder is opened *)
(* unless the remote wants it made or wants a file; a missing folder is    *)
(* made with the folders above it (create_dir_all); a missing file needs   *)
(* the folder it is in.                                                    *)
Parent(p) == <<p[1], Root>>
InFolder(p) == p[2] = Root \/ IsFolder(Parent(p))

FolderOpens(p, disposition, kind) ==
    IsFolder(p) /\ disposition # "create" /\ kind # "file"

FolderIsMade(p, disposition, kind) ==
    /\ ~Exists(p) /\ kind = "folder" /\ disposition \in {"create", "open_if"}
    /\ p[2] # Root => ~IsFile(Parent(p))

FileOpens(p, disposition, kind) ==
    IsFile(p) /\ disposition # "create" /\ kind # "folder"

FileIsMade(p, disposition, kind) ==
    /\ ~Exists(p) /\ InFolder(p) /\ kind # "folder"
    /\ disposition \in {"create", "open_if", "overwrite_if", "supersede"}

OpensFolder(device, p) ==
    /\ UNCHANGED <<folders, listing>>
    /\ Inserts(device, p, "folder")

MakesFolder(device, p) ==
    /\ \/ InFolder(p) /\ Makes(p, "folder")
       \/ /\ ~InFolder(p)
          /\ \E i \in Unused("folder") :
                /\ <<"folder", i>> # NewFile("folder")
                /\ tree' = [tree EXCEPT ![p] = NewFile("folder"),
                                        ![Parent(p)] = <<"folder", i>>]
    /\ Inserts(device, p, "folder")
    /\ UNCHANGED <<written, changes, kept, listing>>

(* FILE_SUPERSEDE opens for appending and keeps the content; only the      *)
(* overwriting dispositions truncate.                                      *)
OpensFile(device, p, disposition) ==
    /\ written' = IF disposition \in {"overwrite", "overwrite_if"}
                  THEN written \ {tree[p]} ELSE written
    /\ UNCHANGED <<tree, changes, kept, listing>>
    /\ Inserts(device, p, Access(disposition))

MakesFile(device, p, disposition) ==
    /\ Makes(p, "file")
    /\ UNCHANGED <<written, changes, kept, listing>>
    /\ Inserts(device, p, Access(disposition))

(* The system may refuse to open or to make anything; nothing is kept of   *)
(* such a request but the id it took.                                      *)
CreateDrive(device, request, disposition, kind) ==
    /\ TakesId
    /\ \/ \E p \in Reached(device, request) :
             \/ FolderOpens(p, disposition, kind) /\ OpensFolder(device, p)
             \/ FolderIsMade(p, disposition, kind) /\ MakesFolder(device, p)
             \/ /\ FileOpens(p, disposition, kind)
                /\ OpensFile(device, p, disposition)
             \/ /\ FileIsMade(p, disposition, kind)
                /\ MakesFile(device, p, disposition)
       \/ UNCHANGED <<folders, tables, dirMap, deleteOnClose, wanted,
                      disturbed, listing>>

-----------------------------------------------------------------------------
(* write_device reports success only for a File that takes the bytes; data *)
(* in a file that has lost its name is not tracked.                        *)
WriteDevice(h) ==
    /\ fileMap[h] = "writes"
    /\ opened[h] \in {tree[p] : p \in Paths}
    /\ written' = written \cup {opened[h]}
    /\ UNCHANGED <<tree, changes, kept, nextFileId, tables, dirMap,
                   deleteOnClose, wanted, disturbed, listing>>

(* EndOfFile, which shortens the file to nothing here.                     *)
SetEndOfFile(h) ==
    /\ fileMap[h] = "writes"
    /\ written' = written \ {opened[h]}
    /\ UNCHANGED <<tree, changes, kept, nextFileId, tables, dirMap,
                   deleteOnClose, wanted, disturbed, listing>>

(* Mutant: a mark cannot be taken back.                                    *)
MarksForGood(h, delete) ==
    /\ deleteOnClose' = IF delete THEN deleteOnClose \cup {h} ELSE deleteOnClose
    /\ wanted' = IF delete THEN wanted \cup {h} ELSE wanted \ {h}
    /\ UNCHANGED <<folders, nextFileId, tables, dirMap, disturbed, listing>>

(* Disposition: mark the handle's file for deletion on close, or unmark    *)
(* it.                                                                     *)
SetDisposition(h, delete) ==
    /\ deleteOnClose' = IF delete THEN deleteOnClose \cup {h}
                        ELSE deleteOnClose \ {h}
    /\ wanted' = IF delete THEN wanted \cup {h} ELSE wanted \ {h}
    /\ UNCHANGED <<folders, nextFileId, tables, dirMap, disturbed, listing>>

(* Rename moves whatever the handle's path names now, over a file that is  *)
(* in the way, and follows it in file_path_map: for this handle alone.     *)
Movable(from, to) ==
    /\ from[2] # Root /\ to[2] # Root
    /\ Exists(from) /\ IsFolder(Parent(to))
    /\ Exists(to) => tree[to][1] = tree[from][1]

Moves(from, to) ==
    /\ tree' = [tree EXCEPT ![from] = Nothing, ![to] = tree[from]]
    /\ written' = written \ {tree[to]}
    /\ listing' = Listed(tree')

(* Mutant: the handle keeps the path it was opened with.                   *)
RenameForgets(h, device, request) ==
    \E to \in Reached(device, request) :
        /\ Movable(pathMap[h], to) /\ to # pathMap[h]
        /\ Moves(pathMap[h], to)
        /\ disturbed' = disturbed
               \cup ((At(pathMap[h]) \cup At(to)) \ {h})
        /\ UNCHANGED <<changes, kept, nextFileId, tables, dirMap,
                       deleteOnClose, wanted>>

Rename(h, device, request) ==
    \E to \in Reached(device, request) :
        /\ Movable(pathMap[h], to) /\ to # pathMap[h]
        /\ Moves(pathMap[h], to)
        /\ pathMap' = [pathMap EXCEPT ![h] = to]
        /\ disturbed' = disturbed
               \cup ((At(pathMap[h]) \cup At(to)) \ {h})
        /\ UNCHANGED <<changes, kept, nextFileId, fileMap, deviceMap, opened,
                       dirMap, deleteOnClose, wanted>>

(* Mutant: the listing under way outlives its handle.                      *)
KeepsListing(h) == UNCHANGED dirMap

EndsListing(h) == dirMap' = Without(dirMap, h)

(* close_device: every table forgets the handle, then a marked handle's    *)
(* path is removed: a file, or a folder with nothing in it.  A removal     *)
(* that fails is logged, and the close is answered as if it had not.       *)
Removable(p) == IsFile(p) \/ (IsFolder(p) /\ Children(p) = {})

CloseDevice(h) ==
    /\ fileMap' = Without(fileMap, h)
    /\ pathMap' = Without(pathMap, h)
    /\ deviceMap' = Without(deviceMap, h)
    /\ opened' = Without(opened, h)
    /\ EndsListing(h)
    /\ deleteOnClose' = deleteOnClose \ {h}
    /\ wanted' = wanted \ {h}
    /\ \/ /\ h \in deleteOnClose /\ Removable(pathMap[h])
          /\ tree' = [tree EXCEPT ![pathMap[h]] = Nothing]
          /\ written' = written \ {tree[pathMap[h]]}
          /\ disturbed' = (disturbed \cup At(pathMap[h])) \ {h}
          /\ listing' = Without(Listed(tree'), h)
          /\ kept' = FALSE
       \/ /\ disturbed' = disturbed \ {h}
          /\ listing' = Without(listing, h)
          /\ kept' = (h \in deleteOnClose)
          /\ UNCHANGED <<tree, written>>
    /\ UNCHANGED <<changes, nextFileId>>

-----------------------------------------------------------------------------
(* query_directory, which the remote asks of a folder's handle.  The first *)
(* query of a listing opens an iterator over the folder the request names  *)
(* and answers its first entry; each later query answers the next one.     *)
Iterates(h, left, l) == dirMap' = With(dirMap, h, left) /\ listing' = l

(* make_query_dir_resp.  The listing ends with the iterator's last entry.  *)
(* An entry whose metadata can be read is told; one that cannot be read,   *)
(* as it is once it is gone, is answered as the end of the listing, and so *)
(* is an iterator that fails; and one asked for in a class that is not     *)
(* supported is used up untold.                                            *)
Lists(h, d, entries) ==
    \/ entries = {} /\ Iterates(h, {}, With(listing, h, [d EXCEPT !.over = TRUE]))
    \/ \E n \in entries :
          /\ Exists(<<d.drive, <<n>>>>)
          /\ Iterates(h, entries \ {n}, With(listing, h, [d EXCEPT !.told = @ \cup {n}]))
    \/ \E left \in {entries} \cup {entries \ {n} : n \in entries} :
          Iterates(h, left, Without(listing, h))

ListingOf(p) ==
    [drive |-> p[1], names |-> Children(p), told |-> {}, over |-> FALSE]

(* Mutant: the entry read to skip "." and ".." is not answered.            *)
QuerySkipsOne(h, device, request) ==
    fileMap[h] = "folder" /\ \E p \in Reached(device, request) :
        /\ IsFolder(p)
        /\ \E n \in Children(p) \cup {""} :
               Lists(h, ListingOf(p), Children(p) \ {n})
        /\ UNCHANGED <<folders, nextFileId, tables, deleteOnClose, wanted,
                       disturbed>>

(* A folder that cannot be read answers NO_SUCH_FILE and leaves the        *)
(* iterator of an earlier listing where it is.                             *)
QueryFirst(h, device, request) ==
    fileMap[h] = "folder" /\ \E p \in Reached(device, request) :
        /\ IsFolder(p)
        /\ \/ Lists(h, ListingOf(p), Children(p))
           \/ listing' = Without(listing, h) /\ UNCHANGED dirMap
        /\ UNCHANGED <<folders, nextFileId, tables, deleteOnClose, wanted,
                       disturbed>>

QueryNext(h) ==
    /\ h \in DOMAIN dirMap
    /\ \/ h \in DOMAIN listing /\ ~listing[h].over /\ Lists(h, listing[h], dirMap[h])
       \/ /\ h \notin DOMAIN listing
          /\ \E n \in dirMap[h] : Iterates(h, dirMap[h] \ {n}, listing)
    /\ UNCHANGED <<folders, nextFileId, tables, deleteOnClose, wanted,
                   disturbed>>

-----------------------------------------------------------------------------
(* Other programs of this machine: a new file, or a file taken away.       *)
OthersMake(p) ==
    /\ changes < MaxChanges /\ changes' = changes + 1
    /\ p[2] # Root /\ ~Exists(p) /\ IsFolder(Parent(p))
    /\ Makes(p, "file")
    /\ UNCHANGED <<written, kept, nextFileId, tables, dirMap, deleteOnClose,
                   wanted, disturbed, listing>>

OthersRemove(p) ==
    /\ changes < MaxChanges /\ changes' = changes + 1
    /\ IsFile(p)
    /\ Unlinks(p)
    /\ disturbed' = disturbed \cup At(p)
    /\ UNCHANGED <<kept, nextFileId, tables, dirMap, deleteOnClose, wanted>>

DriveNext ==
    \/ \E device \in Devices, r \in Requested, disposition \in Dispositions,
          kind \in OpenKinds : CreateDrive(device, r, disposition, kind)
    \/ \E h \in Handles :
          \/ WriteDevice(h)
          \/ SetEndOfFile(h)
          \/ \E delete \in BOOLEAN : SetDisposition(h, delete)
          \/ \E device \in Devices, r \in Requested :
                Rename(h, device, r) \/ QueryFirst(h, device, r)
          \/ QueryNext(h)
          \/ CloseDevice(h)
    \/ \E p \in Paths : OthersMake(p) \/ OthersRemove(p)

DriveSpec == DriveInit /\ [][DriveNext]_driveVars

-----------------------------------------------------------------------------
DriveTypeOK ==
    /\ tree \in [Paths -> {Nothing} \cup ({"file", "folder"} \X (Nat \ {0}))]
    /\ written \subseteq {tree[p] : p \in Paths} \ {Nothing}
    /\ fileMap \in [Handles -> {"folder", "reads", "writes"}]
    /\ deviceMap \in [Handles -> Drives]
    /\ \A h \in Handles : h < nextFileId /\ pathMap[h] \in Paths
    /\ DOMAIN dirMap \cup deleteOnClose \subseteq Handles
    /\ kept \in BOOLEAN

(* The path a handle is reached by names the file the handle was opened    *)
(* on, through every rename made with that handle, for as long as nobody   *)
(* else moves or removes what is at that path.  Queries, renames and the   *)
(* deletion on close go by the path, reads and writes by the open file.    *)
PathNamesHandle ==
    \A h \in Handles \ disturbed : tree[pathMap[h]] = opened[h]

(* Closing a handle takes away exactly the file that the remote's latest   *)
(* disposition for this handle asked to delete: a file that holds the      *)
(* remote's data survives every other close, and a file it asked to delete *)
(* is gone when the answer is sent, or its removal was tried and failed    *)
(* (which the answer does not say).  Of a handle whose path another party  *)
(* moved, nothing is promised.                                             *)
DeletesAsAsked ==
    [][\A h \in Handles \ DOMAIN pathMap' :
          h \notin disturbed =>
              /\ h \in wanted /\ opened[h][1] = "file" =>
                     kept' \/ \A p \in Paths : tree'[p] # opened[h]
              /\ \A n \in written \ written' : h \in wanted /\ n = opened[h]
      ]_driveVars

(* When the remote is told a listing is over, it has been told every name  *)
(* the folder had when the listing began - unless one of them was taken    *)
(* away meanwhile, reading the folder or an entry failed, or the remote    *)
(* asked for an entry in a class that is not supported: such listings are  *)
(* no longer followed.                                                     *)
ListingWhole ==
    \A h \in DOMAIN listing : listing[h].over => listing[h].names = listing[h].told
=============================================================================
