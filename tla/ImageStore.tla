----------------------------- MODULE ImageStore -----------------------------
(* The image server: uploads and downloads of menu pictures                  *)
(* (img-server/routers/menu_image.py, img-server/services/image_service.py). *)
(* One event loop runs all requests; they interleave where they await, and   *)
(* the database and the upload directory outlive a crash of the process.     *)
(* A path stands for the file name it ends in: that of an upload is a fresh  *)
(* uuid, so it is the upload.  The other writer of menu.img_path is the TCP  *)
(* server, which inserts rows with the path a client sends (MenuService.cpp).*)
EXTENDS Naturals, FiniteSets

CONSTANTS Menus,        \* menu rows
          Uploads,      \* POST /menu/image requests
          Downloads,    \* GET /menu/image requests
          Strays,       \* file names a client may send that no upload has
          NoImage,      \* img_path is empty
          MaxFailures   \* bound: UPDATEs and writes that fail, and crashes

ASSUME NoImageAssumption == NoImage \notin Uploads \cup Strays
ASSUME StraysAssumption == Strays \cap Uploads = {}
ASSUME RequestsAssumption == Uploads \cap Downloads = {}
ASSUME MaxFailuresAssumption == MaxFailures \in Nat

Requests == Uploads \cup Downloads

VARIABLES rows,      \* the menus that have a row
          imgPath,   \* menu.img_path
          files,     \* the files in the upload directory
          menu,      \* the menu each request is about
          pc,        \* where each request is
          path,      \* the path each request has read
          replacedBy,\* history: the upload that last overwrote the path of each file
          registered,\* history: the paths that clients have registered menus with
          failures   \* failures and crashes so far

imageVars == <<rows, imgPath, files, menu, pc, path, replacedBy, registered, failures>>

Paths == Uploads \cup Strays \cup {NoImage}

ImageInit ==
    /\ rows = {}
    /\ imgPath = [m \in Menus |-> NoImage]
    /\ files = {}
    /\ menu \in [Requests -> Menus]
    /\ pc = [r \in Requests |-> "start"]
    /\ path = [r \in Requests |-> NoImage]
    /\ replacedBy = [u \in Uploads |-> NoImage]
    /\ registered = {}
    /\ failures = 0

Goto(r, l) == pc' = [pc EXCEPT ![r] = l]
Fail == failures < MaxFailures /\ failures' = failures + 1

----------------------------------------------------------------------------
\* The names of uploads that a client can know: img_path is in the answer of the
\* upload and in the lists of menus.
Published == {u \in Uploads : replacedBy[u] # NoImage \/ \E m \in Menus : imgPath[m] = u}

\* registerMenu inserts the row with the img_path of the packet, unchecked: it may
\* be empty, name no file, or the file that another menu has or had.  (A path that
\* ends in a slash has no file name at all, and is left out.)
Register(m) ==
    /\ m \notin rows
    /\ \E p \in Strays \cup Published \cup {NoImage} :
          /\ imgPath' = [imgPath EXCEPT ![m] = p]
          /\ registered' = registered \cup ({p} \ {NoImage})
    /\ rows' = rows \cup {m}
    /\ UNCHANGED <<files, menu, pc, path, replacedBy, failures>>

----------------------------------------------------------------------------
(* upload_menu_image: the checks of extension, size and owner have passed. *)

\* SELECT img_path; the row is the old path of the upload.  No row: 404.
Select(u) ==
    /\ pc[u] = "start"
    /\ path' = [path EXCEPT ![u] = imgPath[menu[u]]]
    /\ Goto(u, IF menu[u] \in rows THEN "save" ELSE "noMenu")
    /\ UNCHANGED <<rows, imgPath, files, menu, replacedBy, registered, failures>>

\* Mutant: the old file is deleted before the row is updated.
Save_DeletesOld(u) ==
    /\ pc[u] = "save"
    /\ files' = (files \ {path[u]}) \cup {u}
    /\ Goto(u, "update")
    /\ UNCHANGED <<rows, imgPath, menu, path, replacedBy, registered, failures>>

\* save_image, then the UPDATE is sent; a write that fails leaves its file.
Save(u) ==
    /\ pc[u] = "save"
    /\ files' = files \cup {u}
    /\ \/ Goto(u, "update") /\ UNCHANGED failures
       \/ Goto(u, "unsaved") /\ Fail
    /\ UNCHANGED <<rows, imgPath, menu, path, replacedBy, registered>>

\* The database executes the UPDATE, or the statement fails.
Update(u) ==
    /\ pc[u] = "update"
    /\ \/ /\ imgPath' = [imgPath EXCEPT ![menu[u]] = u]
          /\ replacedBy' = IF imgPath[menu[u]] \in Uploads
                           THEN [replacedBy EXCEPT ![imgPath[menu[u]]] = u] ELSE replacedBy
          /\ Goto(u, "delete")
          /\ UNCHANGED failures
       \/ Goto(u, "failed") /\ Fail /\ UNCHANGED <<imgPath, replacedBy>>
    /\ UNCHANGED <<rows, files, menu, path, registered>>

\* Mutants: the file of the path that is current now is deleted; none is.
Delete_Current(u) ==
    /\ pc[u] = "delete"
    /\ files' = files \ {imgPath[menu[u]]}
    /\ Goto(u, "done")
    /\ UNCHANGED <<rows, imgPath, menu, path, replacedBy, registered, failures>>

Delete_Never(u) ==
    /\ pc[u] = "delete"
    /\ Goto(u, "done")
    /\ UNCHANGED <<rows, imgPath, files, menu, path, replacedBy, registered, failures>>

\* The answer of the UPDATE arrives and the old file goes, if there is one.  If
\* only the answer is lost the request ends without deleting it.
Delete(u) ==
    /\ pc[u] = "delete"
    /\ \/ /\ files' = files \ {path[u]}
          /\ Goto(u, "done")
          /\ UNCHANGED failures
       \/ Goto(u, "failed") /\ Fail /\ UNCHANGED files
    /\ UNCHANGED <<rows, imgPath, menu, path, replacedBy, registered>>

----------------------------------------------------------------------------
(* get_menu_image *)

\* Mutant: a row without an image is not told apart.
ReadPath_Unchecked(d) ==
    /\ pc[d] = "start"
    /\ path' = [path EXCEPT ![d] = imgPath[menu[d]]]
    /\ Goto(d, "look")
    /\ UNCHANGED <<rows, imgPath, files, menu, replacedBy, registered, failures>>

\* No row and no path are the same answer.
ReadPath(d) ==
    /\ pc[d] = "start"
    /\ path' = [path EXCEPT ![d] = imgPath[menu[d]]]
    /\ Goto(d, IF imgPath[menu[d]] = NoImage THEN "noImage" ELSE "look")
    /\ UNCHANGED <<rows, imgPath, files, menu, replacedBy, registered, failures>>

\* os.path.exists
LookForFile(d) ==
    /\ pc[d] = "look"
    /\ Goto(d, IF path[d] \in files THEN "open" ELSE "missing")
    /\ UNCHANGED <<rows, imgPath, files, menu, path, replacedBy, registered, failures>>

\* The FileResponse opens the file when it is sent, after the handler has returned:
\* what was deleted in between ends in an error that is not the 404.
OpenFile(d) ==
    /\ pc[d] = "open"
    /\ Goto(d, IF path[d] \in files THEN "served" ELSE "broken")
    /\ UNCHANGED <<rows, imgPath, files, menu, path, replacedBy, registered, failures>>

----------------------------------------------------------------------------
\* The process dies and is started again: requests under way are gone.
Crash ==
    /\ Fail
    /\ pc' = [r \in Requests |-> IF pc[r] \in {"save", "update", "delete", "look", "open"}
                                 THEN "crashed" ELSE pc[r]]
    /\ UNCHANGED <<rows, imgPath, files, menu, path, replacedBy, registered>>

ImageNext ==
    \/ \E m \in Menus : Register(m)
    \/ \E u \in Uploads : Select(u) \/ Save(u) \/ Update(u) \/ Delete(u)
    \/ \E d \in Downloads : ReadPath(d) \/ LookForFile(d) \/ OpenFile(d)
    \/ Crash

ImageSpec == ImageInit /\ [][ImageNext]_imageVars

----------------------------------------------------------------------------
(* Types; a request has a path only after it read one, a menu only with a row.  *)
ImageTypeOK ==
    /\ rows \subseteq Menus
    /\ imgPath \in [Menus -> Paths]
    /\ files \subseteq Uploads
    /\ menu \in [Requests -> Menus]
    /\ pc \in [Requests -> {"start", "save", "update", "delete", "done", "unsaved", "noMenu",
                            "failed", "crashed", "look", "open", "noImage", "served", "missing",
                            "broken"}]
    /\ path \in [Requests -> Paths]
    /\ replacedBy \in [Uploads -> Uploads \cup {NoImage}]
    /\ registered \subseteq Uploads \cup Strays
    /\ failures \in 0 .. MaxFailures
    /\ \A m \in Menus \ rows : imgPath[m] = NoImage
    /\ \A r \in Requests : pc[r] = "start" => path[r] = NoImage
    /\ \A d \in Downloads : pc[d] \in {"look", "open"} => path[d] # NoImage

Replaced(p) == p \in Uploads /\ replacedBy[p] # NoImage

(* The file of an upload that a row names exists, whatever uploads of the     *)
(* same menu overlap, fail or die half-way.  The exception is a file that two *)
(* rows have shared, because a client registered a menu with its path: an     *)
(* upload that replaces it in the one row deletes it under the other.  (What  *)
(* the path of a client names that no upload wrote, never existed.)           *)
PathHasFile ==
    \A m \in rows : LET p == imgPath[m]
                    IN  p \in Uploads => p \in files \/ (p \in registered /\ Replaced(p))

(* A download misses its file, at the check or at the opening, only when a    *)
(* later upload of the same menu has replaced the path it read, or of another *)
(* menu if a client registered a menu with that path.  The path of a client   *)
(* that no upload wrote is missed at the check.                               *)
MissingMeansReplaced ==
    \A d \in Downloads : pc[d] \in {"missing", "broken"} =>
       \/ /\ Replaced(path[d])
          /\ menu[replacedBy[path[d]]] = menu[d] \/ path[d] \in registered
       \/ path[d] \in registered \ Uploads /\ pc[d] = "missing"

(* A file that was replaced is kept only because the upload that replaced it  *)
(* has not come to the deletion, died before it, or had read an older path.   *)
ReplacedFileGoes ==
    \A u \in Uploads :
       LET r == replacedBy[u]
       IN  u \in files /\ r # NoImage => pc[r] \in {"delete", "failed", "crashed"} \/ path[r] # u
=============================================================================
