---------------------------- MODULE AvatarStore -----------------------------
(***************************************************************************)
(* GoImageServer: uploads and deletions of avatars, over gRPC for the user   *)
(* named in the request and over HTTP for user 0, on a FileStore, which      *)
(* keeps one PNG per user under <user>_<second>.png.  Requests run at the    *)
(* same time without a lock.  Reading the directory and removing a file may  *)
(* fail, which the code ignores.  A file is known by the request that wrote  *)
(* it.                                                                     *)
(***************************************************************************)
EXTENDS Integers

CONSTANTS
  Uploads,    \* requests to save an avatar
  Deletes,    \* requests to delete it
  UserOf,     \* the user each request is for
  MaxSeconds  \* bound on the clock

ASSUME AvatarAssumption == MaxSeconds \in Nat /\ "none" \notin Uploads

VARIABLES
  dir,      \* the directory: name <<user, second>> -> [by, whole]
  upload,   \* where each request is
  listed,   \* names its Delete found in the directory and has not gone through yet
  path,     \* the name of the file it writes
  second,   \* time.Now().Unix()
  current,  \* history: what each user's last request left, NoAvatar or its upload
  clashed,  \* history: users two of whose requests overlapped
  botched   \* history: users whose last removal of files met an error

avatarVars == <<dir, upload, listed, path, second, current, clashed, botched>>

Reqs == Uploads \cup Deletes
Users == {UserOf[r] : r \in Reqs}
NoAvatar == "none"
NoPath == <<-1, 0>>

\* Faulty: the prefix without its separator, so that user 1 owns 11_*.png.
PrefixOnly(u) == {n \in DOMAIN dir : n[1] = u \/ n[1] \div 10 = u}

\* The names with the prefix "<user>_".
FilesOf(u) == {n \in DOMAIN dir : n[1] = u}

\* GetUrl names the first file of the user, in the order of ReadDir.
GetFilename(u) ==
  IF FilesOf(u) = {} THEN NoPath
  ELSE CHOOSE n \in FilesOf(u) : \A k \in FilesOf(u) : n[2] <= k[2]

DirWithout(names) == [n \in DOMAIN dir \ names |-> dir[n]]
Busy(r) == {s \in Reqs \ {r} : UserOf[s] = UserOf[r] /\ upload[s] \notin {"new", "done"}}
Finish(r, left) ==
  /\ upload' = [upload EXCEPT ![r] = "done"]
  /\ current' = [current EXCEPT ![UserOf[r]] = left]

HttpUser == 0

\* What Save refuses: an image that is too large, or not an image.
Refuse(r) ==
  /\ Finish(r, current[UserOf[r]])
  /\ UNCHANGED <<dir, listed, path, second, clashed, botched>>

\* Save and Delete: FileStore.Delete lists the directory, of which os.ReadDir
\* returns some names only when it fails on the way ...
ListOld(r) ==
  /\ upload' = [upload EXCEPT ![r] = "listed"]
  /\ \E found \in SUBSET FilesOf(UserOf[r]) :
       /\ listed' = [listed EXCEPT ![r] = found]
       /\ botched' = IF found = FilesOf(UserOf[r]) THEN botched \ {UserOf[r]}
                     ELSE botched \cup {UserOf[r]}
  /\ clashed' = IF Busy(r) = {} THEN clashed ELSE clashed \cup {UserOf[r]}
  /\ UNCHANGED <<dir, path, second, current>>

\* gRPC: an empty image is refused before Save is called.
Upload(r, empty, fits) ==
  /\ r \in Uploads /\ UserOf[r] # HttpUser /\ upload[r] = "new"
  /\ IF empty \/ ~fits THEN Refuse(r) ELSE ListOld(r)

\* HTTP: the form must hold a file with the name of an image.
HandleUpload(r, isPost, hasFile, named, fits) ==
  /\ r \in Uploads /\ UserOf[r] = HttpUser /\ upload[r] = "new"
  /\ IF isPost /\ hasFile /\ named /\ fits THEN ListOld(r) ELSE Refuse(r)

Delete(r) == r \in Deletes /\ upload[r] = "new" /\ ListOld(r)

\* ... and removes what it found, or some of it: os.Remove may fail.
RemoveOld(r, removed) ==
  /\ upload[r] = "listed" /\ removed \subseteq listed[r]
  /\ dir' = DirWithout(removed)
  /\ botched' = IF removed = listed[r] THEN botched ELSE botched \cup {UserOf[r]}
  /\ IF r \in Uploads
     THEN upload' = [upload EXCEPT ![r] = "resized"] /\ UNCHANGED current
     ELSE Finish(r, NoAvatar)
  /\ listed' = [listed EXCEPT ![r] = {}]
  /\ UNCHANGED <<path, second, clashed>>

\* os.Create for the present second, which empties a file of that name ...
CreateFile(r) ==
  LET name == <<UserOf[r], second>>
  IN /\ upload[r] = "resized"
     /\ upload' = [upload EXCEPT ![r] = "created"]
     /\ path' = [path EXCEPT ![r] = name]
     /\ dir' = [n \in DOMAIN dir \cup {name} |->
                  IF n = name THEN [by |-> r, whole |-> FALSE] ELSE dir[n]]
     /\ UNCHANGED <<listed, second, current, clashed, botched>>

\* ... or fails, after the old avatar was deleted.
CreateFails(r) ==
  /\ upload[r] = "resized"
  /\ Finish(r, NoAvatar)
  /\ UNCHANGED <<dir, listed, path, second, clashed, botched>>

\* png.Encode into the open file, which another request may have unlinked.
Encode(r) ==
  /\ upload[r] = "created"
  /\ dir' = IF path[r] \in DOMAIN dir /\ dir[path[r]].by = r
            THEN [dir EXCEPT ![path[r]].whole = TRUE] ELSE dir
  /\ Finish(r, r)
  /\ path' = [path EXCEPT ![r] = NoPath]
  /\ UNCHANGED <<listed, second, clashed, botched>>

\* Save takes its file away again, if os.Remove can.
EncodeFails(r, removed) ==
  /\ upload[r] = "created"
  /\ dir' = IF removed THEN DirWithout({path[r]}) ELSE dir
  /\ botched' = IF removed THEN botched ELSE botched \cup {UserOf[r]}
  /\ Finish(r, NoAvatar)
  /\ path' = [path EXCEPT ![r] = NoPath]
  /\ UNCHANGED <<listed, second, clashed>>

AvatarTick ==
  /\ second < MaxSeconds
  /\ second' = second + 1
  /\ UNCHANGED <<dir, upload, listed, path, current, clashed, botched>>

-----------------------------------------------------------------------------
AvatarInit ==
  /\ dir = <<>> /\ second = 1 /\ clashed = {} /\ botched = {}
  /\ upload = [r \in Reqs |-> "new"] /\ listed = [r \in Reqs |-> {}]
  /\ path = [r \in Reqs |-> NoPath]
  /\ current = [u \in Users |-> NoAvatar]

AvatarNext ==
  \/ \E r \in Reqs :
       \/ \E empty, fits \in BOOLEAN : Upload(r, empty, fits)
       \/ \E isPost, hasFile, named, fits \in BOOLEAN :
            HandleUpload(r, isPost, hasFile, named, fits)
       \/ Delete(r)
       \/ \E removed \in SUBSET listed[r] : RemoveOld(r, removed)
       \/ CreateFile(r) \/ CreateFails(r) \/ Encode(r)
       \/ \E removed \in BOOLEAN : EncodeFails(r, removed)
  \/ AvatarTick

AvatarSpec == AvatarInit /\ [][AvatarNext]_avatarVars

-----------------------------------------------------------------------------
\* A user whose requests come one after the other has, between them, the whole
\* avatar of the last upload that succeeded in the directory, whatever failed
\* before and whatever the requests of other users do meanwhile.  When the last
\* removal of the user's files met no error that file is the only one and GetUrl
\* names it, and after a deletion or a failed save there is none, also when two
\* saves fall into one second.  After an error the files it left stay beside the
\* new one, and GetUrl names the oldest, until the next removal succeeds.
AvatarIsLastUpload ==
  \A u \in Users \ clashed :
    (\A r \in Reqs : UserOf[r] = u => upload[r] \in {"new", "done"}) =>
      LET files == {n \in DOMAIN dir : n[1] = u}
          Whole(n) == dir[n] = [by |-> current[u], whole |-> TRUE]
      IN /\ current[u] # NoAvatar => \E n \in files : Whole(n)
         /\ u \notin botched =>
              IF current[u] = NoAvatar THEN files = {} /\ GetFilename(u) = NoPath
              ELSE files = {GetFilename(u)} /\ \A n \in files : Whole(n)
=============================================================================
