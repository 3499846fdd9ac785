-------------------------------- MODULE Library --------------------------------
(***************************************************************************)
(* What people add to the catalogue: likes, albums and their tracks, and   *)
(* the files behind them in R2.                                            *)
(*                                                                         *)
(* A like, an added track and a deleted track each end by writing a count  *)
(* next to rows they have just changed, in statements of their own with no *)
(* transaction round them.  Requests run in between, and stop anywhere.    *)
(*                                                                         *)
(* A wallet is the person it belongs to: ensureUser gets or creates one    *)
(* user for an address, and no route links a second address to it.         *)
(***************************************************************************)
EXTENDS Integers, Sequences, FiniteSetsExt

CONSTANTS
    Fans,           \* wallets that like
    Clerks,         \* requests that may be under way together
    NoFan,
    Keys,           \* R2 keys an upload may draw
    Blobs,          \* bytes of a file
    Absent,         \* no object at a key
    MaxTrack        \* bound: the highest track number

ASSUME LibraryAssumption ==
    /\ IsFiniteSet(Fans) /\ NoFan \notin Fans
    /\ Absent \notin Blobs
    /\ MaxTrack \in Nat

VARIABLES
    likes,          \* who likes the asset
    likeCount,      \* the count on its nfts row
    album,          \* "none", "draft", "published" or "deleted"
    tracks,         \* the album's track numbers
    trackCount,     \* the count on the album's row
    object,         \* R2 key -> what is stored there
    clerk           \* request -> where its handler is, and what it has read

libraryVars == <<likes, likeCount, album, tracks, trackCount, object, clerk>>

Free == [step |-> "free", fan |-> NoFan, n |-> 0, had |-> FALSE, alone |-> TRUE]

Folders == {"images", "metadata", "audio"}

Missing == [folder |-> "none", bytes |-> Absent]

LibraryInit ==
    /\ likes = {}
    /\ likeCount = 0
    /\ album = "none"
    /\ tracks = {}
    /\ trackCount = 0
    /\ object = [k \in Keys |-> Missing]
    /\ clerk = [c \in Clerks |-> Free]

Enters(c, x) ==
    /\ clerk[c] = Free
    /\ LET company == {d \in Clerks : clerk[d] # Free} IN
       clerk' = [d \in Clerks |->
                   IF d = c THEN [x EXCEPT !.alone = company = {}]
                   ELSE IF d \in company THEN [clerk[d] EXCEPT !.alone = FALSE]
                   ELSE clerk[d]]

Moves(c, step, n) == clerk' = [clerk EXCEPT ![c].step = step, ![c].n = n]
Done(c) == clerk' = [clerk EXCEPT ![c] = Free]
Doing(c, step) == clerk[c].step = step

-----------------------------------------------------------------------------
(* toggleLike                                                              *)

LikeFind(c) ==
    /\ \E f \in Fans :
          Enters(c, [Free EXCEPT !.step = "toggle", !.fan = f, !.had = f \in likes])
    /\ UNCHANGED <<likes, likeCount, album, tracks, trackCount, object>>

\* The row found is deleted, or one is created; when another request has done
\* either meanwhile, the statement throws.
LikeToggle(c) ==
    LET h == clerk[c] IN
    /\ Doing(c, "toggle")
    /\ IF h.had = (h.fan \in likes)
       THEN /\ likes' = IF h.had THEN likes \ {h.fan} ELSE likes \cup {h.fan}
            /\ Moves(c, "count", 0)
       ELSE Done(c) /\ UNCHANGED likes
    /\ UNCHANGED <<likeCount, album, tracks, trackCount, object>>

\* The count blindly incremented: as if the request were the only one ever.
CountBlindly(h) == IF h.had THEN likeCount - 1 ELSE likeCount + 1

\* The count derived from the rows.
CountOf(h) == Cardinality(likes)

LikeCounts(c) ==
    /\ Doing(c, "count")
    /\ Moves(c, "like", CountOf(clerk[c]))
    /\ UNCHANGED <<likes, likeCount, album, tracks, trackCount, object>>

LikeSaves(c) ==
    /\ Doing(c, "like")
    /\ likeCount' = clerk[c].n
    /\ Done(c)
    /\ UNCHANGED <<likes, album, tracks, trackCount, object>>

-----------------------------------------------------------------------------
(* Albums                                                                  *)

\* getAlbum finds it, published or not.
Shown == album \in {"draft", "published"}

CreateAlbum ==
    /\ album = "none"
    /\ album' = "draft"
    /\ UNCHANGED <<likes, likeCount, tracks, trackCount, object, clerk>>

UpdateAlbum(published) ==
    /\ Shown
    /\ album' = published
    /\ album' # album
    /\ UNCHANGED <<likes, likeCount, tracks, trackCount, object, clerk>>

\* The tracks go with it.
DeleteAlbum ==
    /\ Shown
    /\ album' = "deleted"
    /\ tracks' = {}
    /\ UNCHANGED <<likes, likeCount, trackCount, object, clerk>>

\* How many tracks there are is read; the number of the new one is the
\* caller's, or one more.
TrackFind(c) ==
    /\ Shown
    /\ Cardinality(tracks) < MaxTrack
    /\ Enters(c, [Free EXCEPT !.step = "add", !.n = Cardinality(tracks)])
    /\ UNCHANGED <<likes, likeCount, album, tracks, trackCount, object>>

\* Numbers are unique in an album: one that is taken throws, and so does an
\* album that has gone.
TrackCreate(c) ==
    /\ Doing(c, "add")
    /\ \E number \in {clerk[c].n + 1} \cup 1..MaxTrack :
          IF Shown /\ number \notin tracks
          THEN tracks' = tracks \cup {number} /\ Moves(c, "added", clerk[c].n + 1)
          ELSE UNCHANGED tracks /\ Done(c)
    /\ UNCHANGED <<likes, likeCount, album, trackCount, object>>

TrackDelete(c) ==
    /\ \E number \in tracks :
          /\ tracks' = tracks \ {number}
          /\ Enters(c, [Free EXCEPT !.step = "deleted"])
    /\ UNCHANGED <<likes, likeCount, album, trackCount, object>>

TrackRecount(c) ==
    /\ Doing(c, "deleted")
    /\ Moves(c, "added", Cardinality(tracks))
    /\ UNCHANGED <<likes, likeCount, album, tracks, trackCount, object>>

TrackSaves(c) ==
    /\ Doing(c, "added")
    /\ Shown
    /\ trackCount' = clerk[c].n
    /\ Done(c)
    /\ UNCHANGED <<likes, likeCount, album, tracks, object>>

\* A statement that fails, or an eviction.
ClerkStops(c) ==
    /\ clerk[c] # Free
    /\ Done(c)
    /\ UNCHANGED <<likes, likeCount, album, tracks, trackCount, object>>

-----------------------------------------------------------------------------
(* Files                                                                   *)

\* Keys are made of the clock and a random word, and taken never to repeat.
DrawnKeys == {k \in Keys : object[k] = Missing}

Puts(k, folder, bytes) ==
    /\ object' = [object EXCEPT ![k] = [folder |-> folder, bytes |-> bytes]]
    /\ UNCHANGED <<likes, likeCount, album, tracks, trackCount, clerk>>

\* A main file and a cover are put one after the other, each as an image.
UploadImage == \E k \in DrawnKeys, b \in Blobs : Puts(k, "images", b)

UploadMetadata == \E k \in DrawnKeys, b \in Blobs : Puts(k, "metadata", b)

UploadAudio == \E k \in DrawnKeys, b \in Blobs : Puts(k, "audio", b)

\* What a link answers: an object is served out of the folder it was put in.
Served(folder, k) == IF object[k].folder = folder THEN object[k].bytes ELSE Absent

\* The operator's repair, of an object that exists.
ReplaceObject ==
    \E folder \in Folders, k \in Keys, b \in Blobs :
       /\ Served(folder, k) \notin {Absent, b}
       /\ Puts(k, folder, b)

LibraryNext ==
    \/ \E c \in Clerks :
          \/ LikeFind(c) \/ LikeToggle(c) \/ LikeCounts(c) \/ LikeSaves(c)
          \/ TrackFind(c) \/ TrackCreate(c) \/ TrackDelete(c) \/ TrackRecount(c)
          \/ TrackSaves(c) \/ ClerkStops(c)
    \/ CreateAlbum
    \/ \E published \in {"draft", "published"} : UpdateAlbum(published)
    \/ DeleteAlbum
    \/ UploadImage \/ UploadMetadata \/ UploadAudio
    \/ ReplaceObject

LibrarySpec == LibraryInit /\ [][LibraryNext]_libraryVars

-----------------------------------------------------------------------------
(* Properties                                                              *)

\* Every variable keeps its shape.
LibraryTypeOK ==
    /\ likes \subseteq Fans
    /\ likeCount \in 0..Cardinality(Fans)
    /\ album \in {"none", "draft", "published", "deleted"}
    /\ tracks \subseteq 1..MaxTrack
    /\ trackCount \in 0..MaxTrack
    /\ object \in [Keys -> {Missing} \cup [folder : Folders, bytes : Blobs]]
    /\ clerk \in [Clerks ->
          [step : {"free", "toggle", "count", "like", "add", "added", "deleted"},
           fan : Fans \cup {NoFan}, n : Nat, had : BOOLEAN, alone : BOOLEAN]]

\* Counts heal: whatever a race or a failure has left in one, the next request
\* that runs through undisturbed writes the number of rows there are.
CountsHeal ==
    [][\A c \in Clerks :
          clerk[c].alone =>
             /\ LikeSaves(c) => likeCount' = Cardinality(likes')
             /\ TrackSaves(c) => trackCount' = Cardinality(tracks')]_libraryVars

=============================================================================
