----------------------------- MODULE ImageCache -----------------------------
(***************************************************************************)
(* The cache of root file systems, rootfs/image_manager.rs: pull_image and *)
(* unpack_archive of one image, called by several minibox processes that   *)
(* share nothing but the cache directory.  Names that contain a fresh UUID *)
(* are never shared, so that a temporary file or directory is known by the *)
(* call that made it.                                                      *)
(*                                                                         *)
(* An image is a set of parts, of which is_cached only looks for "bin".    *)
(***************************************************************************)
EXTENDS Integers

CONSTANTS
    Callers,     \* the calls, each of its own process
    Parts,       \* what images consist of
    Verify,      \* the image has a checksum sidecar (Alpine)
    Archives     \* what a server may send, or a local archive may be

(* An archive: the published image or another, of some format, with some   *)
(* of the parts, and perhaps an entry whose path leaves the target.        *)
Bodies == [genuine : BOOLEAN, kind : {"gz", "xz", "tar", "junk"},
           parts : SUBSET Parts, slip : BOOLEAN]

ASSUME ImageAssumption ==
    /\ Verify \in BOOLEAN /\ Archives \subseteq Bodies
    /\ "bin" \in Parts /\ "absent" \notin Parts /\ "nobody" \notin Callers

NoBody  == [kind |-> "none"]
NoDir   == {"absent"}
NoEntry == [from |-> "nobody"]

VARIABLES
    entry,     \* the directory get_image_path names: [from, parts]
    temp,      \* each call's .extract_<uuid> directory
    archive,   \* each call's temp_<uuid>.download file
    at,        \* where each call is
    op,        \* "pull" or "unpack"
    body,      \* what it downloads or unpacks
    victim,    \* the directory remove_dir_all has opened
    todo,      \* and what it is still to remove from it
    result,    \* what the call returns
    overlap,   \* history: two calls have been under way at once
    unread     \* history: calls that could not read their archive again

work == <<op, body>>
removal == <<victim, todo>>
history == <<overlap, unread>>
vars == <<entry, temp, archive, at, work, removal, result, history>>

Places == {"start", "get", "sidecar", "write", "stream", "verify", "probe", "extract", "check",
           "open", "remove", "rename", "clean", "done", "crashed"}

TypeOK ==
    /\ entry \in [from : Callers, parts : SUBSET Parts] \cup {NoEntry}
    /\ temp \in [Callers -> (SUBSET Parts) \cup {NoDir}]
    /\ archive \in [Callers -> {"none", "part", "full"}]
    /\ at \in [Callers -> Places]
    /\ op \in [Callers -> {"none", "pull", "unpack"}]
    /\ body \in [Callers -> Archives \cup {NoBody}]
    /\ victim \in [Callers -> Callers \cup {"nobody"}]
    /\ todo \in [Callers -> SUBSET Parts]
    /\ result \in [Callers -> {"none", "ok", "err"}]
    /\ overlap \in BOOLEAN
    /\ unread \subseteq Callers

Init ==
    /\ entry = NoEntry
    /\ temp = [c \in Callers |-> NoDir]
    /\ archive = [c \in Callers |-> "none"]
    /\ at = [c \in Callers |-> "start"]
    /\ op = [c \in Callers |-> "none"]
    /\ body = [c \in Callers |-> NoBody]
    /\ victim = [c \in Callers |-> "nobody"]
    /\ todo = [c \in Callers |-> {}]
    /\ result = [c \in Callers |-> "none"]
    /\ overlap = FALSE
    /\ unread = {}

Resting == {"start", "done", "crashed"}

Exists   == entry /= NoEntry
IsCached == Exists /\ "bin" \in entry.parts

Goto(c, place) == at' = [at EXCEPT ![c] = place]

Fail(c) == Goto(c, "done") /\ result' = [result EXCEPT ![c] = "err"]

-----------------------------------------------------------------------------
(* The call looks at the cache: pull_image for an entry with a bin,        *)
(* unpack_archive for any entry.                                           *)
Start(c, o, b) ==
    /\ at[c] = "start"
    /\ op' = [op EXCEPT ![c] = o]
    /\ body' = [body EXCEPT ![c] = b]
    /\ overlap' = (overlap \/ \E d \in Callers : at[d] \notin Resting)
    /\ IF (o = "pull" /\ IsCached) \/ (o = "unpack" /\ Exists)
       THEN Goto(c, "done") /\ result' = [result EXCEPT ![c] = "ok"]
       ELSE Goto(c, IF o = "pull" THEN "get" ELSE "probe") /\ UNCHANGED result
    /\ UNCHANGED <<entry, temp, archive, removal, unread>>

(* The server answers, or the request fails.                               *)
Get(c) ==
    /\ at[c] = "get"
    /\ \/ Goto(c, IF Verify THEN "sidecar" ELSE "write") /\ UNCHANGED result
       \/ Fail(c)
    /\ UNCHANGED <<entry, temp, archive, work, removal, history>>

(* fetch_alpine_sha256: without a well-formed checksum there is no pull.   *)
GetChecksum(c) ==
    /\ at[c] = "sidecar"
    /\ \/ Goto(c, "write") /\ UNCHANGED result
       \/ Fail(c)
    /\ UNCHANGED <<entry, temp, archive, work, removal, history>>

(* write_stream_and_hash: the file is created ...                          *)
CreateArchive(c) ==
    /\ at[c] = "write"
    /\ archive' = [archive EXCEPT ![c] = "part"]
    /\ Goto(c, "stream")
    /\ UNCHANGED <<entry, temp, work, removal, result, history>>

(* ... and filled, or removed when the stream breaks off.                  *)
Download(c) ==
    /\ at[c] = "stream"
    /\ \/ archive' = [archive EXCEPT ![c] = "full"] /\ Goto(c, "verify") /\ UNCHANGED result
       \/ archive' = [archive EXCEPT ![c] = "none"] /\ Fail(c)
    /\ UNCHANGED <<entry, temp, work, removal, history>>

(* Mutant: a mismatch is only logged.                                      *)
VerifyHashWarns(c) ==
    /\ at[c] = "verify"
    /\ Goto(c, "probe")
    /\ UNCHANGED <<archive, entry, temp, work, removal, result, history>>

(* constant_time_eq of the checksum and the digest of what was written.    *)
HashMatches(c) == body[c].genuine

(* The digest is compared; a file that does not match is removed.          *)
VerifyHash(c) ==
    /\ at[c] = "verify"
    /\ IF Verify /\ ~HashMatches(c)
       THEN archive' = [archive EXCEPT ![c] = "none"] /\ Fail(c)
       ELSE Goto(c, "probe") /\ UNCHANGED <<archive, result>>
    /\ UNCHANGED <<entry, temp, work, removal, history>>

(* Compression::detect: a plain tar is not recognized, because the five    *)
(* bytes at its magic are compared with the three of "tar".                *)
Detected(kind) == kind \in {"gz", "xz"}

(* Mutant: the download is kept when it is not an archive.                 *)
ProbeKeeps(c) ==
    /\ at[c] = "probe"
    /\ IF Detected(body[c].kind)
       THEN Goto(c, "extract") /\ temp' = [temp EXCEPT ![c] = {}] /\ UNCHANGED <<archive, result>>
       ELSE Fail(c) /\ UNCHANGED <<temp, archive>>
    /\ UNCHANGED <<entry, work, removal, history>>

(* Mutant: the temporary directory is not made.                            *)
ProbeOnly(c) ==
    /\ at[c] = "probe"
    /\ IF Detected(body[c].kind)
       THEN Goto(c, "extract") /\ UNCHANGED <<temp, archive, result>>
       ELSE Fail(c) /\ archive' = [archive EXCEPT ![c] = "none"] /\ UNCHANGED temp
    /\ UNCHANGED <<entry, work, removal, history>>

(* The archive's head is probed and the temporary directory made.          *)
Probe(c) ==
    /\ at[c] = "probe"
    /\ IF Detected(body[c].kind)
       THEN Goto(c, "extract") /\ temp' = [temp EXCEPT ![c] = {}] /\ UNCHANGED <<archive, result>>
       ELSE Fail(c) /\ archive' = [archive EXCEPT ![c] = "none"] /\ UNCHANGED temp
    /\ UNCHANGED <<entry, work, removal, history>>

(* The archive cannot be opened or read again: `?` returns at once.        *)
ReopenFails(c) ==
    /\ at[c] = "probe"
    /\ Fail(c)
    /\ unread' = unread \cup {c}
    /\ UNCHANGED <<entry, temp, archive, work, removal, overlap>>

(* One entry of the archive is unpacked.                                   *)
Extract(c, f) ==
    /\ at[c] = "extract"
    /\ f \in body[c].parts \ temp[c]
    /\ temp' = [temp EXCEPT ![c] = @ \cup {f}]
    /\ UNCHANGED <<entry, archive, at, work, removal, result, history>>

(* An entry leaves the target, or cannot be read or written.               *)
ExtractFails(c) ==
    /\ at[c] = "extract"
    /\ result' = [result EXCEPT ![c] = "err"]
    /\ Goto(c, "clean")
    /\ UNCHANGED <<entry, temp, archive, work, removal, history>>

(* Mutant: the loop over the entries ends early.                           *)
ExtractedSome(c) ==
    /\ at[c] = "extract"
    /\ temp[c] /= {}
    /\ Goto(c, "check")
    /\ UNCHANGED <<entry, temp, archive, work, removal, result, history>>

(* The archive is exhausted.                                               *)
Extracted(c) ==
    /\ at[c] = "extract"
    /\ temp[c] = body[c].parts /\ ~body[c].slip
    /\ Goto(c, "check")
    /\ UNCHANGED <<entry, temp, archive, work, removal, result, history>>

(* target_dir.exists(): is there an entry to be replaced?                  *)
CheckEntry(c) ==
    /\ at[c] = "check"
    /\ Goto(c, IF Exists THEN "open" ELSE "rename")
    /\ UNCHANGED <<entry, temp, archive, work, removal, result, history>>

(* remove_dir_all opens the entry and lists it; its errors are ignored.    *)
OpenEntry(c) ==
    /\ at[c] = "open"
    /\ IF Exists
       THEN /\ victim' = [victim EXCEPT ![c] = entry.from]
            /\ todo' = [todo EXCEPT ![c] = entry.parts]
            /\ Goto(c, "remove")
       ELSE Goto(c, "rename") /\ UNCHANGED removal
    /\ UNCHANGED <<entry, temp, archive, work, result, history>>

(* It unlinks by descriptor: what it opened, not what has the name now.    *)
(* When somebody else was faster it goes on, or gives up (as older         *)
(* standard libraries do), and leaves what it had still to remove.         *)
RemovePart(c, f) ==
    /\ at[c] = "remove"
    /\ f \in todo[c]
    /\ IF Exists /\ entry.from = victim[c] /\ f \in entry.parts
       THEN /\ entry' = [entry EXCEPT !.parts = @ \ {f}]
            /\ todo' = [todo EXCEPT ![c] = @ \ {f}]
            /\ UNCHANGED at
       ELSE /\ \/ todo' = [todo EXCEPT ![c] = @ \ {f}] /\ UNCHANGED at
               \/ Goto(c, "rename") /\ UNCHANGED todo
            /\ UNCHANGED entry
    /\ UNCHANGED <<temp, archive, work, victim, result, history>>

(* rmdir, by name: it succeeds on an empty directory.                      *)
RemoveDir(c) ==
    /\ at[c] = "remove"
    /\ todo[c] = {}
    /\ entry' = IF Exists /\ entry.parts = {} THEN NoEntry ELSE entry
    /\ Goto(c, "rename")
    /\ UNCHANGED <<temp, archive, work, removal, result, history>>

(* rename replaces nothing, or an empty directory.                         *)
Rename(c) ==
    /\ at[c] = "rename"
    /\ IF Exists /\ entry.parts /= {}
       THEN result' = [result EXCEPT ![c] = "err"] /\ UNCHANGED <<entry, temp>>
       ELSE /\ entry' = [from |-> c, parts |-> temp[c]]
            /\ temp' = [temp EXCEPT ![c] = NoDir]
            /\ result' = [result EXCEPT ![c] = "ok"]
    /\ Goto(c, "clean")
    /\ UNCHANGED <<archive, work, removal, history>>

(* Mutant: after a failure it is the entry that is removed.                *)
CleanEntry(c) ==
    /\ at[c] = "clean"
    /\ archive' = [archive EXCEPT ![c] = "none"]
    /\ temp' = [temp EXCEPT ![c] = NoDir]
    /\ entry' = IF result[c] = "err" THEN NoEntry ELSE entry
    /\ Goto(c, "done")
    /\ UNCHANGED <<work, removal, result, history>>

(* The archive and what is left of the temporary directory are removed.    *)
Clean(c) ==
    /\ at[c] = "clean"
    /\ archive' = [archive EXCEPT ![c] = "none"]
    /\ temp' = [temp EXCEPT ![c] = NoDir]
    /\ Goto(c, "done")
    /\ UNCHANGED <<entry, work, removal, result, history>>

(* The process is killed.                                                  *)
Crash(c) ==
    /\ at[c] \notin Resting
    /\ Goto(c, "crashed")
    /\ UNCHANGED <<entry, temp, archive, work, removal, result, history>>

-----------------------------------------------------------------------------
Finished ==
    /\ \A c \in Callers : at[c] \in {"done", "crashed"}
    /\ UNCHANGED vars

Step(c) ==
    \/ Get(c) \/ GetChecksum(c) \/ CreateArchive(c) \/ Download(c) \/ VerifyHash(c)
    \/ Probe(c) \/ ReopenFails(c)
    \/ \E f \in Parts : Extract(c, f) \/ RemovePart(c, f)
    \/ ExtractFails(c) \/ Extracted(c) \/ CheckEntry(c) \/ OpenEntry(c)
    \/ RemoveDir(c) \/ Rename(c) \/ Clean(c)

Next ==
    \/ \E c \in Callers :
          \/ \E o \in {"pull", "unpack"}, b \in Archives : Start(c, o, b)
          \/ Step(c)
          \/ Crash(c)
    \/ Finished

Spec == Init /\ [][Next]_vars

-----------------------------------------------------------------------------
HalfEntry == IsCached /\ entry.parts /= body[entry.from].parts

(* As long as calls do not overlap, an entry that counts as cached is a    *)
(* complete extraction, whatever failed or crashed before: what is not     *)
(* finished is never under the name, and what is removed has no bin.  The  *)
(* comment of unpack_archive, "a failed run never leaves a half-valid      *)
(* cache entry behind", has no such condition, but a call that is killed   *)
(* while it removes what another has just put in place does leave one.     *)
CachedComplete == ~overlap => ~HalfEntry

(* What a pull put into the cache is what the checksum vouches for, also   *)
(* when calls overlap: nobody unpacks a file that another has written.     *)
CachedGenuine ==
    Verify /\ Exists /\ op[entry.from] = "pull" => body[entry.from].genuine

(* Calls whose remove_dir_all has given up.                                *)
GaveUp == {c \in Callers : at[c] /= "remove" /\ todo[c] /= {}}

(* When all calls are over, none was killed and one has returned Ok, there *)
(* is a complete entry: calls that overlap may fail one another, but do    *)
(* not leave the cache without what one of them has promised.  The one     *)
(* exception: two calls were removing the entry at once and each gave up   *)
(* where the other had been.                                               *)
CacheKept ==
    (\A c \in Callers : at[c] = "done") /\ (\E c \in Callers : result[c] = "ok") =>
        /\ Exists
        /\ entry.parts = body[entry.from].parts \/ \E c, d \in GaveUp : c /= d

(* A call that is over has left no temporary file or directory behind, on  *)
(* each of its error paths but one: a download that cannot be read again.  *)
NoLitter ==
    \A c \in Callers : at[c] = "done" =>
        /\ temp[c] = NoDir
        /\ archive[c] = "none" \/ c \in unread

(***************************************************************************)
(* The inductive invariants behind them.                                   *)
(***************************************************************************)
Replacing == {"check", "open", "remove", "rename"}
Over      == {"clean", "done", "crashed"}

(* What a call has made and knows, by where it is.                         *)
CallInv(c) ==
    /\ at[c] \in {"start", "get", "sidecar", "write"} => archive[c] = "none"
    /\ at[c] \in {"start", "get", "sidecar", "write", "stream", "verify", "probe", "done"}
         => temp[c] = NoDir
    /\ at[c] = "done" => archive[c] = "none" \/ c \in unread
    /\ at[c] /= "start" => body[c] \in Archives
    /\ at[c] = "extract" => temp[c] \subseteq body[c].parts
    /\ at[c] \in Replacing => temp[c] = body[c].parts
    /\ at[c] \in {"probe", "extract"} \cup Replacing /\ op[c] = "pull" /\ Verify => body[c].genuine

(* An entry is the work of a call that is over, and so is a directory that *)
(* somebody has opened to remove it.  A call without one has nothing to    *)
(* remove.                                                                 *)
EntryInv ==
    /\ Exists => /\ at[entry.from] \in Over
                 /\ entry.parts \subseteq body[entry.from].parts
                 /\ Verify /\ op[entry.from] = "pull" => body[entry.from].genuine
    /\ \A c \in Callers :
          /\ victim[c] /= "nobody" => at[victim[c]] \in Over
          /\ at[c] = "remove" => victim[c] /= "nobody"
          /\ at[c] \in Places \ ({"remove", "rename"} \cup Over) => todo[c] = {}

(* While calls do not overlap, one is under way at most, and what it will  *)
(* replace does not count as cached.                                       *)
AloneInv ==
    ~overlap =>
        /\ \A c, d \in Callers : at[c] \notin Resting /\ at[d] \notin Resting => c = d
        /\ \A c \in Callers : at[c] \notin Resting \cup {"clean"} => ~IsCached
        /\ ~HalfEntry

(* Is c removing the entry that is there?                                  *)
Removes(c) == at[c] = "remove" /\ Exists /\ entry.from = victim[c]

(* Who removes the entry has all that is left of it on its list, and what  *)
(* is on its list but gone was taken by another, who is at it still or has *)
(* given up as well.                                                       *)
RemovalInv ==
    \A c \in Callers : Removes(c) =>
        /\ entry.parts \subseteq todo[c]
        /\ \/ todo[c] = entry.parts \/ entry.parts = {}
           \/ \E d \in Callers \ {c} : Removes(d) \/ d \in GaveUp

(* As long as nobody was killed: an entry that is not complete is being    *)
(* removed, or about to be replaced, or two calls have given up; and what  *)
(* was promised is there or about to be.                                   *)
KeptInv ==
    (\A c \in Callers : at[c] /= "crashed") =>
        /\ Exists /\ entry.parts /= body[entry.from].parts =>
              \/ \E c \in Callers : Removes(c)
              \/ entry.parts = {} /\ \E c \in Callers : at[c] = "rename"
              \/ \E c, d \in GaveUp : c /= d
        /\ (\E c \in Callers : result[c] = "ok") =>
              Exists \/ \E c \in Callers : at[c] = "rename"

CacheInv ==
    /\ \A c \in Callers : CallInv(c)
    /\ EntryInv /\ AloneInv /\ RemovalInv /\ KeptInv
=============================================================================
