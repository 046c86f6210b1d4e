--------------------------- MODULE FilesystemBackend ---------------------------
(***************************************************************************)
(* The filesystem account backend of citadel_user (src/citadel_user/src/  *)
(* backend/filesystem_backend.rs): client network accounts (CNACs) kept    *)
(* in the MemoryBackend's map and, one file per CID, on disk.              *)
(*                                                                         *)
(* The mutating calls follow one of these shapes:                          *)
(*   - "update" (store_byte_map_value, remove_byte_map_value, ...),        *)
(*     "p2p_client" (register_p2p_as_client) and "p2p_client_dereg"        *)
(*     (deregister_p2p_as_client): change the account in memory, then      *)
(*     save_cnac_by_cid: clone it from the map, save_cnac the clone;       *)
(*   - "p2p" / "p2p_dereg" (register/deregister_p2p_as_server): change     *)
(*     both accounts in memory, clone both, save_cnac one after the other; *)
(*   - "delete" (delete_cnac_by_cid): remove from memory, then the file;   *)
(*   - "purge": drain the map, remove each drained file, then the home     *)
(*     directory with everything left in it.                               *)
(* save_cnac serializes the clone, std::fs::write's it (File::create,      *)
(* which truncates, then write_all) and puts the clone back into the map   *)
(* (MemoryBackend::save_cnac).  Each step holds the map's lock only for    *)
(* itself, and calls run as concurrent tasks (at most MaxInFlight).        *)
(*                                                                         *)
(* ClientNetworkAccount is not in the repository; a clone of it is taken   *)
(* to share the account's state (an Arc), so obj holds one account object *)
(* per CID and the map is the set of CIDs it holds.  An account's contents *)
(* are abstracted to the updates applied to it and its hyperlan peers.     *)
(*                                                                         *)
(* Faults: the process may crash between any two steps (MaxCrashes), and  *)
(* a file operation may return an Err (MaxIOErrors; the TODO at line 48    *)
(* says the write fails).  connect() reloads the map from the files;       *)
(* load_cnac_files is not in the repository, and a file truncated by an    *)
(* interrupted write is taken to be skipped by it.                         *)
(***************************************************************************)
EXTENDS Naturals, Sequences, FiniteSets, Functions

CONSTANTS
    CIDs,           \* accounts whose files exist at the start
    Updates,        \* tokens naming the changes "update" calls make
    Ops,            \* the calls the account manager makes: index -> call
    MaxInFlight,    \* calls running at once
    MaxCrashes,     \* process crashes
    MaxIOErrors     \* file operations returning an Err

Account == [data: SUBSET Updates, peers: SUBSET CIDs]

Empty == [data |-> {}, peers |-> {}]

Calls ==
    [kind: {"update"}, cid: CIDs, upd: Updates]
    \cup [kind: {"p2p", "p2p_dereg", "p2p_client", "p2p_client_dereg"},
          cid: CIDs, peer: CIDs]
    \cup [kind: {"delete"}, cid: CIDs]
    \cup [kind: {"purge"}]

ASSUME \A i \in DOMAIN Ops : Ops[i] \in Calls

VARIABLES
    inMap,      \* the CIDs in MemoryBackend.clients
    obj,        \* CID -> the account object the map's entry and its clones share
    disk,       \* the CNAC files: CID -> the account serialized in it
    torn,       \* files truncated by File::create and not written since
    home,       \* the home directory exists
    up,         \* the process is running and connected
    pc,         \* per call: "idle", "cloning", "create", "write", "memsave",
                \* "removing", "purging", "done", "failed" (an Err), "killed"
    toSave,     \* per call: the CIDs save_cnac still has to save, in order
    bytes,      \* per call: the account generate_proper_bytes serialized
    toRemove,   \* per purge call: the drained accounts whose files remain
    crashes,
    ioErrors

vars == <<inMap, obj, disk, torn, home, up, pc, toSave, bytes, toRemove,
          crashes, ioErrors>>

Idx == DOMAIN Ops

InFlight == {i \in Idx : pc[i] \notin {"idle", "done", "failed", "killed"}}

\* the map with one entry set (fs::write of a file)
Put(f, k, v) == [x \in DOMAIN f \cup {k} |-> IF x = k THEN v ELSE f[x]]

\* the map without k (fs::remove_file)
Drop(f, k) == Restrict(f, DOMAIN f \ {k})

\* A file operation of call i returns an Err: the call ends with it.
IOError(i) ==
    /\ ioErrors < MaxIOErrors
    /\ ioErrors' = ioErrors + 1
    /\ pc' = [pc EXCEPT ![i] = "failed"]

-----------------------------------------------------------------------------
(* The memory half of each call                                             *)

\* deregister_p2p_as_client: the peer taken out of the caller's account.
DeregisterP2PAsClient(c, acct) == [acct EXCEPT !.peers = @ \ {c.peer}]

\* The account after the memory_backend change of a one-account call:
\* store_byte_map_value ("update"), register_p2p_as_client or
\* deregister_p2p_as_client.
Apply(c, acct) ==
    CASE c.kind = "update"           -> [acct EXCEPT !.data = @ \cup {c.upd}]
      [] c.kind = "p2p_client"       -> [acct EXCEPT !.peers = @ \cup {c.peer}]
      [] c.kind = "p2p_client_dereg" -> DeregisterP2PAsClient(c, acct)

\* The memory half of store_byte_map_value, remove_byte_map_value and
\* register/deregister_p2p_as_client: the account changed in the map, or
\* ClientNonExists.
UpdateMemory(i) ==
    LET c == Ops[i] IN
    IF c.cid \in inMap
    THEN /\ obj' = [obj EXCEPT ![c.cid] = Apply(c, @)]
         /\ pc' = [pc EXCEPT ![i] = "cloning"]
    ELSE /\ pc' = [pc EXCEPT ![i] = "failed"]
         /\ UNCHANGED obj

\* The peer lists of a and b after register_p2p_as_server (add) or
\* deregister_p2p_as_server (remove) in memory.
Link(o, a, b, add) ==
    [o EXCEPT ![a].peers = IF add THEN @ \cup {b} ELSE @ \ {b},
              ![b].peers = IF add THEN @ \cup {a} ELSE @ \ {a}]

\* The memory half of register_p2p_as_server / deregister_p2p_as_server:
\* both accounts changed under one write lock, or ClientNonExists.
P2PMemory(i) ==
    LET c == Ops[i] IN
    IF {c.cid, c.peer} \subseteq inMap
    THEN /\ obj' = Link(obj, c.cid, c.peer, c.kind = "p2p")
         /\ pc' = [pc EXCEPT ![i] = "cloning"]
    ELSE /\ pc' = [pc EXCEPT ![i] = "failed"]
         /\ UNCHANGED obj

\* delete_cnac_by_cid, first half: is_personal read under the read lock
\* (ClientNonExists if absent), then the entry removed from the map.  The
\* two lock holds are one step: no two calls of Ops delete one CID.
DeleteMemory(i) ==
    LET c == Ops[i] IN
    IF c.cid \in inMap
    THEN /\ inMap' = inMap \ {c.cid}
         /\ pc' = [pc EXCEPT ![i] = "removing"]
    ELSE /\ pc' = [pc EXCEPT ![i] = "failed"]
         /\ UNCHANGED inMap

\* purge, first half: the map drained under the write lock; the paths of
\* every drained account are left to remove.
PurgeDrain(i) ==
    /\ inMap' = {}
    /\ toRemove' = [toRemove EXCEPT ![i] = inMap]
    /\ pc' = [pc EXCEPT ![i] = "purging"]

\* A call starts: its memory half, as one step under the map's lock.
StartCall(i) ==
    LET k == Ops[i].kind IN
    /\ up
    /\ pc[i] = "idle"
    /\ Cardinality(InFlight) < MaxInFlight
    /\ CASE k \in {"update", "p2p_client", "p2p_client_dereg"} ->
                UpdateMemory(i) /\ UNCHANGED <<inMap, toRemove>>
         [] k \in {"p2p", "p2p_dereg"} ->
                P2PMemory(i) /\ UNCHANGED <<inMap, toRemove>>
         [] k = "delete" -> DeleteMemory(i) /\ UNCHANGED <<obj, toRemove>>
         [] k = "purge" -> PurgeDrain(i) /\ UNCHANGED obj
    /\ UNCHANGED <<disk, torn, home, up, toSave, bytes, crashes, ioErrors>>

-----------------------------------------------------------------------------
(* Saving                                                                   *)

\* The CIDs whose accounts a call saves, in the order it saves them.
SaveOrder(c) == IF c.kind \in {"p2p", "p2p_dereg"} THEN <<c.cid, c.peer>> ELSE <<c.cid>>

\* The clones save_cnac will write, taken under the map's read lock
\* (save_cnac_by_cid, or the read() of register_p2p_as_server); a CID gone
\* from the map meanwhile is ClientNonExists.
CloneForSave(i) ==
    LET cids == SaveOrder(Ops[i]) IN
    /\ up
    /\ pc[i] = "cloning"
    /\ IF \A k \in 1 .. Len(cids) : cids[k] \in inMap
       THEN /\ toSave' = [toSave EXCEPT ![i] = cids]
            /\ pc' = [pc EXCEPT ![i] = "create"]
       ELSE /\ pc' = [pc EXCEPT ![i] = "failed"]
            /\ UNCHANGED toSave
    /\ UNCHANGED <<inMap, obj, disk, torn, home, up, bytes, toRemove, crashes,
                   ioErrors>>

\* save_cnac up to File::create: the clone serialized as it is now, then
\* the file created, which truncates it.  Without the home directory, or
\* on an I/O Err, fs::write fails and so does the call.
SaveCnacCreate(i) ==
    LET cid == Head(toSave[i]) IN
    /\ up
    /\ pc[i] = "create"
    /\ bytes' = [bytes EXCEPT ![i] = obj[cid]]
    /\ \/ /\ home
          /\ torn' = torn \cup {cid}
          /\ pc' = [pc EXCEPT ![i] = "write"]
          /\ UNCHANGED ioErrors
       \/ ~home /\ pc' = [pc EXCEPT ![i] = "failed"] /\ UNCHANGED <<torn, ioErrors>>
       \/ home /\ IOError(i) /\ UNCHANGED torn
    /\ UNCHANGED <<inMap, obj, disk, home, up, toSave, toRemove, crashes>>

\* save_cnac, the rest of fs::write: write_all of the bytes.  An Err leaves
\* the file truncated.
SaveCnacWrite(i) ==
    LET cid == Head(toSave[i]) IN
    /\ up
    /\ pc[i] = "write"
    /\ \/ /\ disk' = Put(disk, cid, bytes[i])
          /\ torn' = torn \ {cid}
          /\ pc' = [pc EXCEPT ![i] = "memsave"]
          /\ UNCHANGED ioErrors
       \/ IOError(i) /\ UNCHANGED <<disk, torn>>
    /\ UNCHANGED <<inMap, obj, home, up, toSave, bytes, toRemove, crashes>>

\* save_cnac, last: memory_backend.save_cnac inserts the clone into the
\* map.  When no clone is left the call returns Ok.
SaveCnacMemory(i) ==
    /\ up
    /\ pc[i] = "memsave"
    /\ inMap' = inMap \cup {Head(toSave[i])}
    /\ toSave' = [toSave EXCEPT ![i] = Tail(@)]
    /\ pc' = [pc EXCEPT ![i] = IF Len(toSave[i]) = 1 THEN "done" ELSE "create"]
    /\ UNCHANGED <<obj, disk, torn, home, up, bytes, toRemove, crashes, ioErrors>>

-----------------------------------------------------------------------------
(* Removing                                                                 *)

\* A plausible bug in delete_cnac_by_cid: the path generated with the
\* wrong is_personal flag, a file that does not exist; its Err ignored.
RemoveCnacFileWrongPath(i) ==
    /\ up
    /\ pc[i] = "removing"
    /\ pc' = [pc EXCEPT ![i] = "done"]
    /\ UNCHANGED <<inMap, obj, disk, torn, home, up, toSave, bytes, toRemove,
                   crashes, ioErrors>>

\* delete_cnac_by_cid, second half: fs::remove_file of the CID's file; Ok,
\* or an Err when the file is missing or the removal fails.
RemoveCnacFile(i) ==
    LET cid == Ops[i].cid IN
    /\ up
    /\ pc[i] = "removing"
    /\ \/ /\ cid \in DOMAIN disk
          /\ disk' = Drop(disk, cid)
          /\ torn' = torn \ {cid}
          /\ pc' = [pc EXCEPT ![i] = "done"]
          /\ UNCHANGED ioErrors
       \/ cid \notin DOMAIN disk /\ pc' = [pc EXCEPT ![i] = "failed"]
                                 /\ UNCHANGED <<disk, torn, ioErrors>>
       \/ cid \in DOMAIN disk /\ IOError(i) /\ UNCHANGED <<disk, torn>>
    /\ UNCHANGED <<inMap, obj, home, up, toSave, bytes, toRemove, crashes>>

\* purge, the loop over the drained paths: tokio::fs::remove_file of one
\* (the drain's order is the HashMap's); an Err, a missing file included,
\* ends the call.
PurgeRemoveFile(i) ==
    /\ up
    /\ pc[i] = "purging"
    /\ \E c \in toRemove[i] :
          \/ /\ c \in DOMAIN disk
             /\ disk' = Drop(disk, c)
             /\ torn' = torn \ {c}
             /\ toRemove' = [toRemove EXCEPT ![i] = @ \ {c}]
             /\ UNCHANGED <<pc, ioErrors>>
          \/ c \notin DOMAIN disk /\ pc' = [pc EXCEPT ![i] = "failed"]
                                  /\ UNCHANGED <<disk, torn, toRemove, ioErrors>>
          \/ c \in DOMAIN disk /\ IOError(i) /\ UNCHANGED <<disk, torn, toRemove>>
    /\ UNCHANGED <<inMap, obj, home, up, toSave, bytes, crashes>>

\* purge, last step: remove_dir_all of the home directory, which takes
\* every file still in it; Ok(count), or its Err.
PurgeRemoveHome(i) ==
    /\ up
    /\ pc[i] = "purging"
    /\ toRemove[i] = {}
    /\ \/ /\ disk' = <<>>
          /\ torn' = {}
          /\ home' = FALSE
          /\ pc' = [pc EXCEPT ![i] = "done"]
          /\ UNCHANGED ioErrors
       \/ IOError(i) /\ UNCHANGED <<disk, torn, home>>
    /\ UNCHANGED <<inMap, obj, up, toSave, bytes, toRemove, crashes>>

-----------------------------------------------------------------------------
(* Crash and connect                                                        *)

\* The process dies: memory and every running call are lost.
Crash ==
    /\ up
    /\ crashes < MaxCrashes
    /\ up' = FALSE
    /\ inMap' = {}
    /\ pc' = [i \in Idx |-> IF i \in InFlight THEN "killed" ELSE pc[i]]
    /\ crashes' = crashes + 1
    /\ UNCHANGED <<obj, disk, torn, home, toSave, bytes, toRemove, ioErrors>>

\* connect(): setup_directories (re)creates the home directory, and
\* load_cnac_files reads every file that holds an account into fresh
\* objects, which replace the map.
Connect ==
    LET loaded == DOMAIN disk \ torn IN
    /\ ~up
    /\ up' = TRUE
    /\ home' = TRUE
    /\ inMap' = loaded
    /\ obj' = [c \in CIDs |-> IF c \in loaded THEN disk[c] ELSE obj[c]]
    /\ UNCHANGED <<disk, torn, pc, toSave, bytes, toRemove, crashes, ioErrors>>

-----------------------------------------------------------------------------

\* FilesystemBackend::from(home_dir): an empty map, not connected.  The
\* files of every account are on disk from an earlier run.
Init ==
    /\ inMap = {}
    /\ obj = [c \in CIDs |-> Empty]
    /\ disk = [c \in CIDs |-> Empty]
    /\ torn = {}
    /\ home = TRUE
    /\ up = FALSE
    /\ pc = [i \in Idx |-> "idle"]
    /\ toSave = [i \in Idx |-> <<>>]
    /\ bytes = [i \in Idx |-> Empty]
    /\ toRemove = [i \in Idx |-> {}]
    /\ crashes = 0
    /\ ioErrors = 0

Next ==
    \/ \E i \in Idx :
          \/ StartCall(i)
          \/ CloneForSave(i)
          \/ SaveCnacCreate(i)
          \/ SaveCnacWrite(i)
          \/ SaveCnacMemory(i)
          \/ RemoveCnacFile(i)
          \/ PurgeRemoveFile(i)
          \/ PurgeRemoveHome(i)
    \/ Crash
    \/ Connect

Spec == Init /\ [][Next]_vars

-----------------------------------------------------------------------------
(* Properties                                                               *)

\* A delete_cnac_by_cid or purge that returned Ok stays done: from then on
\* the deleted account (after a purge, every account) is neither in the
\* map the server reads nor in a file the next connect() would load it
\* from, whatever crashes, failed writes and later calls happen.
DeletedStaysDeleted ==
    \A i \in Idx : pc[i] = "done" =>
        /\ Ops[i].kind = "delete" => Ops[i].cid \notin inMap \cup DOMAIN disk
        /\ Ops[i].kind = "purge" => inMap = {} /\ disk = <<>>

=============================================================================
