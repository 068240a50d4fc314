-------------------------------- MODULE Diff --------------------------------
(***************************************************************************)
(* The verdicts of protonfs.diff on one path, from up to three views of    *)
(* it: the local scan, the index and, when a walk was made, Drive.         *)
(*                                                                         *)
(* A content is its own digest, so a scan entry is the content scanned.    *)
(***************************************************************************)
EXTENDS Naturals

CONSTANTS
  None,        \* no file, no index entry, no remote entry, no reported value
  Contents,    \* what a file may hold
  Size         \* the plaintext size of a content

ASSUME ContentsAssumption ==
  /\ None \notin Contents
  /\ Size \in [Contents -> Nat]
  /\ None \notin Nat

(* A digest, "" (here None) when it is unknown. *)
Digests == Contents \cup {None}

(* IndexEntry, and a file of a listing (RemoteEntry, RemoteIdentity): the  *)
(* plaintext size and digest Proton may not report, and the encrypted size *)
(* it always does.                                                         *)
IndexEntries == [size : Nat, sha256 : Digests, sha1 : Digests,
                 local_state : {"present", "metadata-only"}]
RemoteEntries == [claimed_size : Nat \cup {None}, sha1 : Digests, size : Nat]

(* Mutant: the encrypted size is compared, whatever Proton reports. *)
Encrypted_diverged(remote, entry) ==
  IF remote.sha1 # None /\ entry.sha1 # None
  THEN remote.sha1 # entry.sha1
  ELSE remote.size # entry.size

Remote_diverged(remote, entry) ==
  IF remote.sha1 # None /\ entry.sha1 # None
  THEN remote.sha1 # entry.sha1
  ELSE (IF remote.claimed_size # None THEN remote.claimed_size ELSE remote.size) # entry.size

(* Present locally and indexed.  Without a walk there is no remote entry. *)
Classify_present(local, entry, remote) ==
  LET local_changed == local # entry.sha256
      remote_changed == remote # None /\ Remote_diverged(remote, entry)
  IN CASE ~local_changed /\ remote_changed -> "remote-modified"
       [] ~local_changed /\ ~remote_changed -> "locally-indexed"
       [] local_changed /\ remote = None -> "conflict"
       [] local_changed /\ remote # None /\ remote_changed -> "both-modified"
       [] OTHER -> "local-modified"

(* Indexed and not found locally; viewed says whether a walk was made. *)
Classify_absent(entry, viewed, remote) ==
  CASE ~viewed -> IF entry.local_state = "metadata-only" THEN "metadata-only"
                  ELSE "remote-only"
    [] viewed /\ remote = None -> "remote-deleted"
    [] viewed /\ remote # None /\ entry.local_state = "present" -> "local-deleted"
    [] OTHER -> IF Remote_diverged(remote, entry) THEN "remote-changed" ELSE "metadata-only"

(* The verdict on a path some view knows: pointer says that the local file *)
(* is a git-LFS pointer stub.                                              *)
Classify(local, pointer, entry, viewed, remote) ==
  CASE local # None /\ pointer -> "lfs-pointer"
    [] local # None /\ ~pointer /\ entry = None -> "local-only"
    [] local # None /\ ~pointer /\ entry # None -> Classify_present(local, entry, remote)
    [] local = None /\ entry # None -> Classify_absent(entry, viewed, remote)
    [] OTHER -> "remote-only"

(* A path this machine held that is gone from disk: exists is asked of the *)
(* disk, which may still hold a file the scan left out.                    *)
Held_and_gone(state, entry, exists) ==
  /\ state \in {"remote-only", "local-deleted"}
  /\ entry # None
  /\ entry.local_state # "metadata-only"
  /\ ~exists
=============================================================================
