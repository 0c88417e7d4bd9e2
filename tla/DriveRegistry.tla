--------------------------- MODULE DriveRegistry ----------------------------
(***************************************************************************)
(* What a drive is called.  Its first scan makes an id of the name under   *)
(* which the drive is mounted then, and enters it into the new manifest.   *)
(* Ids are the keys of version vectors, and of the manifests and roots     *)
(* that a command hands on: among disks with one key only the last counts. *)
(***************************************************************************)
EXTENDS Integers, FiniteSets

CONSTANTS
  Disks,
  Names,   \* names of mount points; ids are names too
  IdOf,    \* IdOf[n]: the letters and digits of n
  Absent   \* no name

ASSUME RegistryAssumption ==
  /\ IdOf \in [Names -> Names] /\ \A n \in Names : IdOf[IdOf[n]] = IdOf[n]
  /\ Absent \notin Names

VARIABLES
  mountedAs,  \* mountedAs[d]: name of d's mount point
  known,      \* disks that have a manifest
  driveId,    \* driveId[d]: id in the manifest of d
  firstName   \* history: the name that the id was made of

registryVars == <<mountedAs, known, driveId, firstName>>

RegistryInit ==
  /\ mountedAs = [d \in Disks |-> Absent] /\ known = {}
  /\ driveId = [d \in Disks |-> Absent] /\ firstName = [d \in Disks |-> Absent]

\* Mount points have different paths, but may have the same name.
Mount(d) ==
  /\ mountedAs[d] = Absent
  /\ \E n \in Names : mountedAs' = [mountedAs EXCEPT ![d] = n]
  /\ UNCHANGED <<known, driveId, firstName>>

Unmount(d) ==
  /\ mountedAs[d] # Absent /\ mountedAs' = [mountedAs EXCEPT ![d] = Absent]
  /\ UNCHANGED <<known, driveId, firstName>>

\* get_or_register_drive_id
Register(d) ==
  /\ mountedAs[d] # Absent /\ driveId[d] = Absent
  /\ known' = known \cup {d}
  /\ driveId' = [driveId EXCEPT ![d] = IdOf[mountedAs[d]]]
  /\ firstName' = [firstName EXCEPT ![d] = mountedAs[d]]
  /\ UNCHANGED mountedAs

\* The scan dies when the manifest has been created.
RegisterDies(d) ==
  /\ mountedAs[d] # Absent /\ d \notin known
  /\ known' = known \cup {d}
  /\ UNCHANGED <<mountedAs, driveId, firstName>>

RegistryNext == \E d \in Disks : Mount(d) \/ Unmount(d) \/ Register(d) \/ RegisterDies(d)

RegistrySpec == RegistryInit /\ [][RegistryNext]_registryVars

\* Fault: the id is that of the mount point, not of the manifest.
MountIsKey(d) == IdOf[mountedAs[d]]

\* Under which key do_sync and open_drive_manifests put the manifest of d?
Key(d) == IF driveId[d] = Absent THEN mountedAs[d] ELSE driveId[d]

\* The disks they find, of which those with a key of their own take part.
Found == {d \in known : mountedAs[d] # Absent}

-----------------------------------------------------------------------------
AllTakePart == \A d, e \in Found : d # e => Key(d) # Key(e)

\* Disks first scanned under names with different letters and digits do not
\* get into each other's way, wherever they are mounted later.
NobodyLeftOut ==
  /\ \A d \in Found : driveId[d] # Absent
  /\ \A d, e \in Found : d # e => IdOf[firstName[d]] # IdOf[firstName[e]]
  => AllTakePart
=============================================================================
