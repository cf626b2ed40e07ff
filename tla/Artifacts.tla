----------------------------- MODULE Artifacts ------------------------------
(***************************************************************************)
(* Collecting the outputs of builds of one core (src/super_q/artifacts.py).*)
(*                                                                         *)
(* Threads of a sweep, and of other processes that build the core, copy    *)
(* what a build made into a directory per job and seed and then renew the  *)
(* `latest` pointer they all share: test, remove, link, and a text file    *)
(* where that fails.  Nothing orders those steps between two collectors.   *)
(***************************************************************************)
EXTENDS Integers, FiniteSets

CONSTANTS
  Builds,   \* builds of the core, each with a directory of its own
  NoBuild,
  Bytes,    \* the bytes a bitstream is made of
  Width     \* bits in a byte

\* How many numbers have so many binary digits.
Numbers == LET count[i \in 0..Width] == IF i = 0 THEN 1 ELSE 2 * count[i - 1] IN count

\* The values of a byte.
Values == 0..(Numbers[Width] - 1)

ASSUME BuildsAssumption == NoBuild \notin Builds
ASSUME BytesAssumption == Width \in Nat /\ Bytes \subseteq Values

VARIABLES
  links,    \* the file system makes symbolic links
  step,     \* where each collector is
  made,     \* the bitstream of each build, a byte or -1 for none
  shelf,    \* bitstream.rbf_r in the build's directory, a byte or -1
  full,     \* builds whose directory is complete
  latest,   \* the build that the `latest` link names
  text,     \* the build that the LATEST file names
  pointed,  \* the build that wrote one of the two last
  dist      \* bitstream.rbf_r in the core's dist directory, a byte or -1

artVars == <<links, step, made, shelf, full, latest, text, pointed, dist>>

-----------------------------------------------------------------------------
(* _REVERSE_TABLE: a byte is printed in binary digits, which are read the   *)
(* other way round.                                                         *)

\* What is left of a byte after i digits, from the lowest on.
Halved(byte) ==
  LET left[i \in 0..Width] == IF i = 0 THEN byte ELSE left[i - 1] \div 2
  IN  left

Bit(byte, i) == Halved(byte)[i] % 2

\* int(digits, 2), for the digits bits[0], bits[1], ... in the order they are read.
Read(bits) ==
  LET said[i \in 0..Width] == IF i = 0 THEN 0 ELSE 2 * said[i - 1] + bits[i - 1]
  IN  said

MutMirror(byte) == byte

Mirror(byte) == Read([i \in 0..(Width - 1) |-> Bit(byte, i)])[Width]

None == -1

ArtTypeOK ==
  /\ links \in BOOLEAN
  /\ step \in [Builds -> {"build", "copy", "look", "unlink", "link", "text",
                          "promote", "done", "failed"}]
  /\ made \in [Builds -> Bytes \cup {None}]
  /\ shelf \in [Builds -> Values \cup {None}]
  /\ full \subseteq Builds
  /\ {latest, text, pointed} \subseteq Builds \cup {NoBuild}
  /\ dist \in Values \cup {None}

ArtInit ==
  /\ links \in BOOLEAN
  /\ step = [b \in Builds |-> "build"]
  /\ made = [b \in Builds |-> None]
  /\ shelf = [b \in Builds |-> None]
  /\ full = {}
  /\ latest = NoBuild /\ text = NoBuild /\ pointed = NoBuild
  /\ dist = None

At(b, from, to) == step[b] = from /\ step' = [step EXCEPT ![b] = to]

-----------------------------------------------------------------------------
\* A build ends, with a bitstream or without one; failing seeds are collected
\* as passing ones are.
Built(b) ==
  /\ At(b, "build", "copy")
  /\ \E byte \in Bytes \cup {None} : made' = [made EXCEPT ![b] = byte]
  /\ UNCHANGED <<links, shelf, full, latest, text, pointed, dist>>

\* The copies of collect(), the reversed bitstream among them.
Copy(b) ==
  /\ At(b, "copy", "look")
  /\ shelf' = [shelf EXCEPT ![b] = IF made[b] = None THEN None ELSE Mirror(made[b])]
  /\ full' = full \cup {b}
  /\ UNCHANGED <<links, made, latest, text, pointed, dist>>

\* A copy fails, on a full disk say: the exception leaves the backend.
CopyFails(b) ==
  /\ At(b, "copy", "failed")
  /\ UNCHANGED <<links, made, shelf, full, latest, text, pointed, dist>>

Look(b) ==
  /\ At(b, "look", IF latest = NoBuild THEN "link" ELSE "unlink")
  /\ UNCHANGED <<links, made, shelf, full, latest, text, pointed, dist>>

\* Another collector may have removed the link since: an OSError.
Unlink(b) ==
  /\ At(b, "unlink", IF latest = NoBuild THEN "text" ELSE "link")
  /\ latest' = NoBuild
  /\ UNCHANGED <<links, made, shelf, full, text, pointed, dist>>

\* Another collector may have made the link since, or the file system refuses.
Refused == ~links \/ latest # NoBuild

Link(b) ==
  /\ ~Refused
  /\ At(b, "link", "promote")
  /\ latest' = b /\ pointed' = b
  /\ UNCHANGED <<links, made, shelf, full, text, dist>>

LinkFails(b) ==
  /\ Refused
  /\ At(b, "link", "text")
  /\ UNCHANGED <<links, made, shelf, full, latest, text, pointed, dist>>

MutWriteText(b) ==
  /\ At(b, "text", "promote")
  /\ pointed' = b
  /\ UNCHANGED <<links, made, shelf, full, latest, text, dist>>

WriteText(b) ==
  /\ At(b, "text", "promote")
  /\ text' = b /\ pointed' = b
  /\ UNCHANGED <<links, made, shelf, full, latest, dist>>

\* promote_to_dist: the command that asked for the build ships its bitstream,
\* if there is one and the core has a dist directory, or does not ship it.
Promote(b) ==
  /\ At(b, "promote", "done")
  /\ dist' \in IF shelf[b] = None THEN {dist} ELSE {dist, shelf[b]}
  /\ UNCHANGED <<links, made, shelf, full, latest, text, pointed>>

Collector(b) ==
  \/ Built(b) \/ Copy(b) \/ CopyFails(b) \/ Look(b) \/ Unlink(b)
  \/ Link(b) \/ LinkFails(b) \/ WriteText(b) \/ Promote(b)

ArtNext == \E b \in Builds : Collector(b)

-----------------------------------------------------------------------------
\* While nobody renews the pointer, it is there, by link or by text it names the
\* build that renewed it last, and it only ever names complete directories.  Whether
\* that build passed is another question: see LatestIsPassing.
PointerStands ==
  /\ {latest, text} \subseteq full \cup {NoBuild}
  /\ (\A b \in Builds : step[b] \notin {"look", "unlink", "link", "text"}) =>
       /\ pointed \in {latest, text}
       /\ pointed # NoBuild /\ links => latest # NoBuild

\* What the APF loader gets is a bitstream of a collected build, bit by bit in
\* reverse, and reversing it again gives back what Quartus made: nothing is lost,
\* nothing is shipped raw.
ShelfMirrors ==
  /\ dist \in {None} \cup {shelf[b] : b \in full}
  /\ \A b \in full : IF made[b] = None THEN shelf[b] = None
    ELSE /\ \A i \in 0..(Width - 1) : Bit(shelf[b], i) = Bit(made[b], Width - 1 - i)
         /\ Mirror(shelf[b]) = made[b]

(* What the repository says and the code does not do *)

\* "latest -> symlink to the most recent passing seed" (README.md:174): a seed
\* without a bitstream has not passed, whatever its timing.
LatestIsPassing == latest # NoBuild => made[latest] # None
=============================================================================
