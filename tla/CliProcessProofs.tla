-------------------------- MODULE CliProcessProofs --------------------------
(***************************************************************************)
(* Proofs about SystemConfig and CliProcess, for any number of processes,  *)
(* configurations, entry points and size of a batch.                       *)
(*                                                                         *)
(* The properties of the file are proved of ConfigSpec, where the          *)
(* processes do nothing but rotate it, and carried over to Spec by showing *)
(* that Spec implements ConfigSpec.                                        *)
(***************************************************************************)
EXTENDS CliProcess, TLAPS

(* What a process is about to write is no older than the file, unless      *)
(* another one got in between.                                             *)
Undisturbed ==
  /\ \A p, q \in Processes : Rotating(p) /\ Rotating(q) => p = q
  /\ \A p \in Processes :
       /\ rot[p].pc \in {"fetch", "open"} =>
            file.state = "ok" /\ file.data = latest
       /\ rot[p].pc = "fetch" => rot[p].seen = latest
       /\ rot[p].pc \in {"open", "writing"} => rot[p].next >= latest
       /\ rot[p].pc = "writing" => file.state = "broken"

ConfigInv ==
  /\ ConfigTypeOK
  /\ latest <= published /\ file.data <= published
  /\ \A p \in Processes :
       /\ rot[p].pc = "fetch" => rot[p].seen <= published
       /\ rot[p].pc \in {"open", "writing"} => rot[p].next <= published
  /\ FileKeepsNewest
  /\ ~overlap /\ ~cut => Undisturbed

\* Before any process has read the file.
LEMMA ConfigInitInv == ConfigInit => ConfigInv
<1> SUFFICES ASSUME ConfigInit PROVE ConfigInv
  OBVIOUS
<1> USE SystemConfigAssumption DEF ConfigInit
<1>1. ConfigTypeOK
  <2>1. 0 \in Data
    BY DEF Data
  <2>2. file \in File
    <3>1. Absent \in File /\ Broken \in File /\ Whole(0) \in File
      BY <2>1 DEF File, Absent, Broken, Whole
    <3>2. [Whole(0) EXCEPT !.old = TRUE] \in File
      BY <2>1, Zenon DEF File, Whole
    <3> QED
      BY <3>1, <3>2, Zenon
  <2>3. cut \in BOOLEAN
    BY Zenon
  <2>4. Idle \in Rotation
    BY <2>1 DEF Idle, Rotation
  <2> QED
    BY <2>1, <2>2, <2>3, <2>4, Zenon DEF ConfigTypeOK
<1>2. \A p \in Processes : rot[p].pc = "off"
  BY DEF Idle
<1>3. file.data = 0 /\ (file = Broken \/ file.state # "broken")
  BY DEF Absent, Broken, Whole
<1>4. FileKeepsNewest
  BY <1>3, Zenon DEF FileKeepsNewest
<1> QED
  BY <1>1, <1>2, <1>3, <1>4 DEF ConfigInv, Undisturbed, Rotating

\* The fields of one process change, those of the others do not.
LEMMA RotEffect ==
  ASSUME ConfigTypeOK, NEW p \in Processes, NEW v \in Rotation,
         rot' = [rot EXCEPT ![p] = v]
  PROVE  /\ rot' \in [Processes -> Rotation] /\ rot'[p] = v
         /\ \A q \in Processes \ {p} : rot'[q] = rot[q]
  BY DEF ConfigTypeOK

\* After rotateIfNecessary() the process does not write.
LEMMA AfterTyped ==
  ASSUME ConfigTypeOK, NEW p \in Processes, NEW b \in BOOLEAN
  PROVE  After(p, b) \in Rotation /\ After(p, b).pc \in {"asleep", "reload"}
<1>1. rot[p].background \in BOOLEAN
  BY DEF ConfigTypeOK, Rotation
<1>2. 0 \in Data
  BY SystemConfigAssumption DEF Data
<1>3. Idle \in Rotation
  BY <1>2 DEF Idle, Rotation
<1>4. After(p, b).pc \in {"asleep", "reload"}
  BY DEF After, Idle
<1>5. \A c \in {"asleep", "reload"} :
        [Idle EXCEPT !.background = rot[p].background, !.pc = c] \in Rotation
  BY <1>1, <1>3, Zenon DEF Rotation
<1> QED
  BY <1>4, <1>5, Zenon DEF After

(* A process that stops to rotate, and leaves the file alone, disturbs     *)
(* nothing, unless it was writing: then the write is cut.                  *)
LEMMA StopsRotating ==
  ASSUME ConfigInv, NEW p \in Processes, NEW v \in Rotation,
         v.pc \notin {"fetch", "open", "writing"},
         rot' = [rot EXCEPT ![p] = v],
         cut' \in BOOLEAN, cut => cut', rot[p].pc = "writing" => cut',
         sentry' \in [Processes -> Data \union {-1}],
         UNCHANGED <<file, published, latest, overlap>>
  PROVE  ConfigInv'
<1>1. /\ rot' \in [Processes -> Rotation] /\ rot'[p] = v
      /\ \A q \in Processes \ {p} : rot'[q] = rot[q]
  BY RotEffect, Zenon DEF ConfigInv
<1>2. ConfigTypeOK'
  BY <1>1 DEF ConfigInv, ConfigTypeOK
<1>3. \A q \in Processes :
        /\ rot'[q].pc = "fetch" => rot'[q].seen <= published
        /\ rot'[q].pc \in {"open", "writing"} => rot'[q].next <= published
  BY <1>1 DEF ConfigInv
<1>4. FileKeepsNewest'
  BY <1>1 DEF ConfigInv, FileKeepsNewest
<1>5. ~overlap' /\ ~cut' => Undisturbed'
  BY <1>1 DEF ConfigInv, Undisturbed, Rotating
<1> QED
  BY <1>2, <1>3, <1>4, <1>5 DEF ConfigInv

\* Only a file that parses is old: the default is dated now.
LEMMA DefaultIsNew ==
  ASSUME NeedsRotation(GetConfigFile(file))
  PROVE  file.state = "ok" /\ GetConfigFile(file).data = file.data
  BY DEF NeedsRotation, GetConfigFile

\* The steps of rotateIfNecessary() up to the opening of the file.
LEMMA LoadInv == ASSUME ConfigInv, NEW p \in Processes, Load(p) PROVE ConfigInv'
<1> USE SystemConfigAssumption
<1>1. CASE ~NeedsRotation(GetConfigFile(file))
  <2>1. After(p, FALSE) \in Rotation /\ After(p, FALSE).pc \in {"asleep", "reload"}
    BY AfterTyped, Zenon DEF ConfigInv
  <2> QED
    BY <1>1, <2>1, StopsRotating, Zenon DEF Load, ConfigInv, ConfigTypeOK
<1>2. CASE NeedsRotation(GetConfigFile(file))
  <2> DEFINE v == [rot[p] EXCEPT !.pc = "fetch", !.seen = file.data]
  <2>1. rot[p] \in Rotation /\ file \in File
    BY DEF ConfigInv, ConfigTypeOK
  <2>2. v \in Rotation /\ v.pc = "fetch" /\ v.seen = file.data
    BY <2>1, Zenon DEF Rotation, File
  <2>3. rot' = [rot EXCEPT ![p] = v]
    BY <1>2, <2>1, DefaultIsNew, Zenon DEF Load, ConfigInv, ConfigTypeOK, Rotation
  <2> HIDE DEF v
  <2>4. /\ rot' \in [Processes -> Rotation] /\ rot'[p] = v
        /\ \A q \in Processes \ {p} : rot'[q] = rot[q]
    BY <2>2, <2>3, RotEffect, Zenon DEF ConfigInv
  <2>5. /\ overlap' = (overlap \/ \E q \in Processes : Rotating(q))
        /\ UNCHANGED <<file, published, latest, cut, sentry>>
        /\ file.state = "ok" /\ rot[p].pc = "load"
    BY <1>2, DefaultIsNew, Zenon DEF Load
  <2>6. ConfigTypeOK'
    BY <2>4, <2>5 DEF ConfigInv, ConfigTypeOK
  <2> QED
    BY <2>2, <2>4, <2>5, <2>6, ZenonT(30) DEF ConfigInv, FileKeepsNewest, Undisturbed, Rotating
<1> QED
  BY <1>1, <1>2

\* Without an answer the process is to write back what it has read.
LEMMA FetchInv ==
  ASSUME ConfigInv, NEW p \in Processes, NEW answered \in BOOLEAN, FetchNewConfig(p, answered)
  PROVE  ConfigInv'
<1> DEFINE v == [rot[p] EXCEPT !.pc = "open", !.rotated = answered,
                               !.next = Renewed(rot[p].seen, answered)]
<1>1. rot[p] \in Rotation /\ published \in Data
  BY DEF ConfigInv, ConfigTypeOK
<1>2. v \in Rotation /\ v.pc = "open"
      /\ v.next = (IF answered THEN published ELSE rot[p].seen)
  BY <1>1, Zenon DEF Rotation, Renewed
<1>3. rot' = [rot EXCEPT ![p] = v]
  BY <1>1, Zenon DEF FetchNewConfig, ConfigInv, ConfigTypeOK, Rotation
<1> HIDE DEF v
<1>4. /\ rot' \in [Processes -> Rotation] /\ rot'[p] = v
      /\ \A q \in Processes \ {p} : rot'[q] = rot[q]
  BY <1>2, <1>3, RotEffect, Zenon DEF ConfigInv
<1>5. /\ UNCHANGED <<file, published, latest, overlap, cut, sentry>>
      /\ rot[p].pc = "fetch"
  BY DEF FetchNewConfig
<1>6. ConfigTypeOK'
  BY <1>4, <1>5 DEF ConfigInv, ConfigTypeOK
<1>7. /\ latest \in Nat /\ published \in Nat /\ latest <= published
      /\ rot[p].seen \in Nat /\ rot[p].seen <= published
  <2>1. latest \in Data /\ published \in Data /\ rot[p].seen \in Data
    BY <1>1 DEF ConfigInv, ConfigTypeOK, Rotation
  <2>2. latest <= published /\ rot[p].seen <= published
    BY <1>5 DEF ConfigInv
  <2> QED
    BY <2>1, <2>2, SystemConfigAssumption DEF Data
<1>8. v.next <= published
  BY <1>2, <1>7
<1>9. ~overlap /\ ~cut => v.next >= latest
  BY <1>2, <1>5, <1>7 DEF ConfigInv, Undisturbed
<1>10. ~overlap' /\ ~cut' => Undisturbed'
  BY <1>2, <1>4, <1>5, <1>9 DEF ConfigInv, Undisturbed, Rotating
<1>11. FileKeepsNewest'
  BY <1>2, <1>4, <1>5 DEF ConfigInv, FileKeepsNewest
<1> QED
  BY <1>2, <1>4, <1>5, <1>6, <1>8, <1>10, <1>11 DEF ConfigInv

\* writeFile() empties the file.
LEMMA OpenInv == ASSUME ConfigInv, NEW p \in Processes, Open(p) PROVE ConfigInv'
<1> DEFINE v == [rot[p] EXCEPT !.pc = "writing"]
<1>1. rot[p] \in Rotation
  BY DEF ConfigInv, ConfigTypeOK
<1>2. v \in Rotation /\ v.pc = "writing" /\ v.next = rot[p].next
  BY <1>1 DEF Rotation
<1>3. rot' = [rot EXCEPT ![p] = v]
  BY <1>1 DEF Open, ConfigInv, ConfigTypeOK, Rotation
<1> HIDE DEF v
<1>4. /\ rot' \in [Processes -> Rotation] /\ rot'[p] = v
      /\ \A q \in Processes \ {p} : rot'[q] = rot[q]
  BY <1>2, <1>3, RotEffect, Zenon DEF ConfigInv
<1>5. /\ UNCHANGED <<published, latest, overlap, cut, sentry>>
      /\ rot[p].pc = "open" /\ file' = Broken
  BY DEF Open
<1>6. Broken \in File /\ Broken.state = "broken" /\ Broken.data = 0
  BY SystemConfigAssumption DEF Broken, File, Data
<1>7. ConfigTypeOK'
  BY <1>4, <1>5, <1>6 DEF ConfigInv, ConfigTypeOK
<1>8. published \in Nat
  BY SystemConfigAssumption DEF ConfigInv, ConfigTypeOK, Data
<1>9. ~overlap' /\ ~cut' => Undisturbed'
  BY <1>2, <1>4, <1>5, <1>6 DEF ConfigInv, Undisturbed, Rotating
<1>10. FileKeepsNewest'
  BY <1>2, <1>4, <1>5 DEF FileKeepsNewest
<1> QED
  BY <1>2, <1>4, <1>5, <1>6, <1>7, <1>8, <1>9, <1>10 DEF ConfigInv

\* writeFile() fills the file.
LEMMA WriteInv == ASSUME ConfigInv, NEW p \in Processes, Write(p) PROVE ConfigInv'
<1> DEFINE v == After(p, rot[p].rotated)
           next == rot[p].next
<1>1. rot[p] \in Rotation /\ rot[p].rotated \in BOOLEAN /\ next \in Data
  BY DEF ConfigInv, ConfigTypeOK, Rotation
<1>2. v \in Rotation /\ v.pc \in {"asleep", "reload"}
  BY <1>1, AfterTyped DEF ConfigInv
<1>3. /\ rot' = [rot EXCEPT ![p] = v]
      /\ file' = Overwritten(file, next)
      /\ latest' = IF next > latest THEN next ELSE latest
      /\ rot[p].pc = "writing"
      /\ UNCHANGED <<published, overlap, cut, sentry>>
  BY Zenon DEF Write
<1> HIDE DEF v
<1>4. /\ rot' \in [Processes -> Rotation] /\ rot'[p] = v
      /\ \A q \in Processes \ {p} : rot'[q] = rot[q]
  BY <1>2, <1>3, RotEffect, Zenon DEF ConfigInv
<1>5. next <= published /\ latest <= published
  BY <1>3 DEF ConfigInv
<1> HIDE DEF next
<1>6. /\ latest \in Nat /\ published \in Nat /\ next \in Nat /\ latest' \in Data
  BY <1>1, <1>3, SystemConfigAssumption DEF ConfigInv, ConfigTypeOK, Data
<1>7. /\ file' \in File /\ file'.data \in {0, next}
      /\ file.state # "ok" => file'.state = "ok" /\ file'.data = next
  BY <1>1, <1>3, SystemConfigAssumption DEF Overwritten, Broken, Whole, File, Data
<1>8. ConfigTypeOK'
  BY <1>3, <1>4, <1>6, <1>7 DEF ConfigInv, ConfigTypeOK
<1>9. ASSUME ~overlap, ~cut
      PROVE  /\ file.state = "broken" /\ next >= latest
             /\ \A q \in Processes : ~Rotating(q)'
  BY <1>2, <1>3, <1>4, <1>9 DEF ConfigInv, Undisturbed, Rotating, next
<1>10. ~overlap' /\ ~cut' => Undisturbed'
  BY <1>3, <1>9 DEF Undisturbed, Rotating
<1>11. FileKeepsNewest'
  BY <1>3, <1>6, <1>7, <1>9 DEF FileKeepsNewest
<1>12. latest' <= published /\ file'.data <= published
  BY <1>3, <1>5, <1>6, <1>7
<1> QED
  BY <1>2, <1>3, <1>4, <1>8, <1>10, <1>11, <1>12 DEF ConfigInv

\* Every step of ConfigSpec preserves the invariant.
LEMMA ConfigNextInv == ConfigInv /\ [ConfigNext]_configVars => ConfigInv'
<1> SUFFICES ASSUME ConfigInv, [ConfigNext]_configVars PROVE ConfigInv'
  OBVIOUS
<1> USE SystemConfigAssumption
<1>1. CASE Publish
  <2>1. published \in Nat /\ latest \in Nat /\ file.data \in Nat /\ published' \in Data
        /\ published < published'
    BY <1>1 DEF Publish, ConfigInv, ConfigTypeOK, Data, File
  <2>2. ConfigTypeOK'
    BY <1>1, <2>1 DEF Publish, ConfigInv, ConfigTypeOK
  <2>3. latest' <= published' /\ file'.data <= published'
    BY <1>1, <2>1 DEF Publish, ConfigInv
  <2>4. \A p \in Processes : rot[p].seen \in Nat /\ rot[p].next \in Nat
    BY DEF ConfigInv, ConfigTypeOK, Rotation, Data
  <2>5. \A p \in Processes :
          /\ rot'[p].pc = "fetch" => rot'[p].seen <= published'
          /\ rot'[p].pc \in {"open", "writing"} => rot'[p].next <= published'
    BY <1>1, <2>1, <2>4 DEF Publish, ConfigInv
  <2>6. FileKeepsNewest' /\ (~overlap' /\ ~cut' => Undisturbed')
    BY <1>1 DEF Publish, ConfigInv, FileKeepsNewest, Undisturbed, Rotating
  <2> QED
    BY <2>2, <2>3, <2>5, <2>6 DEF ConfigInv
<1>2. CASE HourPasses
  <2>1. /\ file \in File /\ file.state = "ok" /\ file' = [file EXCEPT !.old = TRUE]
        /\ UNCHANGED <<published, latest, overlap, cut, rot, sentry>>
    BY <1>2 DEF HourPasses, ConfigInv, ConfigTypeOK
  <2>2. file' \in File /\ file'.state = "ok" /\ file'.data = file.data
    BY <2>1, Zenon DEF File
  <2>3. ConfigTypeOK'
    BY <2>1, <2>2 DEF ConfigInv, ConfigTypeOK
  <2> QED
    BY <2>1, <2>2, <2>3 DEF ConfigInv, FileKeepsNewest, Undisturbed, Rotating
<1>3. ASSUME NEW p \in Processes, Read(p) \/ Wake(p) PROVE ConfigInv'
  <2> DEFINE v == [rot[p] EXCEPT !.pc = "load"]
  <2>1. rot[p] \in Rotation
    BY DEF ConfigInv, ConfigTypeOK
  <2>2. v \in Rotation /\ v.pc = "load"
    BY <2>1 DEF Rotation
  <2>3. /\ rot' = [rot EXCEPT ![p] = v] /\ rot[p].pc # "writing"
        /\ UNCHANGED <<file, published, latest, overlap, cut, sentry>>
    BY <1>3, <2>1 DEF Read, Wake, ConfigInv, ConfigTypeOK, Rotation
  <2> HIDE DEF v
  <2> QED
    BY <2>2, <2>3, StopsRotating, Zenon DEF ConfigInv, ConfigTypeOK
<1>4. ASSUME NEW p \in Processes, Reload(p) PROVE ConfigInv'
  <2> DEFINE v == [rot[p] EXCEPT !.pc = IF rot[p].background THEN "asleep" ELSE "load",
                                 !.background = TRUE]
  <2>1. rot[p] \in Rotation
    BY DEF ConfigInv, ConfigTypeOK
  <2>2. v \in Rotation /\ v.pc \in {"asleep", "load"}
    BY <2>1, Zenon DEF Rotation
  <2>3. /\ rot' = [rot EXCEPT ![p] = v] /\ rot[p].pc # "writing"
        /\ UNCHANGED <<file, published, latest, overlap, cut>>
    BY <1>4, <2>1, Zenon DEF Reload, ConfigInv, ConfigTypeOK, Rotation
  <2>4. sentry' \in [Processes -> Data \union {-1}]
    BY <1>4 DEF Reload, GetConfigFile, ConfigInv, ConfigTypeOK, File
  <2> HIDE DEF v
  <2> QED
    BY <2>2, <2>3, <2>4, StopsRotating, Zenon DEF ConfigInv, ConfigTypeOK
<1>5. ASSUME NEW p \in Processes, Vanish(p) PROVE ConfigInv'
  <2> DEFINE v == [Idle EXCEPT !.pc = "gone"]
  <2>1. v \in Rotation /\ v.pc = "gone"
    <3>1. 0 \in Data
      BY DEF Data
    <3> QED
      BY <3>1, Zenon DEF Rotation, Idle
  <2>2. /\ rot' = [rot EXCEPT ![p] = v]
        /\ UNCHANGED <<file, published, latest, overlap>>
    BY <1>5, Zenon DEF Vanish
  <2>3. cut' \in BOOLEAN /\ (cut => cut') /\ (rot[p].pc = "writing" => cut')
    BY <1>5, Zenon DEF Vanish
  <2>4. sentry' \in [Processes -> Data \union {-1}]
    BY <1>5 DEF Vanish, ConfigInv, ConfigTypeOK
  <2> HIDE DEF v
  <2> QED
    BY <2>1, <2>2, <2>3, <2>4, StopsRotating, Zenon
<1>6. ASSUME NEW p \in Processes, OpenFails(p) \/ WriteFails(p) PROVE ConfigInv'
  <2>1. rot[p].rotated \in BOOLEAN
    BY DEF ConfigInv, ConfigTypeOK, Rotation
  <2>2. /\ After(p, rot[p].rotated) \in Rotation
        /\ After(p, rot[p].rotated).pc \in {"asleep", "reload"}
    BY <2>1, AfterTyped DEF ConfigInv
  <2> QED
    BY <1>6, <2>2, StopsRotating, Zenon DEF OpenFails, WriteFails, ConfigInv, ConfigTypeOK
<1>7. CASE UNCHANGED configVars
  BY <1>7 DEF configVars, ConfigInv, ConfigTypeOK, FileKeepsNewest, Undisturbed, Rotating
<1> QED
  BY <1>1, <1>2, <1>3, <1>4, <1>5, <1>6, <1>7, LoadInv, FetchInv, OpenInv, WriteInv
     DEF ConfigNext, Rotate

\* The inductive invariant of the file.
THEOREM ConfigInvariant == ConfigSpec => []ConfigInv
<1> QED
  BY ConfigInitInv, ConfigNextInv, PTL DEF ConfigSpec

\* rotateIfNecessary() leaves the newest configuration, if nothing disturbs it.
THEOREM ConfigFileKeepsNewest == ConfigSpec => []FileKeepsNewest
<1>1. ConfigInv => FileKeepsNewest
  BY DEF ConfigInv
<1> QED
  BY <1>1, ConfigInvariant, PTL

(* Neither the file nor Sentry has a configuration that is newer than the  *)
(* newest one written, and without a file there never was one.             *)
SentryInv ==
  /\ file.data <= latest
  /\ \A p \in Processes : sentry[p] <= latest
  /\ file.state = "absent" => \A p \in Processes : sentry[p] = -1

\* What initSentry() gets.
LEMMA ReloadEffect ==
  ASSUME ConfigInv, NEW p \in Processes, Reload(p)
  PROVE  /\ sentry'[p] = IF file.state = "ok" THEN file.data ELSE -1
         /\ \A q \in Processes \ {p} : sentry'[q] = sentry[q]
         /\ UNCHANGED <<file, latest>>
  BY DEF Reload, GetConfigFile, ConfigInv, ConfigTypeOK

\* A process that is gone has no Sentry.
LEMMA VanishEffect ==
  ASSUME ConfigInv, NEW p \in Processes, Vanish(p)
  PROVE  /\ sentry'[p] = -1 /\ rot'[p].pc = "gone"
         /\ \A q \in Processes \ {p} : sentry'[q] = sentry[q]
         /\ UNCHANGED <<file, latest>>
  BY DEF Vanish, Idle, ConfigInv, ConfigTypeOK

\* SentryInv is preserved.
LEMMA SentryStep == ConfigInv /\ SentryInv /\ [ConfigNext]_configVars => SentryInv'
<1> SUFFICES ASSUME ConfigInv, SentryInv, [ConfigNext]_configVars PROVE SentryInv'
  OBVIOUS
<1>1. /\ file \in File /\ file.data \in Nat /\ latest \in Nat
      /\ \A p \in Processes : sentry[p] \in Int
  BY SystemConfigAssumption DEF ConfigInv, ConfigTypeOK, File, Data
<1>2. CASE UNCHANGED <<file, latest, sentry>>
  BY <1>2 DEF SentryInv
<1>3. CASE HourPasses
  <2>1. file'.data = file.data /\ file'.state = "ok" /\ UNCHANGED <<latest, sentry>>
    BY <1>1, <1>3 DEF HourPasses, File
  <2> QED
    BY <2>1 DEF SentryInv
<1>4. ASSUME NEW p \in Processes, Open(p) PROVE SentryInv'
  BY <1>1, <1>4 DEF Open, Broken, SentryInv
<1>5. ASSUME NEW p \in Processes, Write(p) PROVE SentryInv'
  <2> DEFINE next == rot[p].next
  <2>1. next \in Nat
    BY SystemConfigAssumption DEF ConfigInv, ConfigTypeOK, Rotation, Data
  <2>2. /\ file' = Overwritten(file, next) /\ UNCHANGED sentry
        /\ latest' = IF next > latest THEN next ELSE latest
    BY <1>5 DEF Write
  <2> HIDE DEF next
  <2>3. latest' >= latest /\ latest' >= next /\ latest' \in Nat
    BY <1>1, <2>1, <2>2
  <2>4. file'.data \in {0, next} /\ file'.state # "absent"
    BY <2>2 DEF Overwritten, Broken, Whole
  <2>5. \A q \in Processes : sentry'[q] <= latest'
    BY <1>1, <2>2, <2>3 DEF SentryInv
  <2> QED
    BY <2>1, <2>3, <2>4, <2>5 DEF SentryInv
<1>6. ASSUME NEW p \in Processes, Reload(p) PROVE SentryInv'
  BY <1>1, <1>6, ReloadEffect DEF SentryInv
<1>7. ASSUME NEW p \in Processes, Vanish(p) PROVE SentryInv'
  BY <1>1, <1>7, VanishEffect DEF SentryInv
<1>8. ASSUME NEW p \in Processes,
             \/ Read(p) \/ Wake(p) \/ Load(p) \/ OpenFails(p) \/ WriteFails(p)
             \/ \E answered \in BOOLEAN : FetchNewConfig(p, answered)
      PROVE  UNCHANGED <<file, latest, sentry>>
  BY <1>8, Zenon DEF Read, Wake, Load, OpenFails, WriteFails, FetchNewConfig
<1>9. Publish => UNCHANGED <<file, latest, sentry>>
  BY DEF Publish
<1>10. UNCHANGED configVars => UNCHANGED <<file, latest, sentry>>
  BY DEF configVars
<1> QED
  BY <1>2, <1>3, <1>4, <1>5, <1>6, <1>7, <1>8, <1>9, <1>10 DEF ConfigNext, Rotate

\* Whatever others write, Sentry gets a configuration that is no older, if
\* nothing disturbs the file.
THEOREM ConfigSentryKeepsUp == ConfigSpec => SentryKeepsUp
<1> DEFINE Keeps == (~overlap /\ ~cut /\ file.state # "broken")
             => \A p \in Processes : rot'[p].pc = "gone" \/ sentry'[p] >= sentry[p]
<1>1. ConfigInv /\ SentryInv /\ [ConfigNext]_configVars => [Keeps]_configVars
  <2> SUFFICES ASSUME ConfigInv, SentryInv, ConfigNext, ~overlap, ~cut,
                      file.state # "broken", NEW q \in Processes
               PROVE  rot'[q].pc = "gone" \/ sentry'[q] >= sentry[q]
    OBVIOUS
  <2>1. /\ file.state \in {"absent", "ok"} /\ sentry[q] \in Int
    BY SystemConfigAssumption DEF ConfigInv, ConfigTypeOK, File, Data
  <2>2. CASE UNCHANGED sentry
    BY <2>1, <2>2
  <2>3. ASSUME NEW p \in Processes, Reload(p) PROVE sentry'[q] >= sentry[q]
    <3>1. CASE p # q
      BY <2>1, <2>3, <3>1, ReloadEffect
    <3>2. CASE p = q /\ file.state = "absent"
      BY <2>3, <3>2, ReloadEffect DEF SentryInv
    <3>3. CASE p = q /\ file.state = "ok"
      <4>1. \A r \in Processes : rot[r].pc # "writing"
        BY DEF ConfigInv, Undisturbed
      <4>2. file.data = latest
        BY <3>3, <4>1 DEF ConfigInv, FileKeepsNewest
      <4>3. sentry[q] <= latest /\ sentry'[q] = latest
        BY <2>3, <3>3, <4>2, ReloadEffect DEF SentryInv
      <4> QED
        BY <4>3
    <3> QED
      BY <2>1, <3>1, <3>2, <3>3
  <2>4. ASSUME NEW p \in Processes, Vanish(p)
        PROVE  rot'[q].pc = "gone" \/ sentry'[q] >= sentry[q]
    BY <2>1, <2>4, VanishEffect
  <2>5. ASSUME NEW p \in Processes, Read(p) \/ Wake(p) \/ Rotate(p)
        PROVE  UNCHANGED sentry
    BY <2>5, Zenon DEF Read, Wake, Rotate, Load, FetchNewConfig, OpenFails, Open, Write,
                       WriteFails
  <2>6. Publish \/ HourPasses => UNCHANGED sentry
    BY DEF Publish, HourPasses
  <2> QED
    BY <2>2, <2>3, <2>4, <2>5, <2>6 DEF ConfigNext
<1>2. ConfigInit => SentryInv
  BY DEF ConfigInit, SentryInv, Absent, Broken, Whole
<1> QED
  BY <1>1, <1>2, SentryStep, ConfigInvariant, PTL DEF ConfigSpec, SentryKeepsUp

-----------------------------------------------------------------------------
(* The processes implement the rotation of the file *)

\* The end of a handler ends the rotation or leaves it alone.
LEMMA ReturnConfig ==
  ASSUME NEW p \in Processes, NEW r, NEW code, Return(p, r, code)
  PROVE  [ConfigNext]_configVars
<1>1. Vanish(p) => ConfigNext
  BY Zenon DEF ConfigNext
<1> QED
  BY <1>1 DEF Return, Exit

\* Whatever a process does besides, ~/.brightclirc changes by a step of the
\* rotation only.
LEMMA NextConfig == [Next]_vars => [ConfigNext]_configVars
<1> SUFFICES ASSUME [Next]_vars PROVE [ConfigNext]_configVars
  OBVIOUS
<1>1. CASE UNCHANGED vars
  BY <1>1 DEF vars
<1>2. CASE (Publish \/ HourPasses) \/ DiskChanges
  BY <1>2 DEF DiskChanges, ConfigNext
<1>3. ASSUME NEW p \in Processes, UsageFails(p) \/ LogFileFails(p) \/ Start(p)
      PROVE  ConfigNext
  BY <1>3, Zenon DEF UsageFails, LogFileFails, Start, Exit, ConfigNext
<1>4. ASSUME NEW p \in Processes, ConfigRead(p) \/ RotationStep(p)
      PROVE  ConfigNext
  BY <1>4, Zenon DEF ConfigRead, RotationStep, ConfigNext
<1>5. ASSUME NEW p \in Processes, HandlerStep(p)
      PROVE  [ConfigNext]_configVars
  <2>1. ASSUME NEW found \in BOOLEAN, LookupEnds(p, found) PROVE [ConfigNext]_configVars
    BY <2>1, ReturnConfig DEF LookupEnds, Fail
  <2>2. CASE Access(p) \/ Stat(p) \/ ReadFile(p)
    BY <2>2, ReturnConfig DEF Access, Stat, ReadFile, Fail
  <2>3. CASE Serve(p) \/ Page(p) \/ LogWritten(p)
    BY <2>3, Zenon DEF Serve, Page, LogWritten
  <2>4. CASE Answered(p) \/ CallFails(p)
    BY <2>4, ReturnConfig DEF Answered, CallFails, Succeed, Fail
  <2>5. CASE RunsEmpty(p)
    BY <2>5, Zenon DEF RunsEmpty, Exit, ConfigNext
  <2> QED
    BY <1>5, <2>1, <2>2, <2>3, <2>4, <2>5 DEF HandlerStep
<1>6. ASSUME NEW p \in Processes,
             LogFails(p) \/ Interrupted(p) \/ \E code \in {0, 1} : ServingEnds(p, code)
      PROVE  ConfigNext
  BY <1>6, Zenon DEF LogFails, Interrupted, ServingEnds, Exit, ConfigNext
<1> QED
  BY <1>1, <1>2, <1>3, <1>4, <1>5, <1>6, Zenon DEF Next

\* Every behaviour of the processes is one of the rotation.
THEOREM SpecImplementsConfig == Spec => ConfigSpec
<1>1. Init => ConfigInit
  BY DEF Init
<1> QED
  BY <1>1, NextConfig, PTL DEF Spec, ConfigSpec

\* FileKeepsNewest holds beside the handlers, exits and signals.
THEOREM SpecFileKeepsNewest == Spec => []FileKeepsNewest
  BY SpecImplementsConfig, ConfigFileKeepsNewest, PTL

\* SentryKeepsUp holds beside the handlers, exits and signals.
THEOREM SpecSentryKeepsUp == Spec => SentryKeepsUp
  BY SpecImplementsConfig, ConfigSentryKeepsUp, PTL

-----------------------------------------------------------------------------
(* The list of entry points *)

\* Where the handler is and where the rotation is.
Coupled(r, t) ==
  /\ r.exit = -1 <=> r.pc # "ended"
  /\ r.pc = "ended" <=> t.pc = "gone"
  /\ r.pc = "new" <=> t.pc = "off"
  /\ r.pc \in {"new", "config"} => t.background = FALSE
  /\ r.pc \notin {"new", "config", "ended"} => t.background = TRUE

\* What ListExact says of a process.
Exact(limit, r) ==
  LET most == IF limit < 0 THEN 0 ELSE limit
  IN /\ Len(r.list) <= most
     /\ r.full => Len(r.list) = IF Total < most THEN Total ELSE most

(* The loop of entrypoints(): what is there and what remains make at most  *)
(* the limit, and exactly the limit if the pages are full and there is     *)
(* more to come.                                                           *)
Looping(limit, r) ==
  /\ r.remaining > 0 /\ Len(r.list) + r.remaining <= limit
  /\ r.full => Len(r.list) = Total \/ Len(r.list) + r.remaining = limit

ListGood(a, r) ==
  IF a.cmd = "entrypoints:list"
    THEN /\ r.pc \in {"new", "config", "page", "returned", "ended"}
         /\ r.list = [i \in 1..Len(r.list) |-> i]
         /\ r.pc \in {"new", "config"} => r.list = <<>>
         /\ r.pc \in {"new", "config", "page"} => r.printed = FALSE
         /\ r.pc = "page" => Looping(a.limit, r)
         /\ r.printed = TRUE => Exact(a.limit, r)
    ELSE /\ r.pc # "page"
         /\ r.pc \in {"lookup", "access", "stat", "readFile", "call", "served"}
              => a.cmd \in Effects
         /\ r.pc \notin {"new", "ended"} => a.cmd # "none"

CliInv ==
  /\ ConfigInv
  /\ args \in Invocations
  /\ disk \in Documents \union {NoDocument}
  /\ run \in [Processes -> Run]
  /\ \A p \in Processes : Coupled(run[p], rot[p]) /\ ListGood(args[p], run[p])

\* Before the processes start.
LEMMA CliInitInv == Init => CliInv
<1> SUFFICES ASSUME Init PROVE CliInv
  OBVIOUS
<1>1. ConfigInv
  BY ConfigInitInv DEF Init
<1>2. PICK full \in BOOLEAN : run = [p \in Processes |->
         [pc |-> "new", content |-> NoDocument, list |-> <<>>, remaining |-> 0,
          full |-> full, printed |-> FALSE, code |-> 0, exit |-> -1,
          reason |-> "none"]]
  BY Zenon DEF Init
<1> DEFINE r == [pc |-> "new", content |-> NoDocument, list |-> <<>>, remaining |-> 0,
                 full |-> full, printed |-> FALSE, code |-> 0, exit |-> -1,
                 reason |-> "none"]
<1>3. r \in Run
  BY DEF Run, RunPc
<1>4. r.pc = "new" /\ r.list = <<>> /\ r.printed = FALSE /\ r.exit = -1
  OBVIOUS
<1>5. run = [p \in Processes |-> r]
  BY <1>2
<1> HIDE DEF r
<1>6. \A p \in Processes : rot[p].pc = "off" /\ rot[p].background = FALSE
  BY DEF Init, ConfigInit, Idle
<1>7. \A p \in Processes : Coupled(r, rot[p])
  BY <1>4, <1>6 DEF Coupled
<1>8. <<>> = [i \in 1..Len(<<>>) |-> i]
  OBVIOUS
<1>9. \A p \in Processes : ListGood(args[p], r)
  BY <1>4, <1>8 DEF ListGood
<1>10. disk \in Documents \union {NoDocument} /\ args \in Invocations
  BY DEF Init
<1> QED
  BY <1>1, <1>3, <1>5, <1>7, <1>9, <1>10 DEF CliInv

\* A step of one process, which its rotation may take part in.
LEMMA StepInv ==
  ASSUME CliInv, [Next]_vars, NEW p \in Processes, NEW w \in Run,
         run' = [run EXCEPT ![p] = w],
         \A q \in Processes \ {p} : rot'[q] = rot[q],
         Coupled(w, rot'[p]), ListGood(args[p], w), UNCHANGED <<args, disk>>
  PROVE  CliInv'
<1>1. ConfigInv'
  BY NextConfig, ConfigNextInv DEF CliInv
<1>2. run' \in [Processes -> Run] /\ run'[p] = w
      /\ \A q \in Processes \ {p} : run'[q] = run[q]
  BY DEF CliInv
<1>3. \A q \in Processes : Coupled(run'[q], rot'[q]) /\ ListGood(args[q], run'[q])
  BY <1>2 DEF CliInv
<1> QED
  BY <1>1, <1>2, <1>3 DEF CliInv

\* What leaves the list alone, and ends the handler or goes on as before.
LEMMA KeepsList ==
  ASSUME NEW a, NEW r, NEW w, ListGood(a, r),
         w.list = r.list, w.full = r.full, w.remaining = r.remaining,
         w.printed = r.printed,
         \/ w.pc \in {"ended", r.pc}
         \/ w.pc = "returned" /\ a.cmd = "entrypoints:list"
         \/ r.pc = "new" /\ w.pc = "config" /\ a.cmd # "none"
  PROVE  ListGood(a, w)
  BY DEF ListGood, Looping, Exact

\* r differs from the process p at most in what it logs and prints, and lists
\* nothing new.
Ending(p, r) ==
  /\ r \in Run /\ r.list = run[p].list /\ r.full = run[p].full
  /\ r.remaining = run[p].remaining
  /\ args[p].cmd = "entrypoints:list" => r.printed = run[p].printed

\* process.exit() and the end of a process that runs empty.
LEMMA ExitInv ==
  ASSUME CliInv, [Next]_vars, NEW p \in Processes, NEW r, Ending(p, r),
         NEW code \in {-2, 0, 1}, Exit(p, r, code), UNCHANGED <<args, disk>>
  PROVE  CliInv'
<1> DEFINE why == IF r.reason = "queued" THEN "lost" ELSE r.reason
           w == [r EXCEPT !.pc = "ended", !.exit = code, !.reason = why]
<1>1. why \in {"none", "stderr", "silent", "queued", "written", "lost", "crash"}
  BY DEF Ending, Run
<1> HIDE DEF why
<1>2. /\ w \in Run /\ w.pc = "ended" /\ w.exit = code /\ w.list = r.list
      /\ w.full = r.full /\ w.remaining = r.remaining /\ w.printed = r.printed
  BY <1>1, Zenon DEF Ending, Run, RunPc
<1>3. run' = [run EXCEPT ![p] = w]
  BY DEF Exit, Ending, Run, why
<1> HIDE DEF w
<1>4. /\ rot'[p].pc = "gone"
      /\ \A q \in Processes \ {p} : rot'[q] = rot[q]
  BY DEF Exit, Vanish, Idle, CliInv, ConfigInv, ConfigTypeOK
<1>5. Coupled(w, rot'[p])
  BY <1>2, <1>4 DEF Coupled
<1>6. ListGood(args[p], w)
  <2>1. CASE args[p].cmd = "entrypoints:list"
    <3>1. ListGood(args[p], run[p])
      BY DEF CliInv
    <3> QED
      BY <1>2, <2>1, <3>1, KeepsList DEF Ending
  <2>2. CASE args[p].cmd # "entrypoints:list"
    BY <1>2, <2>2 DEF ListGood
  <2> QED
    BY <2>1, <2>2
<1> QED
  BY <1>2, <1>3, <1>4, <1>5, <1>6, StepInv, Zenon

\* The end of a handler, of either kind.
LEMMA ReturnInv ==
  ASSUME CliInv, [Next]_vars, NEW p \in Processes, NEW r, Ending(p, r),
         NEW code \in {0, 1}, Return(p, r, code), UNCHANGED <<args, disk>>,
         run[p].pc \notin {"new", "config", "ended"}, r.exit = run[p].exit
  PROVE  CliInv'
<1>1. CASE HandlerOf(args[p].cmd).exits
  BY <1>1, ExitInv DEF Return
<1>2. CASE ~HandlerOf(args[p].cmd).exits
  <2> DEFINE w == [r EXCEPT !.pc = "returned", !.code = code]
  <2>1. /\ w \in Run /\ w.pc = "returned" /\ w.exit = r.exit /\ w.list = r.list
        /\ w.full = r.full /\ w.remaining = r.remaining /\ w.printed = r.printed
    BY Zenon DEF Ending, Run, RunPc
  <2>2. run' = [run EXCEPT ![p] = w] /\ UNCHANGED configVars
    BY <1>2, Zenon DEF Return
  <2> HIDE DEF w
  <2>3. \A q \in Processes : rot'[q] = rot[q]
    BY <2>2 DEF configVars
  <2>4. Coupled(w, rot'[p])
    BY <2>1, <2>3 DEF CliInv, Coupled
  <2>5. ListGood(args[p], w)
    <3>1. CASE args[p].cmd = "entrypoints:list"
      <4>1. ListGood(args[p], run[p])
        BY DEF CliInv
      <4> QED
        BY <2>1, <3>1, <4>1, KeepsList DEF Ending
    <3>2. CASE args[p].cmd # "entrypoints:list"
      <4>1. ListGood(args[p], run[p])
        BY DEF CliInv
      <4> QED
        BY <2>1, <3>2, <4>1 DEF ListGood
    <3> QED
      BY <3>1, <3>2
  <2> QED
    BY <2>1, <2>2, <2>3, <2>4, <2>5, StepInv, Zenon
<1> QED
  BY <1>1, <1>2

\* The errors of a handler.
LEMMA FailInv ==
  ASSUME CliInv, [Next]_vars, NEW p \in Processes, Fail(p), UNCHANGED <<args, disk>>,
         run[p].pc \notin {"new", "config", "ended"}
  PROVE  CliInv'
<1> DEFINE r == [run[p] EXCEPT !.reason = Logged(p)]
<1>1. run[p] \in Run
  BY DEF CliInv
<1>2. Logged(p) \in {"silent", "queued", "stderr"}
  BY DEF Logged
<1>3. Ending(p, r) /\ r.exit = run[p].exit
  BY <1>1, <1>2 DEF Ending, Run
<1>4. Return(p, r, 1)
  BY DEF Fail
<1> HIDE DEF r
<1> QED
  BY <1>3, <1>4, ReturnInv

\* A step of a handler that only moves on, of a command that asks for an effect.
LEMMA MoveInv ==
  ASSUME CliInv, [Next]_vars, NEW p \in Processes, NEW w \in Run,
         run' = [run EXCEPT ![p] = w], UNCHANGED configVars, UNCHANGED <<args, disk>>,
         args[p].cmd \in Effects, w.exit = run[p].exit,
         run[p].pc \notin {"new", "config", "ended"},
         w.pc \notin {"new", "config", "ended", "page"}
  PROVE  CliInv'
<1>1. \A q \in Processes : rot'[q] = rot[q]
  BY DEF configVars
<1>2. Coupled(w, rot'[p])
  BY <1>1 DEF CliInv, Coupled
<1>3. args[p].cmd \notin {"entrypoints:list", "none"}
  BY DEF Effects, Creates
<1>4. ListGood(args[p], w)
  BY <1>3 DEF ListGood
<1> QED
  BY <1>1, <1>2, <1>4, StepInv, Zenon

\* Entry points one after the other stay so when the next ones are added.
LEMMA Consecutive ==
  ASSUME NEW s \in Seq(1..Total), s = [i \in 1..Len(s) |-> i],
         NEW n \in Nat, Len(s) + n <= Total
  PROVE  LET t == s \o [i \in 1..n |-> Len(s) + i]
         IN  /\ t \in Seq(1..Total) /\ Len(t) = Len(s) + n
             /\ t = [i \in 1..Len(t) |-> i]
<1> USE CliAssumption
<1> DEFINE u == [i \in 1..n |-> Len(s) + i]
           t == s \o u
<1>1. u \in Seq(1..Total) /\ Len(u) = n
  OBVIOUS
<1>2. t \in Seq(1..Total) /\ Len(t) = Len(s) + n
  BY <1>1
<1>3. \A i \in 1..Len(t) : t[i] = i
  <2> SUFFICES ASSUME NEW i \in 1..Len(t) PROVE t[i] = i
    OBVIOUS
  <2>1. CASE i <= Len(s)
    BY <1>1, <1>2, <2>1
  <2>2. CASE i > Len(s)
    <3>1. t[i] = u[i - Len(s)]
      BY <1>1, <1>2, <2>2
    <3> QED
      BY <1>2, <2>2, <3>1
  <2> QED
    BY <1>2, <2>1, <2>2
<1> HIDE DEF t
<1>4. t = [i \in 1..Len(t) |-> i]
  BY <1>2, <1>3
<1> QED
  BY <1>2, <1>4 DEF t

\* The last entry point that is there is as many as there are.
LEMMA LastIsLength ==
  ASSUME NEW s \in Seq(1..Total), s = [i \in 1..Len(s) |-> i]
  PROVE  /\ (IF s = <<>> THEN 0 ELSE s[Len(s)]) = Len(s)
         /\ Len(s) \in Nat /\ Len(s) <= Total
<1> USE CliAssumption
<1>1. CASE s = <<>>
  BY <1>1
<1>2. CASE s # <<>>
  <2>1. Len(s) \in 1..Len(s)
    BY <1>2
  <2>2. s[Len(s)] = Len(s)
    BY <2>1
  <2>3. s[Len(s)] \in 1..Total
    BY <2>1
  <2> QED
    BY <1>2, <2>1, <2>2, <2>3
<1> QED
  BY <1>1, <1>2

\* What a turn of the loop of entrypoints() that gets n entry points leaves.
TurnOK(len, remaining, limit, full, n) ==
  LET left == IF n = 0 THEN 0 ELSE remaining - Batch
  IN  /\ len + n <= Total
      /\ left > 0 =>
           /\ len + n + left <= limit
           /\ full => len + n = Total \/ len + n + left = limit
      /\ left <= 0 =>
           /\ limit >= 0 /\ len + n <= limit
           /\ full => len + n = IF Total < limit THEN Total ELSE limit

\* Its arithmetic.
LEMMA PageArithmetic ==
  ASSUME NEW len \in Nat, NEW remaining \in Int, NEW limit \in Int, NEW full \in BOOLEAN,
         remaining > 0, len + remaining <= limit, len <= Total,
         full => len = Total \/ len + remaining = limit,
         NEW n \in Nat, NEW most \in Nat, n <= most, full => n = most,
         most = IF Total - len < Asked(remaining) THEN Total - len ELSE Asked(remaining)
  PROVE  TurnOK(len, remaining, limit, full, n)
<1> USE DEF TurnOK
<1>1. Batch \in Nat /\ Batch > 0 /\ Total \in Nat
  BY CliAssumption
<1>2. CASE remaining < Batch
  <2>1. Asked(remaining) = remaining
    BY <1>2 DEF Asked
  <2> QED
    BY <1>1, <1>2, <2>1
<1>3. CASE ~(remaining < Batch)
  <2>1. Asked(remaining) = Batch
    BY <1>3 DEF Asked
  <2> QED
    BY <1>1, <1>3, <2>1
<1> QED
  BY <1>2, <1>3

\* The next turn of the loop, or its end.
LEMMA NextPageGood ==
  ASSUME NEW a, a.cmd = "entrypoints:list", NEW r \in Run, r.exit = -1, r.printed = FALSE,
         r.list = [i \in 1..Len(r.list) |-> i],
         r.remaining > 0 => Looping(a.limit, r),
         r.remaining <= 0 => Exact(a.limit, r)
  PROVE  /\ NextPage(r) \in Run /\ ListGood(a, NextPage(r))
         /\ NextPage(r).pc \in {"page", "returned"} /\ NextPage(r).exit = -1
<1>1. r.remaining \in Int
  BY DEF Run
<1>2. CASE r.remaining > 0
  <2> DEFINE w == [r EXCEPT !.pc = "page"]
  <2>1. /\ w \in Run /\ w.pc = "page" /\ w.list = r.list /\ w.full = r.full
        /\ w.remaining = r.remaining /\ w.printed = FALSE /\ w.exit = -1
    BY DEF Run, RunPc
  <2>2. NextPage(r) = w
    BY <1>2 DEF NextPage
  <2> HIDE DEF w
  <2>3. ListGood(a, w)
    BY <1>2, <2>1 DEF ListGood, Looping
  <2> QED
    BY <2>1, <2>2, <2>3
<1>3. CASE ~(r.remaining > 0)
  <2> DEFINE w == [r EXCEPT !.pc = "returned", !.printed = TRUE]
  <2>1. /\ w \in Run /\ w.pc = "returned" /\ w.list = r.list /\ w.full = r.full
        /\ w.remaining = r.remaining /\ w.exit = -1
    BY Zenon DEF Run, RunPc
  <2>2. NextPage(r) = w
    BY <1>3 DEF NextPage
  <2>3. Exact(a.limit, r)
    BY <1>1, <1>3
  <2> HIDE DEF w
  <2>4. ListGood(a, w)
    BY <2>1, <2>3 DEF ListGood, Exact
  <2> QED
    BY <2>1, <2>2, <2>4
<1> QED
  BY <1>2, <1>3

\* The arguments of a process.
LEMMA ArgsTyped == ASSUME CliInv, NEW p \in Processes PROVE args[p] \in Arguments
  BY CliAssumption DEF CliInv

\* One turn of the loop of entrypoints().
LEMMA PageInv ==
  ASSUME CliInv, [Next]_vars, NEW p \in Processes, Page(p)
  PROVE  CliInv'
<1> DEFINE r == run[p]
           limit == args[p].limit
<1>1. r \in Run /\ r.pc = "page" /\ Coupled(r, rot[p]) /\ ListGood(args[p], r)
  BY DEF CliInv, Page
<1>2. args[p] \in Arguments /\ limit \in Int
  BY ArgsTyped DEF Arguments
<1>3. /\ UNCHANGED configVars /\ UNCHANGED <<args, disk>>
      /\ \A q \in Processes : rot'[q] = rot[q]
  BY DEF Page, configVars
<1>4. PICK items \in Pages(r) :
        run' = [run EXCEPT ![p] =
          NextPage([r EXCEPT !.list = r.list \o items,
                             !.remaining = IF items = <<>> THEN 0 ELSE r.remaining - Batch])]
  BY Zenon DEF Page
<1> DEFINE left == IF items = <<>> THEN 0 ELSE r.remaining - Batch
           w == [r EXCEPT !.list = r.list \o items, !.remaining = left]
<1>5. r.list \in Seq(1..Total) /\ r.remaining \in Int /\ r.full \in BOOLEAN
  BY <1>1 DEF Run
<1>6. CASE args[p].cmd = "entrypoints:list"
  <2>1. /\ r.list = [i \in 1..Len(r.list) |-> i] /\ r.printed = FALSE
        /\ Looping(limit, r)
    BY <1>1, <1>6 DEF ListGood
  <2> DEFINE len == Len(r.list)
             most == IF Total - len < Asked(r.remaining) THEN Total - len
                     ELSE Asked(r.remaining)
  <2>2. /\ (IF r.list = <<>> THEN 0 ELSE r.list[Len(r.list)]) = len
        /\ len \in Nat /\ len <= Total
    BY <1>5, <2>1, LastIsLength
  <2>3. most \in Nat
    BY <1>5, <2>1, <2>2, CliAssumption DEF Asked, Looping
  <2>4. PICK n \in IF r.full THEN {most} ELSE 0..most : items = [i \in 1..n |-> len + i]
    BY <1>4, <2>2 DEF Pages
  <2> HIDE DEF most
  <2>5. n \in Nat /\ n <= most /\ (r.full => n = most)
    BY <1>5, <2>3, <2>4
  <2>6. items = <<>> <=> n = 0
    BY <2>4, <2>5
  <2> HIDE DEF len
  <2>7. TurnOK(len, r.remaining, limit, r.full, n)
    <3>1. /\ r.remaining > 0 /\ len + r.remaining <= limit
          /\ r.full => len = Total \/ len + r.remaining = limit
      BY <2>1 DEF Looping, len
    <3>2. most = IF Total - len < Asked(r.remaining) THEN Total - len ELSE Asked(r.remaining)
      BY DEF most
    <3> HIDE DEF r, limit
    <3> QED
      BY <1>2, <1>5, <2>2, <2>3, <2>5, <3>1, <3>2, PageArithmetic, Zenon
  <2>8. /\ len + n <= Total
        /\ left > 0 =>
             /\ len + n + left <= limit
             /\ r.full => len + n = Total \/ len + n + left = limit
        /\ left <= 0 =>
             /\ limit >= 0 /\ len + n <= limit
             /\ r.full => len + n = IF Total < limit THEN Total ELSE limit
    BY <2>6, <2>7, Zenon DEF TurnOK
  <2> DEFINE t == r.list \o items
  <2>9. /\ t \in Seq(1..Total) /\ Len(t) = len + n
        /\ t = [i \in 1..Len(t) |-> i]
    BY <1>5, <2>1, <2>4, <2>5, <2>8, Consecutive, Zenon DEF len
  <2>10. left \in Int
    BY <1>5, CliAssumption
  <2> HIDE DEF left, t
  <2>11. /\ w \in Run /\ w.exit = r.exit /\ w.printed = r.printed /\ w.list = t
         /\ w.full = r.full /\ w.remaining = left
    BY <1>1, <2>9, <2>10, Zenon DEF Run, t
  <2>12. r.exit = -1
    BY <1>1 DEF Coupled
  <2> HIDE DEF w
  <2>13. w.remaining > 0 => Looping(limit, w)
    BY <2>8, <2>9, <2>11 DEF Looping
  <2>14. w.remaining <= 0 => Exact(limit, w)
    BY <1>2, <2>8, <2>9, <2>11 DEF Exact
  <2>15. /\ NextPage(w) \in Run /\ ListGood(args[p], NextPage(w))
         /\ NextPage(w).pc \in {"page", "returned"} /\ NextPage(w).exit = -1
    <3>1. w.exit = -1 /\ w.printed = FALSE /\ w.list = [i \in 1..Len(w.list) |-> i]
      BY <2>1, <2>9, <2>11, <2>12
    <3> QED
      BY <1>6, <2>11, <2>13, <2>14, <3>1, NextPageGood, Zenon
  <2>16. Coupled(NextPage(w), rot'[p])
    BY <1>1, <1>3, <2>15 DEF Coupled
  <2>17. run' = [run EXCEPT ![p] = NextPage(w)]
    BY <1>4 DEF w, left
  <2> QED
    BY <1>3, <2>15, <2>16, <2>17, StepInv, Zenon
<1>7. CASE args[p].cmd # "entrypoints:list"
  BY <1>1, <1>7 DEF ListGood
<1> QED
  BY <1>6, <1>7

\* wrapWithSentry() starts the handler once.
LEMMA ConfigReadInv ==
  ASSUME CliInv, [Next]_vars, NEW p \in Processes, ConfigRead(p)
  PROVE  CliInv'
<1> DEFINE r == run[p]
<1>1. /\ r \in Run /\ Coupled(r, rot[p]) /\ ListGood(args[p], r)
      /\ rot \in [Processes -> Rotation] /\ args[p] \in Arguments
  BY ArgsTyped DEF CliInv, ConfigInv, ConfigTypeOK
<1>2. /\ rot[p].pc = "reload" /\ rot'[p].pc \in {"asleep", "load"}
      /\ rot'[p].background = TRUE
      /\ \A q \in Processes \ {p} : rot'[q] = rot[q]
      /\ UNCHANGED <<args, disk>>
  BY <1>1 DEF ConfigRead, Reload, Rotation
<1>3. CASE rot[p].background
  <2>1. run' = [run EXCEPT ![p] = r]
    BY <1>3 DEF ConfigRead, CliInv
  <2>2. Coupled(r, rot'[p])
    BY <1>1, <1>2, <1>3 DEF Coupled
  <2> QED
    BY <1>1, <1>2, <2>1, <2>2, StepInv, Zenon
<1>4. CASE ~rot[p].background
  <2>1. run' = [run EXCEPT ![p] = Handler(p)]
    BY <1>4 DEF ConfigRead
  <2>2. r.pc = "config" /\ r.exit = -1
    <3>1. rot[p].background = FALSE
      BY <1>1, <1>4 DEF Rotation
    <3> QED
      BY <1>1, <1>2, <3>1 DEF Coupled, Run
  <2>3. /\ Handler(p) \in Run /\ ListGood(args[p], Handler(p)) /\ Handler(p).exit = -1
        /\ Handler(p).pc \notin {"new", "config", "ended"}
    <3>1. CASE args[p].cmd = "entrypoints:list"
      <4> DEFINE w == [r EXCEPT !.remaining = args[p].limit]
      <4>1. args[p].limit \in Int
        BY <1>1 DEF Arguments
      <4>2. /\ w \in Run /\ w.exit = -1 /\ w.printed = r.printed /\ w.list = r.list
            /\ w.full = r.full /\ w.remaining = args[p].limit
        BY <1>1, <2>2, <4>1 DEF Run
      <4>3. r.list = <<>> /\ r.printed = FALSE
        BY <1>1, <2>2, <3>1 DEF ListGood
      <4>4. <<>> = [i \in 1..Len(<<>>) |-> i] /\ Len(<<>>) = 0
        OBVIOUS
      <4>5. Handler(p) = NextPage(w)
        BY <3>1 DEF Handler, NextPage, Creates
      <4> HIDE DEF w
      <4>6. w.list = [i \in 1..Len(w.list) |-> i] /\ w.printed = FALSE
        BY <4>2, <4>3, <4>4
      <4>7. w.remaining > 0 => Looping(args[p].limit, w)
        BY <4>1, <4>2, <4>3, <4>4 DEF Looping
      <4>8. w.remaining <= 0 => Exact(args[p].limit, w)
        BY <4>1, <4>2, <4>3, <4>4, CliAssumption DEF Exact
      <4>9. /\ NextPage(w) \in Run /\ ListGood(args[p], NextPage(w))
            /\ NextPage(w).pc \in {"page", "returned"} /\ NextPage(w).exit = -1
        BY <3>1, <4>2, <4>6, <4>7, <4>8, NextPageGood, Zenon
      <4> QED
        BY <4>5, <4>9
    <3>2. CASE args[p].cmd # "entrypoints:list"
      <4>1. \E c \in {"access", "serving", "lookup", "call"} :
              /\ Handler(p) = [r EXCEPT !.pc = c]
              /\ c = "serving" \/ args[p].cmd \in Effects
        BY <1>1, <2>2, <3>2 DEF Handler, ListGood, Arguments, Effects, Creates
      <4>2. \A c \in {"access", "serving", "lookup", "call"} :
              /\ [r EXCEPT !.pc = c] \in Run
              /\ [r EXCEPT !.pc = c].pc = c /\ [r EXCEPT !.pc = c].exit = -1
        BY <1>1, <2>2 DEF Run, RunPc
      <4>3. /\ Handler(p) \in Run /\ Handler(p).exit = -1
            /\ Handler(p).pc \in {"access", "serving", "lookup", "call"}
            /\ Handler(p).pc = "serving" \/ args[p].cmd \in Effects
        BY <4>1, <4>2
      <4> QED
        BY <1>1, <2>2, <3>2, <4>3 DEF ListGood
    <3> QED
      BY <3>1, <3>2
  <2>4. Coupled(Handler(p), rot'[p])
    BY <1>2, <2>3 DEF Coupled
  <2> QED
    BY <1>2, <2>1, <2>3, <2>4, StepInv, Zenon
<1> QED
  BY <1>3, <1>4

\* The rotation beside the handler.
LEMMA RotationInv ==
  ASSUME CliInv, [Next]_vars, NEW p \in Processes, RotationStep(p)
  PROVE  CliInv'
<1>1. rot \in [Processes -> Rotation] /\ rot[p] \in Rotation
  BY DEF CliInv, ConfigInv, ConfigTypeOK
<1>2. rot[p].pc \notin {"off", "gone"}
  BY Zenon DEF RotationStep, Rotate, Load, FetchNewConfig, OpenFails, Open, Write, WriteFails,
         Wake
<1>3. \A b \in BOOLEAN : After(p, b).background = rot[p].background
                        /\ After(p, b).pc \in {"asleep", "reload"}
  BY DEF After, Idle
<1>4. rot[p].rotated \in BOOLEAN
  BY <1>1 DEF Rotation
<1>5. /\ rot'[p].pc \notin {"off", "gone"} /\ rot'[p].background = rot[p].background
      /\ \A q \in Processes \ {p} : rot'[q] = rot[q]
  <2>1. CASE Load(p)
    <3>1. CASE NeedsRotation(GetConfigFile(file))
      BY <1>1, <2>1, <3>1 DEF Load, Rotation
    <3>2. CASE ~NeedsRotation(GetConfigFile(file))
      BY <1>1, <1>3, <2>1, <3>2 DEF Load
    <3> QED
      BY <3>1, <3>2
  <2>2. ASSUME NEW answered \in BOOLEAN, FetchNewConfig(p, answered)
        PROVE  <1>5!:
    BY <1>1, <2>2 DEF FetchNewConfig, Rotation
  <2>3. CASE OpenFails(p) \/ Write(p) \/ WriteFails(p)
    BY <1>1, <1>3, <1>4, <2>3 DEF OpenFails, Write, WriteFails
  <2>4. CASE Open(p)
    BY <1>1, <2>4 DEF Open, Rotation
  <2>5. CASE Wake(p)
    BY <1>1, <2>5 DEF Wake, Rotation
  <2> QED
    BY <2>1, <2>2, <2>3, <2>4, <2>5 DEF RotationStep, Rotate
<1>6. run' = run /\ UNCHANGED <<args, disk>>
  BY DEF RotationStep, cliVars
<1>7. run' = [run EXCEPT ![p] = run[p]] /\ run[p] \in Run
  BY <1>6 DEF CliInv
<1>8. Coupled(run[p], rot'[p]) /\ ListGood(args[p], run[p])
  BY <1>2, <1>5 DEF CliInv, Coupled
<1> QED
  BY <1>5, <1>6, <1>7, <1>8, StepInv, Zenon

\* The steps of the other handlers.
LEMMA HandlerInv ==
  ASSUME CliInv, [Next]_vars, NEW p \in Processes, HandlerStep(p)
  PROVE  CliInv'
<1> DEFINE r == run[p]
<1>1. r \in Run /\ Coupled(r, rot[p]) /\ ListGood(args[p], r)
  BY DEF CliInv
<1>2. r.pc \in {"lookup", "access", "stat", "readFile", "call", "served"}
        => args[p].cmd \in Effects /\ args[p].cmd # "entrypoints:list"
  BY <1>1 DEF ListGood, Effects, Creates
<1>3. \A c \in {"stat", "readFile", "call", "served"} :
        /\ [r EXCEPT !.pc = c] \in Run /\ [r EXCEPT !.pc = c].pc = c
        /\ [r EXCEPT !.pc = c].exit = r.exit
        /\ [run EXCEPT ![p].pc = c] = [run EXCEPT ![p] = [r EXCEPT !.pc = c]]
  BY <1>1, Zenon DEF CliInv, Run, RunPc
<1>4. ASSUME NEW c \in {"stat", "readFile", "call", "served"},
             run' = [run EXCEPT ![p].pc = c], UNCHANGED configVars,
             UNCHANGED <<args, disk>>,
             r.pc \in {"lookup", "access", "stat", "readFile", "call", "served"}
      PROVE  CliInv'
  BY <1>2, <1>3, <1>4, MoveInv, Zenon
<1>5. ASSUME NEW found \in BOOLEAN, LookupEnds(p, found) PROVE CliInv'
  BY <1>4, <1>5, FailInv DEF LookupEnds
<1>6. CASE Access(p)
  BY <1>4, <1>6, FailInv DEF Access
<1>7. CASE Stat(p)
  BY <1>4, <1>7, FailInv DEF Stat
<1>8. CASE ReadFile(p)
  <2>1. CASE Fail(p)
    BY <1>8, <2>1, FailInv DEF ReadFile
  <2>2. CASE ~Fail(p)
    <3> DEFINE w == [r EXCEPT !.pc = "call", !.content = disk]
    <3>1. /\ run' = [run EXCEPT ![p].pc = "call", ![p].content = disk]
          /\ UNCHANGED configVars /\ UNCHANGED <<args, disk>> /\ r.pc = "readFile"
      BY <1>8, <2>2 DEF ReadFile
    <3>2. disk \in Documents \union {NoDocument}
      BY DEF CliInv
    <3>3. w \in Run /\ w.pc = "call" /\ w.exit = r.exit
      BY <1>1, <3>2, Zenon DEF Run, RunPc
    <3>4. run' = [run EXCEPT ![p] = w]
      BY <1>1, <3>1, Zenon DEF CliInv, Run
    <3> HIDE DEF w
    <3> QED
      BY <1>2, <3>1, <3>3, <3>4, MoveInv, Zenon
  <2> QED
    BY <2>1, <2>2
<1>9. CASE Serve(p)
  BY <1>4, <1>9 DEF Serve
<1>10. CASE Answered(p)
  <2> DEFINE b == HandlerOf(args[p].cmd).prints
             w == [r EXCEPT !.printed = b]
  <2>1. r.pc = "served" /\ Return(p, w, 0) /\ UNCHANGED <<args, disk>>
    BY <1>10, Zenon DEF Answered, Succeed
  <2>2. args[p].cmd # "entrypoints:list"
    BY <1>2, <2>1
  <2>3. b \in BOOLEAN
    <3>1. args[p].cmd \in Effects
      BY <1>2, <2>1
    <3> QED
      BY <3>1, Zenon DEF HandlerOf, Effects, Creates, RunScan, RetestScan, StopScan,
           RunDiscovery, RerunDiscovery, StopDiscovery, UploadArchive, UpdateHost
  <2> HIDE DEF b
  <2>4. Ending(p, w) /\ w.exit = r.exit
    BY <1>1, <2>2, <2>3 DEF Ending, Run
  <2> HIDE DEF w
  <2> QED
    BY <2>1, <2>4, ReturnInv
<1>11. CASE CallFails(p)
  BY <1>11, FailInv DEF CallFails
<1>12. CASE LogWritten(p)
  <2> DEFINE w == [r EXCEPT !.reason = "written"]
  <2>1. /\ run' = [run EXCEPT ![p] = w] /\ UNCHANGED <<args, disk>>
        /\ rot' = rot
    BY <1>1, <1>12 DEF LogWritten, configVars, CliInv, Run
  <2>2. /\ w \in Run /\ w.pc = r.pc /\ w.exit = r.exit /\ w.list = r.list
        /\ w.full = r.full /\ w.remaining = r.remaining /\ w.printed = r.printed
    BY <1>1 DEF Run
  <2> HIDE DEF w
  <2>3. Coupled(w, rot'[p]) /\ ListGood(args[p], w)
    BY <1>1, <2>1, <2>2, KeepsList DEF Coupled
  <2> QED
    BY <2>1, <2>2, <2>3, StepInv, Zenon
<1>13. CASE RunsEmpty(p)
  <2>1. Ending(p, r) /\ r.code \in {-2, 0, 1}
    BY <1>1 DEF Ending, Run
  <2> QED
    BY <1>13, <2>1, ExitInv DEF RunsEmpty
<1> QED
  BY <1>5, <1>6, <1>7, <1>8, <1>9, <1>10, <1>11, <1>12, <1>13, PageInv DEF HandlerStep

\* Every step preserves the invariant.
LEMMA CliNextInv == CliInv /\ [Next]_vars => CliInv'
<1> SUFFICES ASSUME CliInv, [Next]_vars PROVE CliInv'
  OBVIOUS
<1>1. ConfigInv'
  BY NextConfig, ConfigNextInv DEF CliInv
<1>2. CASE UNCHANGED vars \/ ((Publish \/ HourPasses) /\ UNCHANGED cliVars)
  <2>1. rot' = rot /\ run' = run /\ args' = args /\ disk' = disk
    BY <1>2 DEF vars, configVars, cliVars, Publish, HourPasses
  <2> QED
    BY <1>1, <2>1 DEF CliInv
<1>3. CASE DiskChanges
  <2>1. rot' = rot /\ run' = run /\ args' = args /\ disk' \in Documents
    BY <1>3 DEF DiskChanges, configVars
  <2> QED
    BY <1>1, <2>1 DEF CliInv
<1>4. ASSUME NEW p \in Processes,
             UsageFails(p) \/ LogFileFails(p)
      PROVE  CliInv'
  <2> DEFINE r == [run[p] EXCEPT !.reason = "stderr"]
  <2>1. Ending(p, r)
    BY Zenon DEF CliInv, Ending, Run
  <2>2. Exit(p, r, 1) /\ UNCHANGED <<args, disk>>
    BY <1>4, Zenon DEF UsageFails, LogFileFails
  <2> HIDE DEF r
  <2> QED
    BY <2>1, <2>2, ExitInv
<1>5. ASSUME NEW p \in Processes,
             Interrupted(p) \/ \E code \in {0, 1} : ServingEnds(p, code)
      PROVE  CliInv'
  <2>1. Ending(p, run[p])
    BY DEF CliInv, Ending
  <2>2. UNCHANGED <<args, disk>> /\ \E code \in {-2, 0, 1} : Exit(p, run[p], code)
    BY <1>5 DEF Interrupted, ServingEnds
  <2> QED
    BY <2>1, <2>2, ExitInv
<1>6. ASSUME NEW p \in Processes, LogFails(p) PROVE CliInv'
  <2> DEFINE r == [run[p] EXCEPT !.reason = "crash"]
  <2>1. Ending(p, r)
    BY Zenon DEF CliInv, Ending, Run
  <2>2. Exit(p, r, 1) /\ UNCHANGED <<args, disk>>
    BY <1>6, Zenon DEF LogFails
  <2> HIDE DEF r
  <2> QED
    BY <2>1, <2>2, ExitInv
<1>7. ASSUME NEW p \in Processes, Start(p) PROVE CliInv'
  <2> DEFINE r == run[p]
             w == [r EXCEPT !.pc = "config"]
  <2>1. /\ r \in Run /\ Coupled(r, rot[p]) /\ ListGood(args[p], r)
        /\ rot \in [Processes -> Rotation]
    BY DEF CliInv, ConfigInv, ConfigTypeOK
  <2>2. /\ w \in Run /\ w.pc = "config" /\ w.exit = r.exit /\ w.list = r.list
        /\ w.full = r.full /\ w.remaining = r.remaining /\ w.printed = r.printed
    BY <2>1 DEF Run, RunPc
  <2>3. run' = [run EXCEPT ![p] = w] /\ r.pc = "new" /\ args[p].cmd # "none"
        /\ UNCHANGED <<args, disk>>
    BY <1>7, <2>1 DEF Start, Accepts, CliInv, Run
  <2>4. /\ rot'[p].pc = "load" /\ rot'[p].background = rot[p].background
        /\ \A q \in Processes \ {p} : rot'[q] = rot[q]
    BY <1>7, <2>1 DEF Start, Read, Rotation
  <2> HIDE DEF w
  <2>5. Coupled(w, rot'[p]) /\ ListGood(args[p], w)
    BY <2>1, <2>2, <2>3, <2>4, KeepsList DEF Coupled
  <2> QED
    BY <2>2, <2>3, <2>4, <2>5, StepInv, Zenon
<1> QED
  BY <1>2, <1>3, <1>4, <1>5, <1>6, <1>7, ConfigReadInv, RotationInv, HandlerInv DEF Next

\* The inductive invariant of the processes.
THEOREM SpecInvariant == Spec => []CliInv
<1> QED
  BY CliInitInv, CliNextInv, PTL DEF Spec

\* Every variable keeps its type, and a process is gone when its handler ended.
THEOREM SpecTypeOK == Spec => []TypeOK
<1>1. CliInv => TypeOK
  BY ArgsTyped, Zenon DEF CliInv, ConfigInv, TypeOK, Coupled
<1> QED
  BY <1>1, SpecInvariant, PTL

\* entrypoints() gives what --limit asks for, for any limit, size of a batch and
\* number of entry points.
THEOREM SpecListExact == Spec => []ListExact
<1>1. CliInv => ListExact
  <2> SUFFICES ASSUME CliInv, NEW p \in Processes,
                      args[p].cmd = "entrypoints:list", run[p].printed
               PROVE  /\ run[p].list = [i \in 1..Len(run[p].list) |-> i]
                      /\ Exact(args[p].limit, run[p])
    BY DEF ListExact, Exact
  <2>1. run[p] \in Run /\ ListGood(args[p], run[p])
    BY DEF CliInv
  <2>2. run[p].printed = TRUE
    BY <2>1 DEF Run
  <2> QED
    BY <2>1, <2>2 DEF ListGood
<1> QED
  BY <1>1, SpecInvariant, PTL

-----------------------------------------------------------------------------
(* The exit code *)

\* The bodies the cloud may be sent.
Bodies == [types: Seq({"crawler", "archive", "oas"}), locations: [Locations -> Nat],
           content: Documents \union {NoDocument}]

\* The cloud has done what the arguments ask, once.
Fulfilled(a, d) == Len(d) = 1 /\ Wanted(a, d[1])

\* Where a handler is before the cloud has its call.
Before == {"new", "config", "lookup", "access", "stat", "readFile", "call", "page"}

(* What a handler at an await has behind it: nothing is asked of the cloud *)
(* before "call", what is sent then is what the arguments ask, and an      *)
(* error is logged only by what ends the handler.                          *)
Underway(a, r, d) ==
  /\ r.pc \in Before => d = <<>>
  /\ r.pc \in Before \union {"served"} => r.reason = "none"
  /\ r.pc = "served" => Fulfilled(a, d)
  /\ r.pc = "lookup" => a.cmd \in Creates
  /\ r.pc \in {"access", "stat", "readFile"} => a.cmd = "archive:upload"
  /\ (r.pc = "call" /\ a.cmd = "archive:upload")
       => r.content.parses /\ Valid(a.spec, r.content)
  /\ r.pc = "serving" => a.cmd = "repeater"
  /\ r.pc \in Before \union {"served"} => r.printed = FALSE /\ r.code = 0

\* What a handler that set process.exitCode leaves.
Returned(a, r, d) ==
  r.pc = "returned" =>
    /\ a.cmd # "none" /\ ~HandlerOf(a.cmd).exits /\ r.reason # "lost"
    /\ (r.code = 0 /\ a.cmd \in Effects) => Fulfilled(a, d)
    /\ r.code = 1 => r.printed = FALSE /\ r.reason # "none"

\* What ExitTruthful says of a process that ended.
Truthful(a, r, d) ==
  /\ (r.exit = 0 /\ a.cmd \in Effects) => Fulfilled(a, d)
  /\ (r.exit = 1 /\ a.cmd # "repeater")
       => \/ r.reason = "crash" /\ a.log = "file"
          \/ /\ r.printed = FALSE /\ r.reason # "none"
             /\ r.reason = "lost" => HandlerOf(a.cmd).exits

Honest(a, r, d) ==
  Len(d) <= 1 /\ Underway(a, r, d) /\ Returned(a, r, d) /\ Truthful(a, r, d)

TruthInv ==
  /\ CliInv
  /\ done \in [Processes -> Seq(Bodies)]
  /\ \A p \in Processes : Honest(args[p], run[p], done[p])

\* What Replace does to the number of times each location is given.
LEMMA ReplaceCounts ==
  ASSUME NEW s \in [Locations -> Nat], NEW d \in Locations, NEW c \in Locations, c # d
  PROVE  /\ Replace(s, d, c) \in [Locations -> Nat]
         /\ Replace(s, d, c)[d] = 0
         /\ Replace(s, d, c)[c] = IF s[d] # 0 /\ s[c] = 0 THEN 1 ELSE s[c]
         /\ \A l \in Locations \ {c, d} : Replace(s, d, c)[l] = s[l]
<1>1. CASE s[d] = 0
  BY <1>1 DEF Replace
<1>2. CASE s[d] # 0
  <2> DEFINE n == IF s[c] = 0 THEN 1 ELSE s[c]
             t == [l \in Locations |-> IF l = d THEN 0 ELSE IF l = c THEN n ELSE s[l]]
  <2>1. n \in Nat
    OBVIOUS
  <2>2. Replace(s, d, c) = t
    BY <1>2, Zenon DEF Replace
  <2>3. /\ t \in [Locations -> Nat] /\ t[d] = 0 /\ t[c] = n
        /\ \A l \in Locations \ {c, d} : t[l] = s[l]
    BY <2>1
  <2> QED
    BY <1>2, <2>2, <2>3
<1> QED
  BY <1>1, <1>2

\* replaceDeprecatedAttackParamLocations(): every location that is given stays,
\* under its current name, and none is repeated that was not.
LEMMA ReplaceDeprecatedRight ==
  ASSUME NEW s \in [Locations -> Nat]
  PROVE  /\ ReplaceDeprecated(s) \in [Locations -> Nat]
         /\ Given(ReplaceDeprecated(s)) = {Current(l) : l \in Given(s)}
         /\ (\A l \in Locations : s[l] <= 1)
              => \A l \in Locations : ReplaceDeprecated(s)[l] <= 1
<1> DEFINE t == Replace(s, "artifical-fragment", "artificial-fragment")
           u == Replace(t, "artifical-query", "artificial-query")
<1>1. /\ t \in [Locations -> Nat]
      /\ t["artifical-fragment"] = 0
      /\ t["artificial-fragment"] = IF s["artifical-fragment"] # 0 /\ s["artificial-fragment"] = 0
                                    THEN 1 ELSE s["artificial-fragment"]
      /\ \A l \in Locations \ {"artificial-fragment", "artifical-fragment"} : t[l] = s[l]
  BY ReplaceCounts DEF Locations
<1> HIDE DEF t
<1>2. /\ u \in [Locations -> Nat]
      /\ u["artifical-query"] = 0
      /\ u["artificial-query"] = IF t["artifical-query"] # 0 /\ t["artificial-query"] = 0
                                 THEN 1 ELSE t["artificial-query"]
      /\ \A l \in Locations \ {"artificial-query", "artifical-query"} : u[l] = t[l]
  BY <1>1, ReplaceCounts DEF Locations
<1>3. ReplaceDeprecated(s) = u
  BY DEF ReplaceDeprecated, t
<1> HIDE DEF u
<1>4. /\ u["artifical-fragment"] = 0 /\ u["artifical-query"] = 0
      /\ u["artificial-fragment"] = IF s["artifical-fragment"] # 0 /\ s["artificial-fragment"] = 0
                                    THEN 1 ELSE s["artificial-fragment"]
      /\ u["artificial-query"] = IF s["artifical-query"] # 0 /\ s["artificial-query"] = 0
                                 THEN 1 ELSE s["artificial-query"]
      /\ u["body"] = s["body"] /\ u["fragment"] = s["fragment"] /\ u["query"] = s["query"]
  BY <1>1, <1>2 DEF Locations
<1>5. \A l \in Locations : l \in Given(u) <=> \E k \in Given(s) : Current(k) = l
  BY <1>2, <1>4 DEF Given, Locations, Current
<1>6. \A k \in Locations : Current(k) \in Locations
  BY DEF Locations, Current
<1>7. Given(u) = {Current(l) : l \in Given(s)}
  BY <1>5, <1>6 DEF Given
<1>8. (\A l \in Locations : s[l] <= 1) => \A l \in Locations : u[l] <= 1
  BY <1>4 DEF Locations
<1> QED
  BY <1>2, <1>3, <1>7, <1>8

\* prepareScanConfig(), prepareConfig() and upload() send what the arguments ask.
LEMMA BodyRight ==
  ASSUME NEW p \in Processes, args[p] \in Arguments, run[p] \in Run,
         args[p].cmd = "archive:upload"
           => run[p].content.parses /\ Valid(args[p].spec, run[p].content)
  PROVE  Body(p) \in Bodies /\ Wanted(args[p], Body(p))
<1> DEFINE a == args[p]
           types == DiscoveryTypes(a)
           locations == AttackParamLocations(a)
           named == {"crawler", "archive", "oas"}
<1>1. /\ a.fileType \in {"archive", "oas"} /\ a.locations \in [Locations -> Nat]
      /\ a.template \in BOOLEAN
  BY DEF Arguments
<1>2. /\ types \in Seq(named)
      /\ Elements(types) = ({"crawler"} \intersect a.sources)
                             \union (IF "archive" \in a.sources THEN {a.fileType} ELSE {})
  <2> DEFINE x == a.fileType
             crawler == "crawler" \in a.sources
             archive == "archive" \in a.sources
  <2>1. x \in named /\ "crawler" \in named
    BY <1>1
  <2>2. types = (IF crawler THEN <<"crawler">> ELSE <<>>) \o (IF archive THEN <<x>> ELSE <<>>)
    BY DEF DiscoveryTypes
  <2>3. (({"crawler"} \intersect a.sources) \union (IF archive THEN {x} ELSE {}))
          = (IF crawler THEN {"crawler"} ELSE {}) \union (IF archive THEN {x} ELSE {})
    OBVIOUS
  <2> HIDE DEF x, types, named, crawler, archive
  <2>4. /\ <<"crawler">> \in Seq(named) /\ <<x>> \in Seq(named) /\ <<>> \in Seq(named)
        /\ Elements(<<"crawler">>) = {"crawler"} /\ Elements(<<x>>) = {x}
        /\ Elements(<<>>) = {}
    BY <2>1 DEF Elements
  <2>5. <<"crawler">> \o <<>> = <<"crawler">> /\ <<>> \o <<x>> = <<x>> /\ <<>> \o <<>> = <<>>
    OBVIOUS
  <2>6. /\ <<"crawler">> \o <<x>> \in Seq(named)
        /\ Elements(<<"crawler">> \o <<x>>) = {"crawler"} \union {x}
    <3> DEFINE t == <<"crawler">> \o <<x>>
    <3>1. t \in Seq(named) /\ Len(t) = 2 /\ t[1] = "crawler" /\ t[2] = x
      BY <2>4
    <3> HIDE DEF t
    <3>2. Elements(t) = {"crawler"} \union {x}
      BY <3>1 DEF Elements
    <3> QED
      BY <3>1, <3>2 DEF t
  <2>7. /\ types \in Seq(named)
        /\ Elements(types)
             = (IF crawler THEN {"crawler"} ELSE {}) \union (IF archive THEN {x} ELSE {})
    BY <2>2, <2>4, <2>5, <2>6, Zenon
  <2> QED
    BY <2>3, <2>7 DEF x, archive
<1>3. /\ locations \in [Locations -> Nat] /\ Given(locations) = WantedLocations(a)
      /\ (\A l \in Locations : a.locations[l] <= 1)
           => \A l \in Locations : locations[l] <= 1
  <2>1. CASE a.locations # Undefined
    BY <1>1, <2>1, ReplaceDeprecatedRight DEF AttackParamLocations, WantedLocations
  <2>2. CASE a.locations = Undefined /\ a.template
    BY <2>2 DEF AttackParamLocations, WantedLocations, Undefined, Given
  <2>3. CASE a.locations = Undefined /\ ~a.template
    BY <2>3 DEF AttackParamLocations, WantedLocations, Given, Locations
  <2> QED
    BY <2>1, <2>2, <2>3
<1>4. run[p].content \in Documents \union {NoDocument} /\ Undefined \in [Locations -> Nat]
  BY DEF Run, Undefined
<1> HIDE DEF types, locations
<1>5. CASE a.cmd = "scan:run"
  <2>1. Body(p) = [types |-> types, locations |-> locations, content |-> NoDocument]
    BY <1>5, Zenon DEF Body, ScanBody, NoBody, types, locations
  <2> QED
    BY <1>2, <1>3, <1>5, <2>1 DEF Bodies, Wanted, Creates
<1>6. CASE a.cmd = "discovery:run"
  <2>1. Body(p) = [types |-> types, locations |-> Undefined, content |-> NoDocument]
    BY <1>6 DEF Body, DiscoveryBody, NoBody, types
  <2> QED
    BY <1>2, <1>4, <1>6, <2>1 DEF Bodies, Wanted, Creates
<1>7. CASE a.cmd = "archive:upload"
  <2>1. Body(p) = [types |-> <<>>, locations |-> Undefined, content |-> run[p].content]
    BY <1>7 DEF Body, ArchiveBody, NoBody
  <2> QED
    BY <1>4, <1>7, <2>1 DEF Bodies, Wanted, Creates
<1>8. CASE a.cmd \notin {"scan:run", "discovery:run", "archive:upload"}
  <2>1. Body(p) = [types |-> <<>>, locations |-> Undefined, content |-> NoDocument]
    BY <1>8 DEF Body, NoBody
  <2> QED
    BY <1>4, <1>8, <2>1 DEF Bodies, Wanted, Creates
<1> QED
  BY <1>5, <1>6, <1>7, <1>8

\* What Honest says of a handler that the cloud has heard nothing of.
LEMMA HonestBefore ==
  ASSUME NEW a, NEW r, NEW d, Honest(a, r, d), r.pc \in Before
  PROVE  /\ d = <<>> /\ Len(d) <= 1
         /\ r.reason = "none" /\ r.printed = FALSE /\ r.code = 0
<1>1. Underway(a, r, d) /\ Len(d) <= 1
  BY DEF Honest
<1> QED
  BY <1>1 DEF Underway

\* What it says of one whose call the cloud has served.
LEMMA HonestServed ==
  ASSUME NEW a, NEW r, NEW d, Honest(a, r, d), r.pc = "served"
  PROVE  /\ Fulfilled(a, d) /\ Len(d) <= 1
         /\ r.reason = "none" /\ r.printed = FALSE /\ r.code = 0
<1>1. Underway(a, r, d) /\ Len(d) <= 1
  BY DEF Honest
<1> QED
  BY <1>1 DEF Underway

\* A handler that has begun and not returned is honest if Underway holds.
LEMMA UnderwayHonest ==
  ASSUME NEW a, NEW w, NEW d, Len(d) <= 1, Underway(a, w, d), w.pc # "returned",
         w.exit = -1
  PROVE  Honest(a, w, d)
<1>1. Returned(a, w, d)
  BY DEF Returned
<1>2. Truthful(a, w, d)
  BY DEF Truthful
<1> QED
  BY <1>1, <1>2 DEF Honest

\* One that has returned is honest if Returned holds.
LEMMA ReturnedHonest ==
  ASSUME NEW a, NEW w, NEW d, Len(d) <= 1, Returned(a, w, d), w.pc = "returned",
         w.exit = -1
  PROVE  Honest(a, w, d)
<1>1. Underway(a, w, d)
  BY DEF Underway, Before
<1>2. Truthful(a, w, d)
  BY DEF Truthful
<1> QED
  BY <1>1, <1>2 DEF Honest

\* A message that is written was queued, and is not lost.
LEMMA LogHonest ==
  ASSUME NEW a, NEW r, NEW w, NEW d, Honest(a, r, d), r.reason = "queued",
         w.reason = "written", w.pc = r.pc, w.exit = r.exit, w.printed = r.printed,
         w.code = r.code
  PROVE  Honest(a, w, d)
<1>1. /\ Len(d) <= 1 /\ Underway(a, r, d) /\ Returned(a, r, d) /\ Truthful(a, r, d)
  BY DEF Honest
<1>2. r.pc \notin Before \union {"served"}
  BY <1>1 DEF Underway
<1>3. Underway(a, w, d)
  <2>1. r.pc = "serving" => a.cmd = "repeater"
    BY <1>1 DEF Underway
  <2> QED
    BY <1>2, <2>1 DEF Underway, Before
<1>4. Returned(a, w, d)
  BY <1>1 DEF Returned
<1>5. Truthful(a, w, d)
  BY <1>1 DEF Truthful
<1> QED
  BY <1>1, <1>3, <1>4, <1>5 DEF Honest

\* Nothing is done before the processes start.
LEMMA TruthInit == Init => TruthInv
<1> SUFFICES ASSUME Init PROVE TruthInv
  OBVIOUS
<1>1. done = [p \in Processes |-> <<>>] /\ <<>> \in Seq(Bodies) /\ Len(<<>>) = 0
  BY DEF Init
<1>2. \A p \in Processes :
        /\ run[p].pc = "new" /\ run[p].reason = "none" /\ run[p].printed = FALSE
        /\ run[p].code = 0 /\ run[p].exit = -1
  <2>1. PICK full : run = [p \in Processes |->
           [pc |-> "new", content |-> NoDocument, list |-> <<>>, remaining |-> 0,
            full |-> full, printed |-> FALSE, code |-> 0, exit |-> -1,
            reason |-> "none"]]
    BY Zenon DEF Init
  <2> QED
    BY <2>1
<1>3. \A p \in Processes : Honest(args[p], run[p], done[p])
  <2> SUFFICES ASSUME NEW p \in Processes PROVE Honest(args[p], run[p], done[p])
    OBVIOUS
  <2>1. done[p] = <<>> /\ Len(done[p]) <= 1
    BY <1>1
  <2>2. Underway(args[p], run[p], done[p])
    BY <1>2, <2>1 DEF Underway
  <2> QED
    BY <1>2, <2>1, <2>2, UnderwayHonest
<1> QED
  BY <1>1, <1>3, CliInitInv DEF TruthInv

\* A step of one process.
LEMMA TruthStep ==
  ASSUME TruthInv, [Next]_vars, NEW p \in Processes, NEW w,
         run' = [run EXCEPT ![p] = w], args' = args,
         done' \in [Processes -> Seq(Bodies)],
         \A q \in Processes \ {p} : done'[q] = done[q],
         Honest(args[p], w, done'[p])
  PROVE  TruthInv'
<1>1. CliInv'
  BY CliNextInv DEF TruthInv
<1>2. run'[p] = w /\ \A q \in Processes \ {p} : run'[q] = run[q]
  BY DEF TruthInv, CliInv
<1>3. \A q \in Processes : Honest(args'[q], run'[q], done'[q])
  BY <1>2 DEF TruthInv
<1> QED
  BY <1>1, <1>3 DEF TruthInv

\* What has to be true before a process ends with a code.
MayEnd(a, r, code, d) ==
  /\ (code = 0 /\ a.cmd \in Effects) => Fulfilled(a, d)
  /\ (code = 1 /\ a.cmd # "repeater")
       => \/ r.reason = "crash" /\ a.log = "file"
          \/ /\ r.printed = FALSE /\ r.reason # "none"
             /\ r.reason \in {"queued", "lost"} => HandlerOf(a.cmd).exits

\* The end of a process.
LEMMA TruthExit ==
  ASSUME TruthInv, [Next]_vars, NEW p \in Processes, NEW r \in Run,
         NEW code \in {-2, 0, 1}, Exit(p, r, code), UNCHANGED <<args, done>>,
         MayEnd(args[p], r, code, done[p])
  PROVE  TruthInv'
<1> DEFINE why == IF r.reason = "queued" THEN "lost" ELSE r.reason
           w == [r EXCEPT !.pc = "ended", !.exit = code, !.reason = why]
<1>1. /\ w.pc = "ended" /\ w.exit = code /\ w.printed = r.printed /\ w.reason = why
  BY DEF Run
<1>2. run' = [run EXCEPT ![p] = w]
  BY DEF Exit, Run
<1>3. Len(done[p]) <= 1
  BY DEF TruthInv, Honest
<1> HIDE DEF w
<1>4. Truthful(args[p], w, done[p])
  BY <1>1 DEF Truthful, MayEnd
<1>5. Underway(args[p], w, done[p]) /\ Returned(args[p], w, done[p])
  BY <1>1 DEF Underway, Before, Returned
<1>6. Honest(args[p], w, done'[p])
  BY <1>3, <1>4, <1>5 DEF Honest
<1>7. done' \in [Processes -> Seq(Bodies)]
  BY DEF TruthInv
<1> QED
  BY <1>2, <1>6, <1>7, TruthStep, Zenon

\* The errors of a handler.
LEMMA TruthFail ==
  ASSUME TruthInv, [Next]_vars, NEW p \in Processes, Fail(p), UNCHANGED <<args, done>>,
         run[p].pc \in Before \union {"served"}, run[p].pc \notin {"new", "config"}
  PROVE  TruthInv'
<1> DEFINE r == [run[p] EXCEPT !.reason = Logged(p)]
           a == args[p]
<1>1. /\ run[p] \in Run /\ Honest(a, run[p], done[p]) /\ ListGood(a, run[p])
      /\ Coupled(run[p], rot[p])
  BY DEF TruthInv, CliInv
<1>2. Logged(p) \in {"silent", "queued", "stderr"}
  BY DEF Logged
<1>3. /\ r \in Run /\ r.reason \in {"silent", "queued", "stderr"}
      /\ r.printed = run[p].printed /\ r.exit = run[p].exit
  BY <1>1, <1>2 DEF Run
<1>4. Return(p, r, 1)
  BY DEF Fail
<1>5. run[p].printed = FALSE /\ Len(done[p]) <= 1 /\ run[p].exit = -1
  <2>1. run[p].printed = FALSE /\ Len(done[p]) <= 1
    BY <1>1, HonestBefore, HonestServed, Zenon
  <2>2. run[p].exit = -1
    BY <1>1 DEF Coupled, Before
  <2> QED
    BY <2>1, <2>2
<1> HIDE DEF r
<1>6. CASE HandlerOf(a.cmd).exits
  <2>1. Exit(p, r, 1)
    BY <1>4, <1>6 DEF Return
  <2>2. MayEnd(a, r, 1, done[p])
    BY <1>3, <1>5, <1>6 DEF MayEnd
  <2> QED
    BY <1>3, <2>1, <2>2, TruthExit
<1>7. CASE ~HandlerOf(a.cmd).exits
  <2> DEFINE w == [r EXCEPT !.pc = "returned", !.code = 1]
  <2>1. /\ w.pc = "returned" /\ w.code = 1 /\ w.printed = FALSE /\ w.exit = -1
        /\ w.reason \in {"silent", "queued", "stderr"}
    BY <1>3, <1>5 DEF Run
  <2>2. run' = [run EXCEPT ![p] = w]
    BY <1>4, <1>7, Zenon DEF Return
  <2>3. a.cmd # "none"
    BY <1>1 DEF ListGood, Before
  <2> HIDE DEF w
  <2>4. Honest(a, w, done[p])
    <3>1. Returned(a, w, done[p])
      BY <1>7, <2>1, <2>3 DEF Returned
    <3> QED
      BY <1>5, <2>1, <3>1, ReturnedHonest
  <2>5. done' \in [Processes -> Seq(Bodies)]
    BY DEF TruthInv
  <2> QED
    BY <2>2, <2>4, <2>5, TruthStep, Zenon
<1> QED
  BY <1>6, <1>7

\* What a handler that moves from one await to another, before its call, has to
\* know.
Moves(a, r, w) ==
  /\ w.pc \in Before \union {"serving"}
  /\ w.reason = r.reason /\ w.printed = r.printed /\ w.code = r.code /\ w.exit = r.exit
  /\ w.pc = "lookup" => a.cmd \in Creates
  /\ w.pc \in {"access", "stat", "readFile"} => a.cmd = "archive:upload"
  /\ (w.pc = "call" /\ a.cmd = "archive:upload")
       => w.content.parses /\ Valid(a.spec, w.content)
  /\ w.pc = "serving" => a.cmd = "repeater"

\* Such a move of the handler.
LEMMA MovesHonest ==
  ASSUME NEW a, NEW r, NEW w, NEW d, Honest(a, r, d), r.pc \in Before, r.exit = -1,
         Moves(a, r, w)
  PROVE  Honest(a, w, d)
<1>1. /\ d = <<>> /\ Len(d) <= 1
      /\ r.reason = "none" /\ r.printed = FALSE /\ r.code = 0
  BY HonestBefore, Zenon
<1>2. /\ w.pc \in Before \union {"serving"} /\ w.exit = -1
      /\ w.reason = "none" /\ w.printed = FALSE /\ w.code = 0
  BY <1>1 DEF Moves
<1>3. w.pc \notin {"served", "returned"}
  BY <1>2 DEF Before
<1>4. Underway(a, w, d)
  BY <1>1, <1>2, <1>3 DEF Underway, Moves
<1> QED
  BY <1>1, <1>2, <1>3, <1>4, UnderwayHonest

\* Such a move.
LEMMA TruthMove ==
  ASSUME TruthInv, [Next]_vars, NEW p \in Processes, NEW w,
         run' = [run EXCEPT ![p] = w], UNCHANGED <<args, done>>,
         run[p].pc \in Before, Moves(args[p], run[p], w)
  PROVE  TruthInv'
<1>1. Honest(args[p], run[p], done[p]) /\ Coupled(run[p], rot[p])
  BY DEF TruthInv, CliInv
<1>2. run[p].exit = -1
  BY <1>1 DEF Coupled, Before
<1>3. Honest(args[p], w, done[p])
  BY <1>1, <1>2, MovesHonest
<1>4. done' \in [Processes -> Seq(Bodies)]
  BY DEF TruthInv
<1> QED
  BY <1>3, <1>4, TruthStep, Zenon

\* The next turn of the loop of entrypoints(), or its end.
LEMMA TruthPage ==
  ASSUME TruthInv, [Next]_vars, NEW p \in Processes, NEW list, NEW left,
         run' = [run EXCEPT ![p] =
                   NextPage([run[p] EXCEPT !.list = list, !.remaining = left])],
         UNCHANGED <<args, done>>,
         args[p].cmd = "entrypoints:list", run[p].pc \in Before
  PROVE  TruthInv'
<1> DEFINE r == [run[p] EXCEPT !.list = list, !.remaining = left]
           w == NextPage(r)
<1>0. run[p] \in Run
  BY DEF TruthInv, CliInv
<1>1. Honest(args[p], run[p], done[p]) /\ Coupled(run[p], rot[p])
  BY DEF TruthInv, CliInv
<1>2. /\ run[p].reason = "none" /\ run[p].printed = FALSE /\ run[p].code = 0
      /\ Len(done[p]) <= 1 /\ run[p].exit = -1
  <2>1. run[p].exit = -1
    BY <1>1 DEF Coupled, Before
  <2> QED
    BY <1>1, <2>1, HonestBefore, Zenon
<1>3. CASE r.remaining > 0
  <2>1. /\ w.pc = "page" /\ w.reason = run[p].reason /\ w.printed = run[p].printed
        /\ w.code = run[p].code /\ w.exit = run[p].exit
    BY <1>0, <1>3 DEF NextPage, Run
  <2> HIDE DEF w
  <2>2. Moves(args[p], run[p], w)
    BY <2>1 DEF Moves, Before
  <2> QED
    BY <2>2, TruthMove, Zenon DEF w
<1>4. CASE ~(r.remaining > 0)
  <2>1. /\ w.pc = "returned" /\ w.reason = run[p].reason /\ w.code = run[p].code
        /\ w.exit = run[p].exit
    BY <1>0, <1>4 DEF NextPage, Run
  <2>2. ~HandlerOf(args[p].cmd).exits /\ args[p].cmd \notin Effects \union {"none"}
    BY DEF HandlerOf, GetEntryPoints, Effects, Creates
  <2> HIDE DEF w
  <2>3. Honest(args[p], w, done[p])
    <3>1. Returned(args[p], w, done[p])
      BY <1>2, <2>1, <2>2 DEF Returned
    <3> QED
      BY <1>2, <2>1, <3>1, ReturnedHonest
  <2>4. done' \in [Processes -> Seq(Bodies)]
    BY DEF TruthInv
  <2> QED
    BY <2>3, <2>4, TruthStep, Zenon DEF w
<1> QED
  BY <1>3, <1>4

\* wrapWithSentry() starts the handler with nothing done.
LEMMA TruthConfigRead ==
  ASSUME TruthInv, [Next]_vars, NEW p \in Processes, ConfigRead(p)
  PROVE  TruthInv'
<1> DEFINE r == run[p]
           a == args[p]
<1>1. /\ r \in Run /\ Coupled(r, rot[p]) /\ ListGood(a, r) /\ a \in Arguments
      /\ rot[p] \in Rotation
  BY ArgsTyped DEF TruthInv, CliInv, ConfigInv, ConfigTypeOK
<1>2. UNCHANGED <<args, done>> /\ rot[p].pc = "reload"
  BY DEF ConfigRead, Reload
<1>3. CASE rot[p].background
  <2>1. run' = run
    BY <1>3 DEF ConfigRead
  <2> QED
    BY <1>2, <2>1, CliNextInv DEF TruthInv
<1>4. CASE ~rot[p].background
  <2>1. run' = [run EXCEPT ![p] = Handler(p)]
    BY <1>4 DEF ConfigRead
  <2>2. r.pc = "config"
    <3>1. rot[p].background = FALSE
      BY <1>1, <1>4 DEF Rotation
    <3> QED
      BY <1>1, <1>2, <3>1 DEF Coupled, Run
  <2>3. CASE a.cmd = "entrypoints:list"
    <3> DEFINE w == [r EXCEPT !.list = r.list, !.remaining = a.limit]
    <3>1. Handler(p) = NextPage([r EXCEPT !.remaining = a.limit])
      BY <2>3 DEF Handler, NextPage, Creates
    <3>2. [r EXCEPT !.remaining = a.limit] = w
      BY <1>1, Zenon DEF Run
    <3>3. r.pc \in Before
      BY <2>2 DEF Before
    <3>4. run' = [run EXCEPT ![p] = NextPage(w)]
      BY <2>1, <3>1, <3>2, Zenon
    <3> QED
      BY <1>2, <2>3, <3>3, <3>4, TruthPage, Zenon
  <2>4. CASE a.cmd # "entrypoints:list"
    <3> DEFINE c == CASE a.cmd = "archive:upload" -> "access"
                      [] a.cmd = "repeater" -> "serving"
                      [] a.cmd \in Creates /\ "archive" \in a.sources -> "lookup"
                      [] OTHER -> "call"
               w == [r EXCEPT !.pc = c]
    <3>1. /\ c \in Before \union {"serving"}
          /\ c \in {"access", "stat", "readFile"} => a.cmd = "archive:upload"
          /\ c = "serving" => a.cmd = "repeater"
          /\ c = "lookup" => a.cmd \in Creates
          /\ c = "call" => a.cmd # "archive:upload"
      BY DEF Before, Creates
    <3>2. Handler(p) = w
      BY <2>4 DEF Handler, Creates
    <3> HIDE DEF c
    <3>3. /\ w.pc = c /\ w.reason = r.reason /\ w.printed = r.printed
          /\ w.code = r.code /\ w.exit = r.exit
      BY <1>1 DEF Run
    <3> HIDE DEF w
    <3>4. Moves(a, r, Handler(p)) /\ r.pc \in Before
      BY <2>2, <3>1, <3>2, <3>3 DEF Moves, Before
    <3> QED
      BY <1>2, <2>1, <3>4, TruthMove, Zenon
  <2> QED
    BY <2>3, <2>4
<1> QED
  BY <1>3, <1>4

\* The call of the cloud carries what the arguments ask, and is the first.
LEMMA TruthServe ==
  ASSUME TruthInv, [Next]_vars, NEW p \in Processes, Serve(p)
  PROVE  TruthInv'
<1> DEFINE r == run[p]
           w == [r EXCEPT !.pc = "served"]
           d == Append(done[p], Body(p))
<1>1. /\ r \in Run /\ Coupled(r, rot[p]) /\ args[p] \in Arguments
      /\ Honest(args[p], r, done[p]) /\ r.pc = "call"
      /\ done \in [Processes -> Seq(Bodies)]
  BY ArgsTyped DEF TruthInv, CliInv, Serve
<1>2. /\ done[p] = <<>> /\ r.reason = "none" /\ r.printed = FALSE /\ r.code = 0
      /\ r.exit = -1
      /\ args[p].cmd = "archive:upload" => r.content.parses /\ Valid(args[p].spec, r.content)
  <2>1. r.pc \in Before
    BY <1>1 DEF Before
  <2>2. done[p] = <<>> /\ r.reason = "none" /\ r.printed = FALSE /\ r.code = 0
    BY <1>1, <2>1, HonestBefore, Zenon
  <2>3. Underway(args[p], r, done[p])
    BY <1>1 DEF Honest
  <2>4. args[p].cmd = "archive:upload" => r.content.parses /\ Valid(args[p].spec, r.content)
    BY <1>1, <2>3, Zenon DEF Underway
  <2>5. r.exit = -1
    BY <1>1 DEF Coupled
  <2> QED
    BY <2>2, <2>4, <2>5
<1>3. Body(p) \in Bodies /\ Wanted(args[p], Body(p))
  BY <1>1, <1>2, BodyRight
<1>4. d \in Seq(Bodies) /\ Len(d) = 1 /\ d[1] = Body(p)
  BY <1>2, <1>3
<1>5. /\ w.pc = "served" /\ w.reason = "none" /\ w.printed = FALSE /\ w.code = 0
      /\ w.exit = -1
  BY <1>1, <1>2 DEF Run
<1>6. run' = [run EXCEPT ![p] = w] /\ args' = args /\ done' = [done EXCEPT ![p] = d]
  BY <1>1 DEF Serve
<1> HIDE DEF w, d
<1>7. Fulfilled(args[p], d) /\ Len(d) <= 1
  BY <1>3, <1>4 DEF Fulfilled
<1>8. Honest(args[p], w, d)
  <2>1. Underway(args[p], w, d)
    BY <1>5, <1>7 DEF Underway, Before
  <2> QED
    BY <1>5, <1>7, <2>1, UnderwayHonest
<1>9. /\ done' \in [Processes -> Seq(Bodies)] /\ done'[p] = d
      /\ \A q \in Processes \ {p} : done'[q] = done[q]
  BY <1>1, <1>4, <1>6
<1> QED
  BY <1>6, <1>8, <1>9, TruthStep, Zenon

\* A handler whose call is answered.
LEMMA TruthAnswered ==
  ASSUME TruthInv, [Next]_vars, NEW p \in Processes, Answered(p)
  PROVE  TruthInv'
<1> DEFINE b == HandlerOf(args[p].cmd).prints
           r == [run[p] EXCEPT !.printed = b]
           a == args[p]
<1>1. /\ run[p] \in Run /\ Coupled(run[p], rot[p]) /\ ListGood(a, run[p])
      /\ Honest(a, run[p], done[p]) /\ run[p].pc = "served"
  BY DEF TruthInv, CliInv, Answered
<1>2. Return(p, r, 0) /\ UNCHANGED <<args, done>>
  BY Zenon DEF Answered, Succeed
<1>3. a.cmd \in Effects /\ a.cmd # "none"
  BY <1>1 DEF ListGood, Effects, Creates
<1>4. b \in BOOLEAN
  BY <1>3, Zenon DEF HandlerOf, Effects, Creates, RunScan, RetestScan, StopScan,
       RunDiscovery, RerunDiscovery, StopDiscovery, UploadArchive, UpdateHost
<1> HIDE DEF b
<1>5. r \in Run /\ r.reason = run[p].reason /\ r.exit = run[p].exit
  BY <1>1, <1>4 DEF Run
<1>6. /\ Fulfilled(a, done[p]) /\ run[p].reason = "none" /\ run[p].exit = -1
      /\ Len(done[p]) <= 1
  <2>1. run[p].exit = -1
    BY <1>1 DEF Coupled
  <2> QED
    BY <1>1, <2>1, HonestServed, Zenon
<1> HIDE DEF r
<1>7. CASE HandlerOf(a.cmd).exits
  <2>1. Exit(p, r, 0)
    BY <1>2, <1>7 DEF Return
  <2>2. MayEnd(a, r, 0, done[p])
    BY <1>6 DEF MayEnd
  <2> QED
    BY <1>2, <1>5, <2>1, <2>2, TruthExit
<1>8. CASE ~HandlerOf(a.cmd).exits
  <2> DEFINE w == [r EXCEPT !.pc = "returned", !.code = 0]
  <2>1. /\ w.pc = "returned" /\ w.code = 0 /\ w.exit = -1 /\ w.reason = "none"
    BY <1>5, <1>6 DEF Run
  <2>2. run' = [run EXCEPT ![p] = w]
    BY <1>2, <1>8, Zenon DEF Return
  <2> HIDE DEF w
  <2>3. Honest(a, w, done[p])
    <3>1. Returned(a, w, done[p])
      BY <1>3, <1>6, <1>8, <2>1 DEF Returned
    <3> QED
      BY <1>6, <2>1, <3>1, ReturnedHonest
  <2>4. done' \in [Processes -> Seq(Bodies)]
    BY <1>2 DEF TruthInv
  <2> QED
    BY <1>2, <2>2, <2>3, <2>4, TruthStep, Zenon
<1> QED
  BY <1>7, <1>8

\* The other steps of the handlers.
LEMMA TruthHandler ==
  ASSUME TruthInv, [Next]_vars, NEW p \in Processes, HandlerStep(p)
  PROVE  TruthInv'
<1> DEFINE r == run[p]
           a == args[p]
<1>1. /\ r \in Run /\ Coupled(r, rot[p]) /\ ListGood(a, r) /\ Honest(a, r, done[p])
  BY DEF TruthInv, CliInv
<1>2. ASSUME NEW c \in {"stat", "readFile", "call"}, UNCHANGED <<args, done>>,
             run' = [run EXCEPT ![p].pc = c], r.pc \in Before,
             c \in {"stat", "readFile"} => a.cmd = "archive:upload",
             c = "call" => a.cmd # "archive:upload"
      PROVE  TruthInv'
  <2> DEFINE w == [r EXCEPT !.pc = c]
  <2>1. /\ w.pc = c /\ w.reason = r.reason /\ w.printed = r.printed
        /\ w.code = r.code /\ w.exit = r.exit
    BY <1>1 DEF Run
  <2>2. run' = [run EXCEPT ![p] = w]
    BY <1>2
  <2> HIDE DEF w
  <2>3. Moves(a, r, w)
    BY <1>2, <2>1 DEF Moves, Before
  <2> QED
    BY <1>2, <2>2, <2>3, TruthMove, Zenon
<1>3. r.pc \in {"lookup", "access", "stat", "readFile"} =>
        /\ r.pc \in Before /\ r.pc \notin {"new", "config"}
        /\ r.pc = "lookup" => a.cmd \in Creates
        /\ r.pc # "lookup" => a.cmd = "archive:upload"
  BY <1>1, Zenon DEF Before, Honest, Underway
<1>4. ASSUME NEW found \in BOOLEAN, LookupEnds(p, found) PROVE TruthInv'
  <2>1. CASE found
    BY <1>2, <1>3, <1>4, <2>1 DEF LookupEnds, Creates
  <2>2. CASE ~found
    BY <1>3, <1>4, <2>2, TruthFail DEF LookupEnds
  <2> QED
    BY <2>1, <2>2
<1>5. CASE Access(p)
  BY <1>2, <1>3, <1>5, TruthFail DEF Access
<1>6. CASE Stat(p)
  BY <1>2, <1>3, <1>6, TruthFail DEF Stat
<1>7. CASE ReadFile(p)
  <2>1. CASE Fail(p)
    BY <1>3, <1>7, <2>1, TruthFail DEF ReadFile
  <2>2. CASE ~Fail(p)
    <3> DEFINE w == [r EXCEPT !.pc = "call", !.content = disk]
    <3>1. /\ run' = [run EXCEPT ![p].pc = "call", ![p].content = disk]
          /\ disk.parses /\ Valid(a.spec, disk) /\ r.pc = "readFile"
          /\ UNCHANGED <<args, done>>
      BY <1>7, <2>2 DEF ReadFile
    <3>2. /\ w.pc = "call" /\ w.content = disk /\ w.reason = r.reason
          /\ w.printed = r.printed /\ w.code = r.code /\ w.exit = r.exit
      BY <1>1 DEF Run
    <3>3. run' = [run EXCEPT ![p] = w]
      BY <1>1, <3>1, Zenon DEF TruthInv, CliInv, Run
    <3> HIDE DEF w
    <3>4. Moves(a, r, w) /\ r.pc \in Before
      BY <3>1, <3>2 DEF Moves, Before
    <3> QED
      BY <3>1, <3>3, <3>4, TruthMove, Zenon
  <2> QED
    BY <2>1, <2>2
<1>8. CASE CallFails(p)
  BY <1>8, TruthFail DEF CallFails, Before
<1>9. CASE Page(p)
  <2>1. PICK items \in Pages(r) :
          run' = [run EXCEPT ![p] =
            NextPage([r EXCEPT !.list = r.list \o items,
                               !.remaining = IF items = <<>> THEN 0 ELSE r.remaining - Batch])]
    BY <1>9, Zenon DEF Page
  <2> DEFINE left == IF items = <<>> THEN 0 ELSE r.remaining - Batch
             t == r.list \o items
             w == [r EXCEPT !.list = t, !.remaining = left]
  <2>2. r.pc = "page" /\ UNCHANGED <<args, done>>
    BY <1>9 DEF Page
  <2>3. a.cmd = "entrypoints:list" /\ r.pc \in Before
    BY <1>1, <2>2 DEF ListGood, Before
  <2>4. run' = [run EXCEPT ![p] = NextPage(w)]
    BY <2>1
  <2> HIDE DEF t, left
  <2> QED
    BY <2>2, <2>3, <2>4, TruthPage, Zenon
<1>10. CASE LogWritten(p)
  <2> DEFINE w == [r EXCEPT !.reason = "written"]
  <2>1. /\ run' = [run EXCEPT ![p] = w] /\ UNCHANGED <<args, done>> /\ r.reason = "queued"
    BY <1>1, <1>10 DEF LogWritten, TruthInv, CliInv, Run
  <2>2. /\ w.pc = r.pc /\ w.exit = r.exit /\ w.printed = r.printed /\ w.code = r.code
        /\ w.reason = "written"
    BY <1>1 DEF Run
  <2> HIDE DEF w
  <2>3. Honest(a, w, done[p])
    BY <1>1, <2>1, <2>2, LogHonest
  <2>4. done' \in [Processes -> Seq(Bodies)]
    BY <2>1 DEF TruthInv
  <2> QED
    BY <2>1, <2>3, <2>4, TruthStep, Zenon
<1>11. CASE RunsEmpty(p)
  <2>1. /\ r.pc = "returned" /\ r.reason # "queued" /\ Exit(p, r, r.code)
        /\ UNCHANGED <<args, done>>
    BY <1>11 DEF RunsEmpty
  <2>2. r.code \in {-2, 0, 1}
    BY <1>1 DEF Run
  <2>3. MayEnd(a, r, r.code, done[p])
    BY <1>1, <2>1, Zenon DEF Honest, Returned, MayEnd
  <2> QED
    BY <1>1, <2>1, <2>2, <2>3, TruthExit
<1> QED
  BY <1>4, <1>5, <1>6, <1>7, <1>8, <1>9, <1>10, <1>11, TruthServe, TruthAnswered
     DEF HandlerStep

\* Every step keeps the processes honest.
LEMMA TruthNext == TruthInv /\ [Next]_vars => TruthInv'
<1> SUFFICES ASSUME TruthInv, [Next]_vars PROVE TruthInv'
  OBVIOUS
<1>1. CASE \/ UNCHANGED vars \/ DiskChanges
           \/ (Publish \/ HourPasses) /\ UNCHANGED cliVars
           \/ \E p \in Processes : RotationStep(p)
  <2>1. run' = run /\ args' = args /\ done' = done
    BY <1>1 DEF vars, cliVars, DiskChanges, RotationStep
  <2> QED
    BY <2>1, CliNextInv DEF TruthInv
<1>2. ASSUME NEW p \in Processes, UsageFails(p) \/ LogFileFails(p) PROVE TruthInv'
  <2> DEFINE r == [run[p] EXCEPT !.reason = "stderr"]
  <2>1. run[p] \in Run /\ Honest(args[p], run[p], done[p]) /\ run[p].pc = "new"
    BY <1>2 DEF TruthInv, CliInv, UsageFails, LogFileFails
  <2>2. r \in Run /\ r.reason = "stderr" /\ r.printed = run[p].printed
    BY <2>1 DEF Run
  <2>3. Exit(p, r, 1) /\ UNCHANGED <<args, done>>
    BY <1>2, Zenon DEF UsageFails, LogFileFails
  <2> HIDE DEF r
  <2>4. MayEnd(args[p], r, 1, done[p])
    <3>1. run[p].printed = FALSE
      <4>1. "new" \in Before
        BY DEF Before
      <4> QED
        BY <2>1, <4>1, HonestBefore, Zenon
    <3> QED
      BY <2>2, <3>1 DEF MayEnd
  <2> QED
    BY <2>2, <2>3, <2>4, TruthExit
<1>3. ASSUME NEW p \in Processes, Start(p) PROVE TruthInv'
  <2> DEFINE w == [run[p] EXCEPT !.pc = "config"]
  <2>1. run[p] \in Run
    BY DEF TruthInv, CliInv
  <2>2. /\ w.pc = "config" /\ w.reason = run[p].reason /\ w.printed = run[p].printed
        /\ w.code = run[p].code /\ w.exit = run[p].exit
    BY <2>1 DEF Run
  <2>3. /\ run' = [run EXCEPT ![p] = w] /\ run[p].pc = "new" /\ UNCHANGED <<args, done>>
    BY <1>3 DEF Start
  <2> HIDE DEF w
  <2>4. Moves(args[p], run[p], w) /\ run[p].pc \in Before
    BY <2>2, <2>3 DEF Moves, Before
  <2> QED
    BY <2>3, <2>4, TruthMove, Zenon
<1>4. ASSUME NEW p \in Processes, Interrupted(p) PROVE TruthInv'
  <2>1. Exit(p, run[p], -2) /\ UNCHANGED <<args, done>> /\ run[p] \in Run
    BY <1>4 DEF Interrupted, TruthInv, CliInv
  <2>2. MayEnd(args[p], run[p], -2, done[p])
    BY DEF MayEnd
  <2> QED
    BY <2>1, <2>2, TruthExit
<1>6. ASSUME NEW p \in Processes, LogFails(p) PROVE TruthInv'
  <2> DEFINE r == [run[p] EXCEPT !.reason = "crash"]
  <2>1. run[p] \in Run
    BY DEF TruthInv, CliInv
  <2>2. r \in Run /\ r.reason = "crash"
    BY <2>1 DEF Run
  <2>3. Exit(p, r, 1) /\ UNCHANGED <<args, done>> /\ args[p].log = "file"
    BY <1>6, Zenon DEF LogFails
  <2> HIDE DEF r
  <2>4. MayEnd(args[p], r, 1, done[p])
    BY <2>2, <2>3 DEF MayEnd
  <2> QED
    BY <2>2, <2>3, <2>4, TruthExit
<1>5. ASSUME NEW p \in Processes, NEW code \in {0, 1}, ServingEnds(p, code)
      PROVE  TruthInv'
  <2>1. /\ Exit(p, run[p], code) /\ UNCHANGED <<args, done>> /\ run[p] \in Run
        /\ run[p].pc = "serving" /\ Honest(args[p], run[p], done[p])
    BY <1>5 DEF ServingEnds, TruthInv, CliInv
  <2>2. args[p].cmd = "repeater" /\ "repeater" \notin Effects
    BY <2>1 DEF Honest, Underway, Effects, Creates
  <2>3. MayEnd(args[p], run[p], code, done[p])
    BY <2>2 DEF MayEnd
  <2> QED
    BY <2>1, <2>3, TruthExit
<1> QED
  BY <1>1, <1>2, <1>3, <1>4, <1>5, <1>6, TruthConfigRead, TruthHandler DEF Next

\* The exit code of every command tells what the cloud has done and where the
\* error is, for any number of processes, arguments and contents of the file.
THEOREM SpecExitTruthful == Spec => []ExitTruthful
<1>1. TruthInv => ExitTruthful
  BY DEF TruthInv, Honest, Truthful, Fulfilled, ExitTruthful
<1> QED
  BY <1>1, TruthInit, TruthNext, PTL DEF Spec

-----------------------------------------------------------------------------
(* Going on *)

\* What a step makes of the handler, and of the rotation that is waited for.
Further(r, w) ==
  \/ Stage[r.pc] < Stage[w.pc]
  \/ /\ r.pc = "page" /\ w.pc = "page"
     /\ w.remaining = r.remaining - Batch /\ w.remaining > 0
  \/ r.reason = "queued" /\ w = [r EXCEPT !.reason = "written"]

Forward(t, u) == RotationStage[t.pc] < RotationStage[u.pc]

Advances(p) ==
  /\ run'[p] # run[p] => Further(run[p], run'[p])
  /\ (rot'[p] # rot[p] /\ run'[p].pc = run[p].pc /\ run[p].pc \in {"config", "returned"})
       => Forward(rot[p], rot'[p])

\* read() does not sleep: what sleeps is the loop in the background.
SleepsInBackground == \A p \in Processes : rot[p].pc = "asleep" => rot[p].background = TRUE

AdvanceInv == CliInv /\ SleepsInBackground

\* The order of the places of a handler.
LEMMA Stages ==
  /\ Stage["new"] = 0 /\ Stage["config"] = 1 /\ Stage["lookup"] = 2 /\ Stage["access"] = 2
  /\ Stage["stat"] = 3 /\ Stage["readFile"] = 4 /\ Stage["call"] = 5 /\ Stage["page"] = 5
  /\ Stage["served"] = 6 /\ Stage["serving"] = 6 /\ Stage["returned"] = 7
  /\ Stage["ended"] = 8
  BY DEF Stage

\* The order of the places of a rotation.
LEMMA RotationStages ==
  /\ RotationStage["off"] = 0 /\ RotationStage["load"] = 1 /\ RotationStage["fetch"] = 2
  /\ RotationStage["open"] = 3 /\ RotationStage["writing"] = 4
  /\ RotationStage["reload"] = 5 /\ RotationStage["asleep"] = 6
  /\ RotationStage["gone"] = 7
  BY DEF RotationStage

\* A step of one process leaves the others where they are.
LEMMA OneAdvances ==
  ASSUME NEW p \in Processes, Advances(p),
         \A q \in Processes \ {p} : run'[q] = run[q] /\ rot'[q] = rot[q]
  PROVE  \A q \in Processes : Advances(q)
  BY Zenon DEF Advances

\* process.exit() is the end of the process, wherever the handler is.
LEMMA ExitAdvances ==
  ASSUME CliInv, NEW p \in Processes, NEW r \in Run, NEW code, Exit(p, r, code),
         run[p].pc # "ended"
  PROVE  \A q \in Processes : Advances(q)
<1> DEFINE why == IF r.reason = "queued" THEN "lost" ELSE r.reason
           w == [r EXCEPT !.pc = "ended", !.exit = code, !.reason = why]
<1>1. w.pc = "ended"
  BY DEF Run
<1>2. run' = [run EXCEPT ![p] = w]
  BY DEF Exit, Run
<1> HIDE DEF w
<1>3. run[p].pc \in RunPc /\ run'[p] = w
      /\ \A q \in Processes \ {p} : run'[q] = run[q] /\ rot'[q] = rot[q]
  BY <1>2 DEF CliInv, ConfigInv, ConfigTypeOK, Run, Exit, Vanish
<1>4. Stage[run[p].pc] < Stage[w.pc]
  BY <1>1, <1>3, Stages DEF RunPc
<1>5. Advances(p)
  BY <1>1, <1>3, <1>4 DEF Advances, Further
<1> QED
  BY <1>3, <1>5, OneAdvances

\* A handler that moves to a later place.
LEMMA MoveAdvances ==
  ASSUME CliInv, NEW p \in Processes, NEW w, run' = [run EXCEPT ![p] = w], rot' = rot,
         Further(run[p], w)
  PROVE  \A q \in Processes : Advances(q)
<1>1. run'[p] = w /\ \A q \in Processes \ {p} : run'[q] = run[q] /\ rot'[q] = rot[q]
  BY DEF CliInv
<1>2. Advances(p)
  BY <1>1 DEF Advances
<1> QED
  BY <1>1, <1>2, OneAdvances

\* The end of a handler is later than every place in it.
LEMMA ReturnAdvances ==
  ASSUME CliInv, NEW p \in Processes, NEW r \in Run, NEW code, Return(p, r, code),
         run[p].pc \notin {"returned", "ended"}
  PROVE  \A q \in Processes : Advances(q)
<1>1. CASE HandlerOf(args[p].cmd).exits
  BY <1>1, ExitAdvances DEF Return
<1>2. CASE ~HandlerOf(args[p].cmd).exits
  <2> DEFINE w == [r EXCEPT !.pc = "returned", !.code = code]
  <2>1. w.pc = "returned"
    BY DEF Run
  <2>2. run' = [run EXCEPT ![p] = w] /\ UNCHANGED configVars
    BY <1>2, Zenon DEF Return
  <2> HIDE DEF w
  <2>3. run[p].pc \in RunPc /\ rot' = rot
    BY <2>2 DEF CliInv, Run, configVars
  <2>4. Further(run[p], w)
    BY <2>1, <2>3, Stages DEF RunPc, Further
  <2> QED
    BY <2>2, <2>3, <2>4, MoveAdvances, Zenon
<1> QED
  BY <1>1, <1>2

\* The errors of a handler.
LEMMA FailAdvances ==
  ASSUME CliInv, NEW p \in Processes, Fail(p), run[p].pc \notin {"returned", "ended"}
  PROVE  \A q \in Processes : Advances(q)
<1> DEFINE r == [run[p] EXCEPT !.reason = Logged(p)]
<1>1. Logged(p) \in {"silent", "queued", "stderr"}
  BY DEF Logged
<1>2. run[p] \in Run
  BY DEF CliInv
<1>3. r \in Run
  BY <1>1, <1>2 DEF Run
<1>4. Return(p, r, 1)
  BY DEF Fail
<1> HIDE DEF r
<1> QED
  BY <1>3, <1>4, ReturnAdvances

\* One turn of the loop of entrypoints() takes a batch off what remains, or is
\* the last.
LEMMA PageAdvances ==
  ASSUME CliInv, NEW p \in Processes, Page(p)
  PROVE  \A q \in Processes : Advances(q)
<1> DEFINE r == run[p]
<1>1. r \in Run /\ r.pc = "page" /\ rot' = rot
  BY DEF CliInv, Page, configVars
<1>2. PICK items \in Pages(r) :
        run' = [run EXCEPT ![p] =
          NextPage([r EXCEPT !.list = r.list \o items,
                             !.remaining = IF items = <<>> THEN 0 ELSE r.remaining - Batch])]
  BY Zenon DEF Page
<1> DEFINE left == IF items = <<>> THEN 0 ELSE r.remaining - Batch
           w == [r EXCEPT !.list = r.list \o items, !.remaining = left]
<1>3. w.remaining = left /\ run' = [run EXCEPT ![p] = NextPage(w)]
  BY <1>1, <1>2 DEF Run
<1>4. left > 0 => left = r.remaining - Batch
  OBVIOUS
<1> HIDE DEF left
<1>5. CASE left > 0
  <2> DEFINE u == [w EXCEPT !.pc = "page"]
  <2>1. NextPage(w) = u
    BY <1>3, <1>5 DEF NextPage
  <2>2. u.pc = "page" /\ u.remaining = left
    BY <1>1, <1>3 DEF Run
  <2> HIDE DEF u, w
  <2>3. Further(r, u)
    BY <1>1, <1>4, <1>5, <2>2 DEF Further
  <2> QED
    BY <1>1, <1>3, <2>1, <2>3, MoveAdvances, Zenon
<1>6. CASE ~(left > 0)
  <2> DEFINE u == [w EXCEPT !.pc = "returned", !.printed = TRUE]
  <2>1. NextPage(w) = u
    BY <1>3, <1>6 DEF NextPage
  <2>2. u.pc = "returned"
    BY <1>1 DEF Run
  <2> HIDE DEF u, w
  <2>3. Further(r, u)
    BY <1>1, <2>2, Stages DEF Further
  <2> QED
    BY <1>1, <1>3, <2>1, <2>3, MoveAdvances, Zenon
<1> QED
  BY <1>5, <1>6

\* The end of read() starts the handler, later ones end a turn of the rotation.
LEMMA ConfigReadAdvances ==
  ASSUME CliInv, NEW p \in Processes, ConfigRead(p)
  PROVE  \A q \in Processes : Advances(q)
<1> DEFINE r == run[p]
<1>1. /\ r \in Run /\ Coupled(r, rot[p]) /\ ListGood(args[p], r)
      /\ rot \in [Processes -> Rotation] /\ args[p] \in Arguments
  BY ArgsTyped DEF CliInv, ConfigInv, ConfigTypeOK
<1>2. /\ rot[p].pc = "reload" /\ (rot[p].background => rot'[p].pc = "asleep")
      /\ \A q \in Processes \ {p} : rot'[q] = rot[q]
  BY <1>1 DEF ConfigRead, Reload, Rotation
<1>3. CASE rot[p].background
  <2>1. run' = run
    BY <1>3 DEF ConfigRead
  <2>2. Forward(rot[p], rot'[p])
    BY <1>2, <1>3, RotationStages DEF Forward
  <2>3. Advances(p)
    BY <2>1, <2>2 DEF Advances
  <2> QED
    BY <1>2, <2>1, <2>3, OneAdvances
<1>4. CASE ~rot[p].background
  <2>1. run' = [run EXCEPT ![p] = Handler(p)]
    BY <1>4 DEF ConfigRead
  <2>2. r.pc = "config"
    <3>1. rot[p].background = FALSE
      BY <1>1, <1>4 DEF Rotation
    <3> QED
      BY <1>1, <1>2, <3>1 DEF Coupled, Run
  <2>3. Handler(p).pc \in {"page", "returned", "access", "serving", "lookup", "call"}
    <3>1. CASE args[p].cmd = "entrypoints:list"
      <4> DEFINE w == [r EXCEPT !.remaining = args[p].limit]
      <4>1. w \in Run
        BY <1>1, Zenon DEF Run, Arguments
      <4>2. Handler(p) = NextPage(w)
        BY <3>1 DEF Handler, NextPage, Creates
      <4> HIDE DEF w
      <4>3. NextPage(w).pc \in {"page", "returned"}
        BY <4>1 DEF NextPage, Run
      <4> QED
        BY <4>2, <4>3
    <3>2. CASE args[p].cmd # "entrypoints:list"
      <4>1. \E c \in {"access", "serving", "lookup", "call"} :
              Handler(p) = [r EXCEPT !.pc = c]
        BY <1>1, <2>2, <3>2 DEF Handler, ListGood, Arguments, Effects, Creates
      <4>2. \A c \in {"access", "serving", "lookup", "call"} : [r EXCEPT !.pc = c].pc = c
        BY <1>1 DEF Run
      <4> QED
        BY <4>1, <4>2
    <3> QED
      BY <3>1, <3>2
  <2> HIDE DEF r
  <2>4. run'[p] = Handler(p) /\ \A q \in Processes \ {p} : run'[q] = run[q]
    BY <2>1 DEF CliInv
  <2>5. Stage[r.pc] < Stage[Handler(p).pc] /\ Handler(p).pc # r.pc
    BY <2>2, <2>3, Stages
  <2>6. Advances(p)
    BY <2>4, <2>5 DEF Advances, Further, r
  <2> QED
    BY <1>2, <2>4, <2>6, OneAdvances
<1> QED
  BY <1>3, <1>4

\* The rotation goes forward while the process waits for it.
LEMMA RotationAdvances ==
  ASSUME AdvanceInv, NEW p \in Processes, RotationStep(p)
  PROVE  \A q \in Processes : Advances(q)
<1>1. rot \in [Processes -> Rotation] /\ rot[p] \in Rotation /\ run' = run
  BY DEF AdvanceInv, CliInv, ConfigInv, ConfigTypeOK, RotationStep, cliVars
<1>2. \A b \in BOOLEAN : After(p, b).pc \in {"asleep", "reload"}
  BY DEF After, Idle
<1>3. rot[p].rotated \in BOOLEAN
  BY <1>1 DEF Rotation
<1>4. \A q \in Processes \ {p} : rot'[q] = rot[q]
  <2>1. CASE Wake(p)
    BY <1>1, <2>1 DEF Wake
  <2>2. CASE Rotate(p)
    BY <1>1, <2>2, Zenon DEF Rotate, Load, FetchNewConfig, OpenFails, Open, Write, WriteFails
  <2> QED
    BY <2>1, <2>2 DEF RotationStep
<1>5. ASSUME run[p].pc \in {"config", "returned"} PROVE Forward(rot[p], rot'[p])
  <2>1. CASE Load(p)
    <3>1. rot[p].pc = "load" /\ rot'[p].pc \in {"fetch", "asleep", "reload"}
      <4>1. CASE NeedsRotation(GetConfigFile(file))
        BY <1>1, <2>1, <4>1 DEF Load, Rotation
      <4>2. CASE ~NeedsRotation(GetConfigFile(file))
        BY <1>1, <1>2, <2>1, <4>2, Zenon DEF Load
      <4> QED
        BY <4>1, <4>2
    <3> QED
      BY <3>1, RotationStages DEF Forward
  <2>2. ASSUME NEW answered \in BOOLEAN, FetchNewConfig(p, answered)
        PROVE  Forward(rot[p], rot'[p])
    <3>1. rot[p].pc = "fetch" /\ rot'[p].pc = "open"
      BY <1>1, <2>2 DEF FetchNewConfig, Rotation
    <3> QED
      BY <3>1, RotationStages DEF Forward
  <2>3. CASE OpenFails(p) \/ Write(p) \/ WriteFails(p)
    <3>1. rot[p].pc \in {"open", "writing"} /\ rot'[p].pc \in {"asleep", "reload"}
      BY <1>1, <1>2, <1>3, <2>3 DEF OpenFails, Write, WriteFails
    <3> QED
      BY <3>1, RotationStages DEF Forward
  <2>4. CASE Open(p)
    <3>1. rot[p].pc = "open" /\ rot'[p].pc = "writing"
      BY <1>1, <2>4 DEF Open, Rotation
    <3> QED
      BY <3>1, RotationStages DEF Forward
  <2>5. CASE Wake(p) /\ run[p].pc # "returned"
    <3>1. rot[p].pc = "asleep" /\ run[p].pc = "config"
      BY <1>5, <2>5 DEF Wake
    <3>2. rot[p].background = TRUE /\ rot[p].background = FALSE
      BY <3>1 DEF AdvanceInv, SleepsInBackground, CliInv, Coupled
    <3> QED
      BY <3>2
  <2> QED
    BY <2>1, <2>2, <2>3, <2>4, <2>5, Zenon DEF RotationStep, Rotate
<1>6. Advances(p)
  BY <1>1, <1>5, Zenon DEF Advances
<1> QED
  BY <1>1, <1>4, <1>6, OneAdvances

\* The steps of the handlers.
LEMMA HandlerAdvances ==
  ASSUME CliInv, NEW p \in Processes, HandlerStep(p)
  PROVE  \A q \in Processes : Advances(q)
<1> DEFINE r == run[p]
<1>1. r \in Run
  BY DEF CliInv
<1>2. ASSUME NEW c \in {"stat", "readFile", "call", "served"},
             run' = [run EXCEPT ![p].pc = c], UNCHANGED configVars, Stage[r.pc] < Stage[c]
      PROVE  \A q \in Processes : Advances(q)
  <2> DEFINE w == [r EXCEPT !.pc = c]
  <2>1. w.pc = c
    BY <1>1 DEF Run
  <2>2. run' = [run EXCEPT ![p] = w] /\ rot' = rot
    BY <1>2 DEF configVars
  <2> HIDE DEF w
  <2>3. Further(r, w)
    BY <1>2, <2>1 DEF Further
  <2> QED
    BY <2>2, <2>3, MoveAdvances, Zenon
<1>3. ASSUME NEW found \in BOOLEAN, LookupEnds(p, found)
      PROVE  \A q \in Processes : Advances(q)
  BY <1>2, <1>3, Stages, FailAdvances DEF LookupEnds
<1>4. CASE Access(p)
  BY <1>2, <1>4, Stages, FailAdvances DEF Access
<1>5. CASE Stat(p)
  BY <1>2, <1>5, Stages, FailAdvances DEF Stat
<1>6. CASE ReadFile(p)
  <2>1. CASE Fail(p)
    BY <1>6, <2>1, FailAdvances DEF ReadFile
  <2>2. CASE ~Fail(p)
    <3> DEFINE w == [r EXCEPT !.pc = "call", !.content = disk]
    <3>1. /\ run' = [run EXCEPT ![p].pc = "call", ![p].content = disk]
          /\ UNCHANGED configVars /\ r.pc = "readFile"
      BY <1>6, <2>2 DEF ReadFile
    <3>2. w.pc = "call"
      BY <1>1 DEF Run
    <3>3. run' = [run EXCEPT ![p] = w] /\ rot' = rot
      BY <1>1, <3>1, Zenon DEF CliInv, Run, configVars
    <3> HIDE DEF w
    <3>4. Further(r, w)
      BY <3>1, <3>2, Stages DEF Further
    <3> QED
      BY <3>3, <3>4, MoveAdvances, Zenon
  <2> QED
    BY <2>1, <2>2
<1>7. CASE Serve(p)
  BY <1>2, <1>7, Stages DEF Serve
<1>8. CASE Answered(p)
  <2> DEFINE b == HandlerOf(args[p].cmd).prints
             w == [r EXCEPT !.printed = b]
  <2>1. r.pc = "served" /\ Return(p, w, 0)
    BY <1>8, Zenon DEF Answered, Succeed
  <2>2. b \in BOOLEAN
    <3>1. args[p].cmd \in Effects
      <4>1. ListGood(args[p], r)
        BY DEF CliInv
      <4> QED
        BY <2>1, <4>1 DEF ListGood
    <3> QED
      BY <3>1, Zenon DEF HandlerOf, Effects, Creates, RunScan, RetestScan, StopScan,
           RunDiscovery, RerunDiscovery, StopDiscovery, UploadArchive, UpdateHost
  <2> HIDE DEF b
  <2>3. w \in Run
    BY <1>1, <2>2 DEF Run
  <2> HIDE DEF w
  <2> QED
    BY <2>1, <2>3, ReturnAdvances
<1>9. CASE CallFails(p)
  BY <1>9, FailAdvances DEF CallFails
<1>10. CASE LogWritten(p)
  <2> DEFINE w == [r EXCEPT !.reason = "written"]
  <2>1. run' = [run EXCEPT ![p] = w] /\ rot' = rot /\ r.reason = "queued"
    BY <1>10 DEF LogWritten, configVars
  <2>2. Further(r, w)
    BY <2>1, Zenon DEF Further
  <2> QED
    BY <2>1, <2>2, MoveAdvances, Zenon
<1>11. CASE RunsEmpty(p)
  BY <1>1, <1>11, ExitAdvances DEF RunsEmpty
<1> QED
  BY <1>3, <1>4, <1>5, <1>6, <1>7, <1>8, <1>9, <1>10, <1>11, PageAdvances, ZenonT(30) DEF HandlerStep

\* read() never sleeps.
LEMMA SleepsNext ==
  ASSUME ConfigInv, SleepsInBackground, [ConfigNext]_configVars
  PROVE  SleepsInBackground'
<1>1. rot \in [Processes -> Rotation]
  BY DEF ConfigInv, ConfigTypeOK
<1>2. CASE Publish \/ HourPasses \/ UNCHANGED configVars
  <2>1. rot' = rot
    BY <1>2 DEF Publish, HourPasses, configVars
  <2> QED
    BY <2>1 DEF SleepsInBackground
<1>3. ASSUME NEW p \in Processes, Read(p) \/ Rotate(p) \/ Reload(p) \/ Wake(p) \/ Vanish(p)
      PROVE  SleepsInBackground'
  <2>1. rot[p] \in Rotation
    BY <1>1
  <2>2. \A b \in BOOLEAN : After(p, b).pc = "asleep" => After(p, b).background = TRUE
    <3>1. rot[p].background \in BOOLEAN
      BY <2>1 DEF Rotation
    <3> QED
      BY <3>1 DEF After, Idle
  <2>3. rot[p].rotated \in BOOLEAN
    BY <2>1 DEF Rotation
  <2>4. /\ rot'[p].pc = "asleep" => rot'[p].background = TRUE
        /\ \A q \in Processes \ {p} : rot'[q] = rot[q]
    <3>1. CASE Read(p)
      BY <1>1, <2>1, <3>1 DEF Read, Rotation
    <3>2. CASE Load(p)
      BY <1>1, <2>1, <2>2, <3>2, Zenon DEF Load, Rotation
    <3>3. ASSUME NEW answered \in BOOLEAN, FetchNewConfig(p, answered)
          PROVE  <2>4!:
      BY <1>1, <2>1, <3>3 DEF FetchNewConfig, Rotation
    <3>4. CASE OpenFails(p) \/ Write(p) \/ WriteFails(p)
      BY <1>1, <2>2, <2>3, <3>4 DEF OpenFails, Write, WriteFails
    <3>5. CASE Open(p)
      BY <1>1, <2>1, <3>5 DEF Open, Rotation
    <3>6. CASE Reload(p)
      BY <1>1, <2>1, <3>6 DEF Reload, Rotation
    <3>7. CASE Wake(p)
      BY <1>1, <2>1, <3>7 DEF Wake, Rotation
    <3>8. CASE Vanish(p)
      BY <1>1, <3>8 DEF Vanish, Idle
    <3> QED
      BY <1>3, <3>1, <3>2, <3>3, <3>4, <3>5, <3>6, <3>7, <3>8, Zenon DEF Rotate
  <2> QED
    BY <2>4 DEF SleepsInBackground
<1> QED
  BY <1>2, <1>3 DEF ConfigNext

\* Every step of a process brings it further.
LEMMA StepAdvances ==
  ASSUME AdvanceInv, [Next]_vars
  PROVE  \A q \in Processes : Advances(q)
<1>1. CASE UNCHANGED vars \/ ((Publish \/ HourPasses) /\ UNCHANGED cliVars) \/ DiskChanges
  <2>1. rot' = rot /\ run' = run
    BY <1>1 DEF vars, configVars, cliVars, Publish, HourPasses, DiskChanges
  <2> QED
    BY <2>1 DEF Advances
<1>2. ASSUME NEW p \in Processes, UsageFails(p) \/ LogFileFails(p)
      PROVE  \A q \in Processes : Advances(q)
  <2> DEFINE r == [run[p] EXCEPT !.reason = "stderr"]
  <2>1. r \in Run
    <3>1. run[p] \in Run
      BY DEF AdvanceInv, CliInv
    <3> QED
      BY <3>1 DEF Run
  <2>2. Exit(p, r, 1) /\ run[p].pc = "new"
    BY <1>2, Zenon DEF UsageFails, LogFileFails
  <2> HIDE DEF r
  <2> QED
    BY <2>1, <2>2, ExitAdvances DEF AdvanceInv
<1>3. ASSUME NEW p \in Processes,
             Interrupted(p) \/ \E code \in {0, 1} : ServingEnds(p, code)
      PROVE  \A q \in Processes : Advances(q)
  <2>1. run[p] \in Run
    BY DEF AdvanceInv, CliInv
  <2>2. run[p].pc # "ended" /\ \E code \in {-2, 0, 1} : Exit(p, run[p], code)
    BY <1>3 DEF Interrupted, ServingEnds
  <2> QED
    BY <2>1, <2>2, ExitAdvances DEF AdvanceInv
<1>4. ASSUME NEW p \in Processes, Start(p) PROVE \A q \in Processes : Advances(q)
  <2> DEFINE w == [run[p] EXCEPT !.pc = "config"]
  <2>1. /\ run[p] \in Run /\ run \in [Processes -> Run]
        /\ rot \in [Processes -> Rotation]
    BY DEF AdvanceInv, CliInv, ConfigInv, ConfigTypeOK
  <2>2. w.pc = "config"
    BY <2>1 DEF Run
  <2>3. run' = [run EXCEPT ![p] = w] /\ run[p].pc = "new"
    BY <1>4 DEF Start
  <2> HIDE DEF w
  <2>4. run'[p] = w /\ \A q \in Processes \ {p} : run'[q] = run[q] /\ rot'[q] = rot[q]
    BY <1>4, <2>1, <2>3 DEF Start, Read
  <2>5. Further(run[p], w) /\ w.pc # run[p].pc
    BY <2>2, <2>3, Stages DEF Further
  <2>6. Advances(p)
    BY <2>4, <2>5, Zenon DEF Advances
  <2> QED
    BY <2>4, <2>6, OneAdvances
<1>5. ASSUME NEW p \in Processes, LogFails(p) PROVE \A q \in Processes : Advances(q)
  <2> DEFINE r == [run[p] EXCEPT !.reason = "crash"]
  <2>1. r \in Run
    <3>1. run[p] \in Run
      BY DEF AdvanceInv, CliInv
    <3> QED
      BY <3>1 DEF Run
  <2>2. Exit(p, r, 1) /\ run[p].pc # "ended"
    BY <1>5, Zenon DEF LogFails
  <2> HIDE DEF r
  <2> QED
    BY <2>1, <2>2, ExitAdvances DEF AdvanceInv
<1> QED
  BY <1>1, <1>2, <1>3, <1>4, <1>5, ConfigReadAdvances, RotationAdvances, HandlerAdvances
     DEF Next, AdvanceInv

\* No process ever goes back, for any number of processes and any arguments: what
\* is left of CommandEnds is that the steps it waits for are taken.
THEOREM SpecCommandAdvances == Spec => CommandAdvances
<1> DEFINE Step ==
     \A p \in Processes :
       /\ run'[p] # run[p] =>
            \/ Stage[run[p].pc] < Stage[run'[p].pc]
            \/ /\ run[p].pc = "page" /\ run'[p].pc = "page"
               /\ run'[p].remaining = run[p].remaining - Batch /\ run'[p].remaining > 0
            \/ /\ run[p].reason = "queued"
               /\ run'[p] = [run[p] EXCEPT !.reason = "written"]
       /\ (rot'[p] # rot[p] /\ run'[p].pc = run[p].pc /\ run[p].pc \in {"config", "returned"})
            => RotationStage[rot[p].pc] < RotationStage[rot'[p].pc]
<1>1. Init => AdvanceInv
  <2>1. Init => SleepsInBackground
    BY DEF Init, ConfigInit, Idle, SleepsInBackground
  <2> QED
    BY <2>1, CliInitInv DEF AdvanceInv
<1>2. AdvanceInv /\ [Next]_vars => AdvanceInv'
  <2> SUFFICES ASSUME AdvanceInv, [Next]_vars PROVE AdvanceInv'
    OBVIOUS
  <2>1. CliInv' /\ ConfigInv
    BY CliNextInv DEF AdvanceInv, CliInv
  <2>2. SleepsInBackground'
    BY <2>1, NextConfig, SleepsNext DEF AdvanceInv
  <2> QED
    BY <2>1, <2>2 DEF AdvanceInv
<1>3. AdvanceInv /\ [Next]_vars => [Step]_vars
  <2>1. (\A p \in Processes : Advances(p)) => Step
    BY Zenon DEF Advances, Further, Forward
  <2> QED
    BY <2>1, StepAdvances
<1> QED
  BY <1>1, <1>2, <1>3, PTL DEF Spec, CommandAdvances
=============================================================================
