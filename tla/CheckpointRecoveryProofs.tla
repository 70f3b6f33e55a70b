----------------------- MODULE CheckpointRecoveryProofs -----------------------
(***************************************************************************)
(* Durability: for any number of commits, checkpoints and crashes, whatever *)
(* a crash leaves of the database file and its WALs, the database opens    *)
(* with the commits that were reported and at most the one under way.      *)
(* RecoveryInv says which files there can be at each step of a checkpoint, *)
(* which of them a crash can leave, and which a step of the recovery makes *)
(* of them; it is kept by every action, one lemma for each.                *)
(***************************************************************************)
EXTENDS CheckpointRecovery, FiniteSetTheorems, SequenceTheorems, WellFoundedInduction, TLAPS

(***************************************************************************)
(* What the entries of a WAL file say: the shapes that a file has while    *)
(* commits are written, after a crash and after a marker, what a crash can *)
(* make of each, and what the replay reads from them.  The lemmas on       *)
(* Applied are by induction over the entries of a file.                    *)
(***************************************************************************)

Logs == Seq(Commits)

\* Only the last entry of a file can be torn.
Files == {es \in Seq(Entries) : \A i \in 1 .. Len(es) : es[i].type = "torn" => i = Len(es)}

\* A WAL file with the commits of log: a version entry, and the changes of each commit
\* with their WAL_FLUSH.
End(log) == 2 * Len(log) + 1
Size(log) == IF log = <<>> THEN 0 ELSE End(log)

Holds(es, log) ==
    /\ Len(es) >= End(log) /\ es[1].type = "version"
    /\ \A i \in 1 .. Len(log) : /\ es[2 * i].type = "changes" /\ es[2 * i].commit = log[i]
                                /\ es[2 * i + 1].type = "flush"

\* Nothing else is in the file: what a writer leaves behind.
Clean(es, log) == Len(es) = Size(log) /\ (log # <<>> => Holds(es, log))

\* Nothing else in the file counts: what a crash leaves behind.
Dead(es, log) ==
    \/ log = <<>> /\ (es = <<>> \/ (Len(es) = 1 /\ es[1].type = "torn"))
    \/ /\ Holds(es, log) /\ Len(es) <= End(log) + 2
       /\ Len(es) > End(log) => es[End(log) + 1].type \in {"changes", "torn"}
       /\ Len(es) = End(log) + 2 => es[End(log) + 1].type = "changes" /\ es[End(log) + 2].type = "torn"

\* A marker follows, with its WAL_FLUSH or without it.
Marked(es, log, r) ==
    /\ log # <<>> /\ Holds(es, log)
    /\ Len(es) \in {End(log) + 1, End(log) + 2}
    /\ es[End(log) + 1].type = "checkpoint" /\ es[End(log) + 1].root = r
    /\ Len(es) = End(log) + 2 => es[End(log) + 2].type \in {"flush", "torn"}

Closed(es, log, r) == Marked(es, log, r) /\ Len(es) = End(log) + 2 /\ es[End(log) + 2].type = "flush"

\* The entry of a commit follows.
Open(es, log, c) ==
    /\ Holds(es, log) /\ Len(es) = End(log) + 1
    /\ es[End(log) + 1].type = "changes" /\ es[End(log) + 1].commit = c

-----------------------------------------------------------------------------
\* Entries tell what they are.
LEMMA EntryFields ==
    /\ \A i : Version(i).type = "version" /\ Version(i).iteration = i
    /\ \A c : Changes(c).type = "changes" /\ Changes(c).commit = c
    /\ \A r : Marker(r).type = "checkpoint" /\ Marker(r).root = r
    /\ Flushed.type = "flush" /\ Torn.type = "torn"
BY DEF Version, Changes, Marker, Flushed, Torn

\* The entries that are written are entries.
LEMMA EntryTypes ==
    /\ \A c \in Commits : Changes(c) \in Entries
    /\ \A r \in Roots : Marker(r) \in Entries
    /\ \A i \in 0 .. MaxCheckpoints + 2 : Version(i) \in Entries
    /\ Flushed \in Entries /\ Torn \in Entries
BY Zenon DEF Entries

\* The lengths of a log and of the file that holds it.
LEMMA LogFacts ==
    ASSUME NEW log \in Logs
    PROVE  /\ Len(log) \in Nat /\ End(log) \in Nat /\ Size(log) \in Nat
           /\ log = <<>> <=> Len(log) = 0
           /\ Size(log) = IF log = <<>> THEN 0 ELSE End(log)
           /\ End(log) >= 1 /\ (log # <<>> => End(log) >= 3)
           /\ End(log) = 2 * Len(log) + 1
           /\ \A i \in 1 .. Len(log) : log[i] \in Commits
BY EmptySeq DEF End, Size, Logs

\* The entries of a file, of which only the last can be torn.
LEMMA FileFacts ==
    ASSUME NEW es \in Files
    PROVE  /\ es \in Seq(Entries) /\ Len(es) \in Nat
           /\ es = <<>> <=> Len(es) = 0
           /\ \A i \in 1 .. Len(es) : es[i] \in Entries
           /\ \A i \in 1 .. Len(es) : es[i].type = "torn" => i = Len(es)
BY EmptySeq DEF Files

\* The empty file and the empty log.
LEMMA EmptyFile == <<>> \in Files /\ Len(<<>>) = 0 /\ <<>> \in Logs /\ End(<<>>) = 1 /\ Size(<<>>) = 0
BY DEF Files, Logs, End, Size

\* A file that exists is not NoFile.
LEMMA NoFileIsNoFile == NoFile \notin Files
BY NullAssumption DEF Files

\* What Holds says of a file, it says of one with the same entries.
LEMMA HoldsAgree ==
    ASSUME NEW es \in Seq(Entries), NEW fs \in Seq(Entries), NEW log \in Logs, Holds(es, log), Len(fs) >= End(log),
           \A k \in 1 .. End(log) : fs[k] = es[k]
    PROVE  Holds(fs, log)
<1>1. \A i \in 1 .. Len(log) : 2 * i \in 1 .. End(log) /\ 2 * i + 1 \in 1 .. End(log)
  BY LogFacts DEF End
<1>2. 1 \in 1 .. End(log)
  BY LogFacts
<1> QED
  BY <1>1, <1>2 DEF Holds

\* A prefix of a file, whole or with a torn entry.
LEMMA Prefix ==
    ASSUME NEW es \in Files, NEW k \in 0 .. Len(es)
    PROVE  /\ SubSeq(es, 1, k) \in Files /\ Len(SubSeq(es, 1, k)) = k
           /\ \A i \in 1 .. k : SubSeq(es, 1, k)[i] = es[i]
<1>1. SubSeq(es, 1, k) \in Seq(Entries) /\ Len(SubSeq(es, 1, k)) = k
  BY FileFacts, SubSeqProperties
<1>2. \A i \in 1 .. k : SubSeq(es, 1, k)[i] = es[i]
  BY FileFacts, SubSeqProperties
<1>3. ASSUME NEW i \in 1 .. k, es[i].type = "torn" PROVE i = k
  BY <1>3, FileFacts
<1> QED
  BY <1>1, <1>2, <1>3 DEF Files

\* One entry more, after entries that can all be read.
LEMMA AppendEntry ==
    ASSUME NEW es \in Files, NEW e \in Entries, \A i \in 1 .. Len(es) : es[i].type # "torn"
    PROVE  /\ Append(es, e) \in Files /\ Len(Append(es, e)) = Len(es) + 1
           /\ \A i \in 1 .. Len(es) : Append(es, e)[i] = es[i]
           /\ Append(es, e)[Len(es) + 1] = e
<1>1. /\ Append(es, e) \in Seq(Entries) /\ Len(Append(es, e)) = Len(es) + 1
      /\ \A i \in 1 .. Len(es) : Append(es, e)[i] = es[i]
      /\ Append(es, e)[Len(es) + 1] = e
  BY FileFacts
<1>2. ASSUME NEW i \in 1 .. Len(es) + 1, Append(es, e)[i].type = "torn" PROVE i = Len(es) + 1
  <2>1. Len(es) \in Nat
    BY FileFacts
  <2>2. i \in 1 .. Len(es) \/ i = Len(es) + 1
    BY <2>1
  <2> QED
    BY <1>1, <1>2, <2>2
<1> QED
  BY <1>1, <1>2 DEF Files

\* The entries of one file after those of another.
LEMMA Concatenate ==
    ASSUME NEW es \in Files, NEW fs \in Files, \A i \in 1 .. Len(es) : es[i].type # "torn"
    PROVE  /\ es \o fs \in Files /\ Len(es \o fs) = Len(es) + Len(fs)
           /\ \A i \in 1 .. Len(es) : (es \o fs)[i] = es[i]
           /\ \A i \in 1 .. Len(fs) : (es \o fs)[Len(es) + i] = fs[i]
<1>1. /\ es \o fs \in Seq(Entries) /\ Len(es \o fs) = Len(es) + Len(fs)
      /\ \A i \in 1 .. Len(es) + Len(fs) : (es \o fs)[i] = IF i <= Len(es) THEN es[i] ELSE fs[i - Len(es)]
  BY FileFacts, ConcatProperties
<1>2. Len(es) \in Nat /\ Len(fs) \in Nat
  BY FileFacts
<1>3. \A i \in 1 .. Len(es) : (es \o fs)[i] = es[i]
  BY <1>1, <1>2
<1>4. \A i \in 1 .. Len(fs) : (es \o fs)[Len(es) + i] = fs[i]
  <2> TAKE i \in 1 .. Len(fs)
  <2>1. Len(es) + i \in 1 .. Len(es) + Len(fs) /\ ~(Len(es) + i <= Len(es)) /\ Len(es) + i - Len(es) = i
    BY <1>2
  <2> QED
    BY <1>1, <2>1
<1>5. ASSUME NEW i \in 1 .. Len(es) + Len(fs), (es \o fs)[i].type = "torn" PROVE i = Len(es) + Len(fs)
  <2>1. CASE i <= Len(es)
    BY <1>2, <1>3, <1>5, <2>1
  <2>2. CASE i > Len(es)
    <3>1. i - Len(es) \in 1 .. Len(fs) /\ (es \o fs)[i] = fs[i - Len(es)]
      BY <1>1, <1>2, <2>2
    <3>2. i - Len(es) = Len(fs)
      BY <1>5, <3>1, FileFacts
    <3> QED
      BY <1>2, <3>2
  <2> QED
    BY <1>2, <2>1, <2>2
<1> QED
  BY <1>1, <1>3, <1>4, <1>5 DEF Files

-----------------------------------------------------------------------------
\* The shapes of a file and what writers, crashes and the replay make of them.
LEMMA CleanFile ==
    ASSUME NEW es \in Files, NEW log \in Logs, Clean(es, log)
    PROVE  /\ Dead(es, log) /\ Len(es) = Size(log) /\ \A i \in 1 .. Len(es) : es[i].type # "torn"
           /\ es = <<>> <=> log = <<>>
<1>1. CASE log = <<>>
  BY <1>1, LogFacts, FileFacts DEF Clean, Dead
<1>2. CASE log # <<>>
  <2>1. /\ Holds(es, log) /\ Len(es) = End(log) /\ Len(log) \in 1 .. Len(log) /\ End(log) >= 3
        /\ Len(es) = 2 * Len(log) + 1 /\ Len(es) \in Nat
    BY <1>2, LogFacts, FileFacts DEF Clean
  <2>2. es[Len(es)].type = "flush"
    BY <2>1 DEF Holds
  <2>3. \A i \in 1 .. Len(es) : es[i].type # "torn"
    BY <2>2, FileFacts
  <2>4. Dead(es, log)
    BY <2>1, LogFacts DEF Dead
  <2> QED
    BY <1>2, <2>1, <2>3, <2>4, FileFacts DEF Clean
<1> QED
  BY <1>1, <1>2

\* The changes of a commit that no WAL_FLUSH follows do not count.
LEMMA OpenFile ==
    ASSUME NEW es \in Files, NEW log \in Logs, NEW c, Open(es, log, c)
    PROVE  Dead(es, log) /\ Len(es) = End(log) + 1 /\ \A i \in 1 .. Len(es) : es[i].type # "torn"
<1>1. Len(es) = End(log) + 1 /\ Len(es) \in Nat /\ End(log) \in Nat
  BY LogFacts, FileFacts DEF Open
<1>2. es[Len(es)].type = "changes"
  BY <1>1 DEF Open
<1>3. \A i \in 1 .. Len(es) : es[i].type # "torn"
  BY <1>2, FileFacts
<1>4. Dead(es, log)
  BY <1>1 DEF Dead, Open
<1> QED
  BY <1>1, <1>3, <1>4

\* The first entries of a commit or a checkpoint.
Headed(b, i) == IF b = <<>> THEN <<Version(i)>> ELSE b

\* WriteHeader and the entries es, after the commits of log.
LEMMA BeginEntries ==
    ASSUME NEW b \in Files, NEW log \in Logs, Clean(b, log), NEW i \in 0 .. MaxCheckpoints + 2,
           NEW es \in Files
    PROVE  \E g \in Files :
              /\ g = Headed(b, i) \o es /\ Holds(g, log)
              /\ Len(g) = End(log) + Len(es)
              /\ \A k \in 1 .. Len(es) : g[End(log) + k] = es[k]
              /\ g[1] = Headed(b, i)[1]
<1>0. PICK h : h = Headed(b, i)
  OBVIOUS
<1>1. /\ h \in Files /\ Len(h) = End(log) /\ Holds(h, log)
      /\ \A k \in 1 .. Len(h) : h[k].type # "torn"
  <2>1. CASE b = <<>>
    <3>1. log = <<>> /\ h = <<Version(i)>>
      BY <1>0, <2>1, CleanFile DEF Headed
    <3>2. h \in Seq(Entries) /\ Len(h) = 1 /\ h[1] = Version(i)
      <4>1. PICK e \in Entries : e = Version(i)
        BY EntryTypes
      <4>2. h = <<e>>
        BY <3>1, <4>1
      <4>3. <<e>> \in Seq(Entries) /\ Len(<<e>>) = 1 /\ <<e>>[1] = e
        OBVIOUS
      <4> QED
        BY <4>1, <4>2, <4>3, Zenon
    <3>3. h[1].type = "version"
      BY <3>2, EntryFields
    <3> QED
      BY <3>1, <3>2, <3>3, EmptyFile DEF Files, Holds
  <2>2. CASE b # <<>>
    <3>1. h = b
      BY <1>0, <2>2 DEF Headed
    <3> QED
      BY <2>2, <3>1, LogFacts, FileFacts, CleanFile DEF Clean
  <2> QED
    BY <2>1, <2>2
<1>2. /\ h \o es \in Files /\ Len(h \o es) = End(log) + Len(es)
      /\ \A k \in 1 .. Len(h) : (h \o es)[k] = h[k]
      /\ \A k \in 1 .. Len(es) : (h \o es)[End(log) + k] = es[k]
  <2>1. /\ h \o es \in Files /\ Len(h \o es) = Len(h) + Len(es)
        /\ \A k \in 1 .. Len(h) : (h \o es)[k] = h[k]
        /\ \A k \in 1 .. Len(es) : (h \o es)[Len(h) + k] = es[k]
    BY <1>1, Concatenate
  <2> QED
    BY <1>1, <2>1
<1>3. Len(h \o es) >= End(log) /\ 1 \in 1 .. Len(h)
  BY <1>1, <1>2, LogFacts, FileFacts
<1>4. Holds(h \o es, log)
  BY <1>1, <1>2, <1>3, HoldsAgree, FileFacts
<1>5. (h \o es)[1] = h[1]
  BY <1>2, <1>3
<1>6. PICK g : g = h \o es
  OBVIOUS
<1>7. /\ g \in Files /\ g = Headed(b, i) \o es /\ Holds(g, log) /\ Len(g) = End(log) + Len(es)
      /\ \A k \in 1 .. Len(es) : g[End(log) + k] = es[k]
      /\ g[1] = Headed(b, i)[1]
  BY <1>0, <1>2, <1>4, <1>5, <1>6
<1> QED
  BY <1>7

\* A WAL_FLUSH makes a commit of the changes.
LEMMA FlushEntry ==
    ASSUME NEW es \in Files, NEW log \in Logs, NEW c \in Commits, Open(es, log, c)
    PROVE  /\ Append(log, c) \in Logs /\ Append(log, c) # <<>>
           /\ Append(es, Flushed) \in Files /\ Clean(Append(es, Flushed), Append(log, c))
           /\ Size(Append(log, c)) = End(log) + 2
           /\ Append(es, Flushed)[1] = es[1]
<1>1. /\ Append(log, c) \in Logs /\ Len(Append(log, c)) = Len(log) + 1
      /\ Append(log, c) # <<>>
      /\ \A i \in 1 .. Len(log) : Append(log, c)[i] = log[i]
      /\ Append(log, c)[Len(log) + 1] = c
  BY DEF Logs
<1>2. /\ Append(es, Flushed) \in Files /\ Len(Append(es, Flushed)) = Len(es) + 1
      /\ \A k \in 1 .. Len(es) : Append(es, Flushed)[k] = es[k]
      /\ Append(es, Flushed)[Len(es) + 1] = Flushed
  BY EntryTypes, AppendEntry, OpenFile
<1>3. End(Append(log, c)) = End(log) + 2 /\ Size(Append(log, c)) = End(log) + 2
  BY <1>1, LogFacts DEF End, Size
<1>4. Len(es) = End(log) + 1 /\ End(log) = 2 * Len(log) + 1 /\ Len(log) \in Nat
  BY LogFacts DEF Open
<1>5. 1 \in 1 .. Len(es)
  BY <1>4
<1>6. Holds(Append(es, Flushed), Append(log, c))
  <2>1. ASSUME NEW i \in 1 .. Len(Append(log, c))
        PROVE  /\ Append(es, Flushed)[2 * i].type = "changes"
               /\ Append(es, Flushed)[2 * i].commit = Append(log, c)[i]
               /\ Append(es, Flushed)[2 * i + 1].type = "flush"
    <3>1. CASE i \in 1 .. Len(log)
      <4>1. 2 * i \in 1 .. Len(es) /\ 2 * i + 1 \in 1 .. Len(es)
        BY <1>4, <3>1
      <4> QED
        BY <1>1, <1>2, <3>1, <4>1 DEF Open, Holds
    <3>2. CASE i = Len(log) + 1
      <4>1. 2 * i = Len(es) /\ 2 * i + 1 = Len(es) + 1 /\ Len(es) \in 1 .. Len(es) /\ 2 * i = End(log) + 1
        BY <1>4, <3>2
      <4>2. Append(es, Flushed)[2 * i] = es[End(log) + 1] /\ Append(es, Flushed)[2 * i + 1] = Flushed
        BY <1>2, <4>1
      <4>3. Append(log, c)[i] = c
        BY <1>1, <3>2
      <4> QED
        BY <4>2, <4>3, EntryFields DEF Open
    <3> QED
      BY <1>1, <1>4, <3>1, <3>2
  <2>2. Append(es, Flushed)[1].type = "version"
    BY <1>2, <1>5 DEF Open, Holds
  <2>3. Len(Append(es, Flushed)) >= End(Append(log, c))
    BY <1>2, <1>3, <1>4
  <2> QED
    BY <2>1, <2>2, <2>3 DEF Holds
<1>7. Len(Append(es, Flushed)) = Size(Append(log, c))
  BY <1>2, <1>3, <1>4
<1> QED
  BY <1>1, <1>2, <1>3, <1>5, <1>6, <1>7 DEF Clean

\* Truncating a file to its commits.
LEMMA Truncation ==
    ASSUME NEW es \in Files, NEW log \in Logs, log = <<>> \/ Holds(es, log)
    PROVE  /\ SubSeq(es, 1, Size(log)) \in Files /\ Clean(SubSeq(es, 1, Size(log)), log)
           /\ Len(SubSeq(es, 1, Size(log))) = Size(log) /\ Size(log) <= Len(es)
           /\ log # <<>> => SubSeq(es, 1, Size(log))[1] = es[1]
<1>1. Size(log) \in 0 .. Len(es)
  BY LogFacts, FileFacts DEF Holds
<1>2. /\ SubSeq(es, 1, Size(log)) \in Files /\ Len(SubSeq(es, 1, Size(log))) = Size(log)
      /\ \A k \in 1 .. Size(log) : SubSeq(es, 1, Size(log))[k] = es[k]
  BY <1>1, Prefix
<1>3. ASSUME log # <<>> PROVE Holds(SubSeq(es, 1, Size(log)), log) /\ 1 \in 1 .. Size(log)
  <2>1. PICK fs \in Files : fs = SubSeq(es, 1, Size(log))
    BY <1>2
  <2>2. Size(log) = End(log) /\ Holds(es, log) /\ 1 \in 1 .. Size(log) /\ End(log) \in Nat
    BY <1>3, LogFacts
  <2>3. Len(fs) >= End(log) /\ \A k \in 1 .. End(log) : fs[k] = es[k]
    BY <1>2, <2>1, <2>2
  <2>4. Holds(fs, log)
    BY <2>2, <2>3, HoldsAgree, FileFacts
  <2> QED
    BY <2>1, <2>2, <2>4
<1> QED
  BY <1>1, <1>2, <1>3 DEF Clean

-----------------------------------------------------------------------------
\* What a crash leaves of a file: k entries and possibly a part of the next.
Cut(es, k, d) ==
    /\ d \in Files /\ k \in 0 .. Len(es) /\ Len(d) \in {k, k + 1}
    /\ Len(d) = k + 1 => d[k + 1].type = "torn" /\ k < Len(es)
    /\ \A i \in 1 .. k : d[i] = es[i]

\* What a crash leaves of a file is one of its prefixes that has what was synced, perhaps
\* with a torn entry.
LEMMA CutOfRemains ==
    ASSUME NEW p \in Paths, disk[p] \in Files, synced[p] \in 0 .. Len(disk[p]), NEW d \in Remains(p)
    PROVE  \E k \in synced[p] .. Len(disk[p]) :
              Cut(disk[p], k, d) /\ ("torn_header" \in behaviours \/ k > 0 \/ Len(d) = 0)
<1>1. disk[p] # NoFile /\ Len(disk[p]) \in Nat
  BY NoFileIsNoFile, FileFacts
<1>2. CASE \E k \in synced[p] .. Len(disk[p]) : d = SubSeq(disk[p], 1, k)
  <2>1. PICK k \in synced[p] .. Len(disk[p]) : d = SubSeq(disk[p], 1, k)
    BY <1>2
  <2>2. k \in 0 .. Len(disk[p])
    BY <1>1
  <2>3. d \in Files /\ Len(d) = k /\ \A i \in 1 .. k : d[i] = disk[p][i]
    BY <2>1, <2>2, Prefix
  <2>4. Cut(disk[p], k, d) /\ (k > 0 \/ Len(d) = 0)
    BY <2>2, <2>3 DEF Cut
  <2> QED
    BY <2>4
<1>3. CASE \E k \in {j \in synced[p] .. Len(disk[p]) - 1 : "torn" \in behaviours /\ (j > 0 \/ "torn_header" \in behaviours)} :
              d = Append(SubSeq(disk[p], 1, k), Torn)
  <2>1. PICK k \in synced[p] .. Len(disk[p]) - 1 :
               d = Append(SubSeq(disk[p], 1, k), Torn) /\ (k > 0 \/ "torn_header" \in behaviours)
    BY <1>3
  <2>2. k \in 0 .. Len(disk[p]) /\ k < Len(disk[p]) /\ k \in synced[p] .. Len(disk[p])
    BY <1>1
  <2>3. PICK fs \in Files : fs = SubSeq(disk[p], 1, k) /\ Len(fs) = k /\ \A i \in 1 .. k : fs[i] = disk[p][i]
    BY <2>2, Prefix
  <2>4. \A i \in 1 .. Len(fs) : fs[i].type # "torn"
    BY <1>1, <2>2, <2>3, FileFacts
  <2>5. /\ Append(fs, Torn) \in Files /\ Len(Append(fs, Torn)) = k + 1
        /\ \A i \in 1 .. k : Append(fs, Torn)[i] = fs[i]
        /\ Append(fs, Torn)[k + 1] = Torn
    <3>1. Torn \in Entries
      BY EntryTypes
    <3>2. /\ Append(fs, Torn) \in Files /\ Len(Append(fs, Torn)) = Len(fs) + 1
          /\ \A i \in 1 .. Len(fs) : Append(fs, Torn)[i] = fs[i]
          /\ Append(fs, Torn)[Len(fs) + 1] = Torn
      BY <2>4, <3>1, AppendEntry
    <3> QED
      BY <2>3, <3>2
  <2>6. d = Append(fs, Torn)
    BY <2>1, <2>3
  <2>7. Cut(disk[p], k, d)
    BY <2>2, <2>3, <2>5, <2>6, EntryFields DEF Cut
  <2> QED
    BY <2>1, <2>2, <2>7
<1> QED
  BY <1>1, <1>2, <1>3 DEF Remains

\* A crash leaves a file that was synced as it was.
LEMMA CutNothing ==
    ASSUME NEW es \in Files, NEW d, Cut(es, Len(es), d)
    PROVE  d = es
<1>1. d \in Files /\ Len(d) = Len(es) /\ \A i \in 1 .. Len(es) : d[i] = es[i] /\ Len(es) \in Nat
  BY FileFacts DEF Cut
<1> QED
  BY <1>1, FileFacts, SeqEqual

\* The commits before the cut are still there.
LEMMA CutHolds ==
    ASSUME NEW es \in Files, NEW log \in Logs, NEW k, NEW d, Cut(es, k, d), k >= End(log), Holds(es, log)
    PROVE  d \in Files /\ Holds(d, log)
<1>1. /\ d \in Files /\ k \in Nat /\ Len(d) \in Nat /\ Len(d) >= k /\ End(log) \in Nat
      /\ \A i \in 1 .. k : d[i] = es[i]
  BY LogFacts, FileFacts DEF Cut
<1>2. Len(d) >= End(log) /\ \A i \in 1 .. End(log) : d[i] = es[i]
  BY <1>1
<1> QED
  BY <1>1, <1>2, HoldsAgree, FileFacts

\* A crash that keeps the commits of log leaves nothing else that counts.
LEMMA CutDead ==
    ASSUME NEW es \in Files, NEW log \in Logs, NEW k, NEW d, Cut(es, k, d), k >= Size(log),
           Dead(es, log) \/ (Holds(es, log) /\ k <= End(log) + 1 /\ (k = End(log) + 1 => es[End(log) + 1].type = "changes"))
    PROVE  d \in Files /\ Dead(d, log)
<1>1. /\ d \in Files /\ k \in Nat /\ Len(d) \in Nat /\ Len(d) \in {k, k + 1}
      /\ End(log) \in Nat /\ Len(es) \in Nat /\ k <= Len(es)
      /\ Len(d) = k + 1 => d[k + 1].type = "torn" /\ k < Len(es)
      /\ \A i \in 1 .. k : d[i] = es[i]
      /\ d = <<>> <=> Len(d) = 0
      /\ Size(log) = IF log = <<>> THEN 0 ELSE End(log)
      /\ log = <<>> => End(log) = 1
      /\ End(log) >= 1
  BY LogFacts, FileFacts, EmptyFile DEF Cut
<1>2. CASE k = 0
  <2>1. log = <<>>
    BY <1>1, <1>2
  <2> QED
    BY <1>1, <1>2, <2>1 DEF Dead
<1>3. CASE k > 0 /\ Len(es) = 1 /\ es[1].type = "torn" /\ log = <<>>
  <2>1. k = 1 /\ Len(d) = 1
    <3>1. k = 1
      BY <1>1, <1>3
    <3>2. Len(d) # 2
      BY <1>1, <1>3, <3>1
    <3> QED
      BY <1>1, <3>1, <3>2
  <2>2. d[1] = es[1]
    BY <1>1, <2>1
  <2> QED
    BY <1>1, <1>3, <2>1, <2>2 DEF Dead
<1>4. CASE k > 0 /\ Holds(es, log)
  <2>1. k >= End(log)
    BY <1>1, <1>4
  <2>2. Holds(d, log)
    BY <1>4, <2>1, CutHolds
  <2>3. /\ k <= End(log) + 2
        /\ k >= End(log) + 1 => es[End(log) + 1].type \in {"changes", "torn"}
        /\ k = End(log) + 2 => es[End(log) + 1].type = "changes" /\ es[End(log) + 2].type = "torn"
        /\ k < Len(es) /\ k >= End(log) + 1 => es[End(log) + 1].type = "changes" /\ k = End(log) + 1
    <3>1. CASE Dead(es, log)
      <4>1. es # <<>> /\ ~(log = <<>> /\ Len(es) = 1 /\ es[1].type = "torn")
        BY <1>1, <1>4, FileFacts DEF Holds
      <4>2. /\ Len(es) <= End(log) + 2
            /\ Len(es) > End(log) => es[End(log) + 1].type \in {"changes", "torn"}
            /\ Len(es) = End(log) + 2 => es[End(log) + 1].type = "changes" /\ es[End(log) + 2].type = "torn"
        BY <3>1, <4>1 DEF Dead
      <4> QED
        BY <1>1, <2>1, <4>2
    <3>2. CASE k <= End(log) + 1 /\ (k = End(log) + 1 => es[End(log) + 1].type = "changes")
      BY <1>1, <2>1, <3>2
    <3> QED
      BY <3>1, <3>2
  <2>4. CASE Len(d) = k
    BY <1>1, <2>1, <2>2, <2>3, <2>4 DEF Dead
  <2>5. CASE Len(d) = k + 1
    BY <1>1, <2>1, <2>2, <2>3, <2>5 DEF Dead
  <2> QED
    BY <1>1, <2>4, <2>5
<1>5. k = 0 \/ (Len(es) = 1 /\ es[1].type = "torn" /\ log = <<>>) \/ Holds(es, log)
  <2>1. CASE es = <<>>
    BY <1>1, <2>1, EmptyFile
  <2> QED
    BY <2>1 DEF Dead
<1> QED
  BY <1>1, <1>2, <1>3, <1>4, <1>5

\* A crash before the commit is acknowledged keeps it or loses it.
LEMMA CutSync ==
    ASSUME NEW es \in Files, NEW log \in Logs, NEW c \in Commits, Clean(es, Append(log, c)),
           NEW k, NEW d, Cut(es, k, d), k >= Size(log)
    PROVE  d \in Files /\ (Dead(d, log) \/ Dead(d, Append(log, c)))
<1>1. /\ Append(log, c) \in Logs /\ Len(Append(log, c)) = Len(log) + 1
      /\ \A i \in 1 .. Len(log) : Append(log, c)[i] = log[i]
      /\ Len(log) \in Nat /\ Append(log, c) # <<>>
  BY DEF Logs
<1>2. End(Append(log, c)) = End(log) + 2 /\ Size(Append(log, c)) = End(log) + 2 /\ End(log) \in Nat /\ End(log) = 2 * Len(log) + 1
  BY <1>1, LogFacts DEF End, Size
<1>3. Len(es) = End(log) + 2 /\ Holds(es, Append(log, c)) /\ Dead(es, Append(log, c))
  BY <1>1, <1>2, CleanFile DEF Clean
<1>4. Holds(es, log) /\ es[End(log) + 1].type = "changes"
  <2>1. Len(log) + 1 \in 1 .. Len(Append(log, c)) /\ 2 * (Len(log) + 1) = End(log) + 1
    BY <1>1, <1>2
  <2>2. \A i \in 1 .. Len(log) : i \in 1 .. Len(Append(log, c))
    BY <1>1
  <2>3. Len(es) >= End(log)
    BY <1>2, <1>3
  <2> QED
    BY <1>1, <1>3, <2>1, <2>2, <2>3 DEF Holds
<1>5. k \in Nat /\ k <= Len(es)
  BY FileFacts DEF Cut
<1>6. CASE k <= End(log) + 1
  BY <1>4, <1>6, CutDead
<1>7. CASE k = End(log) + 2
  <2>1. k >= Size(Append(log, c))
    BY <1>2, <1>7
  <2> QED
    BY <1>1, <1>3, <2>1, CutDead
<1> QED
  BY <1>2, <1>3, <1>5, <1>6, <1>7

\* A crash before the marker is synced keeps it or loses it.
LEMMA CutClosed ==
    ASSUME NEW es \in Files, NEW log \in Logs, NEW r, Closed(es, log, r),
           NEW k, NEW d, Cut(es, k, d), k >= End(log)
    PROVE  d \in Files /\ (Dead(d, log) \/ Marked(d, log, r))
<1>1. /\ d \in Files /\ k \in Nat /\ Len(d) \in Nat /\ Len(d) \in {k, k + 1}
      /\ End(log) \in Nat /\ Len(es) = End(log) + 2 /\ k <= Len(es)
      /\ Len(d) = k + 1 => d[k + 1].type = "torn" /\ k < Len(es)
      /\ \A i \in 1 .. k : d[i] = es[i]
      /\ Size(log) = End(log) /\ End(log) >= 1
  BY LogFacts, FileFacts DEF Cut, Closed, Marked
<1>2. Holds(es, log)
  BY DEF Closed, Marked
<1>3. CASE k = End(log)
  BY <1>1, <1>2, <1>3, CutDead
<1>4. CASE k > End(log)
  <2>1. Holds(d, log)
    BY <1>1, <1>2, CutHolds
  <2>2. d[End(log) + 1] = es[End(log) + 1] /\ (k = End(log) + 2 => d[End(log) + 2] = es[End(log) + 2])
    BY <1>1, <1>4
  <2>3. Len(d) \in {End(log) + 1, End(log) + 2} /\ (Len(d) = End(log) + 2 => d[End(log) + 2].type \in {"flush", "torn"})
    BY <1>1, <1>4, <2>2 DEF Closed
  <2> QED
    BY <1>1, <2>1, <2>2, <2>3 DEF Closed, Marked
<1> QED
  BY <1>1, <1>3, <1>4

-----------------------------------------------------------------------------
\* The replay of a file.
LEMMA ReadableFile ==
    ASSUME NEW es \in Files
    PROVE  /\ es # <<>> /\ es[Len(es)].type = "torn" => Readable(es) = SubSeq(es, 1, Len(es) - 1)
           /\ es = <<>> \/ es[Len(es)].type # "torn" => Readable(es) = es
<1>1. Len(es) \in Nat /\ (es = <<>> <=> Len(es) = 0)
      /\ \A i \in 1 .. Len(es) : es[i].type = "torn" => i = Len(es)
  BY FileFacts
<1>2. ASSUME es # <<>>, es[Len(es)].type = "torn" PROVE Readable(es) = SubSeq(es, 1, Len(es) - 1)
  <2>1. {i \in 1 .. Len(es) : es[i].type = "torn"} = {Len(es)}
    BY <1>1, <1>2
  <2>2. Min({Len(es)}) = Len(es)
    BY <1>1 DEF Min
  <2>3. SelectInSeq(es, LAMBDA e : e.type = "torn") = Len(es)
    BY <2>1, <2>2 DEF SelectInSeq
  <2>4. Len(es) # 0
    BY <1>1, <1>2
  <2> QED
    BY <2>3, <2>4 DEF Readable
<1>3. ASSUME es = <<>> \/ es[Len(es)].type # "torn" PROVE Readable(es) = es
  <2>1. {i \in 1 .. Len(es) : es[i].type = "torn"} = {}
    BY <1>1, <1>3
  <2>2. SelectInSeq(es, LAMBDA e : e.type = "torn") = 0
    BY <2>1 DEF SelectInSeq
  <2> QED
    BY <2>2 DEF Readable
<1> QED
  BY <1>2, <1>3

\* The last WAL_FLUSH is the one after which there is none.
LEMMA LastFlushIs ==
    ASSUME NEW es, NEW n \in Nat, NEW x \in 0 .. n, x = 0 \/ es[x].type = "flush",
           \A i \in x + 1 .. n : es[i].type # "flush"
    PROVE  LastFlush(es, n) = x
<1>1. CASE x = 0
  <2>1. {i \in 1 .. n : es[i].type = "flush"} = {}
    BY <1>1
  <2> QED
    BY <1>1, <2>1 DEF LastFlush, SelectLastInSubSeq
<1>2. CASE x # 0
  <2>1. PICK S : S = {i \in 1 .. n : es[i].type = "flush"}
    OBVIOUS
  <2>2. x \in S /\ (\A y \in S : x >= y) /\ S \subseteq Nat
    BY <1>2, <2>1
  <2>3. Max(S) = x
    <3>1. \E y \in S : \A z \in S : y >= z
      BY <2>2
    <3>2. Max(S) \in S /\ \A z \in S : Max(S) >= z
      BY <3>1, Zenon DEF Max
    <3>3. Max(S) \in Nat /\ Max(S) >= x /\ x >= Max(S)
      BY <2>2, <3>2
    <3> QED
      BY <3>3
  <2>4. S # {}
    BY <2>2
  <2> QED
    BY <2>1, <2>3, <2>4 DEF LastFlush, SelectLastInSubSeq
<1> QED
  BY <1>1, <1>2

\* The types of the entries of a file with the commits of log.
LEMMA HeldTypes ==
    ASSUME NEW es \in Files, NEW log \in Logs, Holds(es, log), NEW k \in 1 .. End(log)
    PROVE  /\ es[k].type \in {"version", "changes", "flush"}
           /\ k = End(log) /\ log # <<>> => es[k].type = "flush"
           /\ k = End(log) /\ log = <<>> => es[k].type = "version"
<1>1. Len(log) \in Nat /\ End(log) = 2 * Len(log) + 1 /\ (log = <<>> <=> Len(log) = 0)
  BY LogFacts
<1>2. k = 1 \/ (\E i \in 1 .. Len(log) : k = 2 * i) \/ (\E i \in 1 .. Len(log) : k = 2 * i + 1)
  <2>1. PICK j \in Nat : k = 2 * j \/ k = 2 * j + 1
    <3>1. k \div 2 \in Nat /\ (k = 2 * (k \div 2) \/ k = 2 * (k \div 2) + 1)
      BY <1>1
    <3> QED
      BY <3>1
  <2>2. j = 0 \/ j \in 1 .. Len(log)
    BY <1>1, <2>1
  <2> QED
    BY <2>1, <2>2
<1>3. log # <<>> => Len(log) \in 1 .. Len(log) /\ End(log) # 1
  BY <1>1
<1>4. log = <<>> => End(log) = 1
  BY <1>1
<1>5. k = End(log) /\ log # <<>> => es[k].type = "flush"
  BY <1>1, <1>3 DEF Holds
<1>6. es[k].type \in {"version", "changes", "flush"}
  BY <1>2 DEF Holds
<1> QED
  BY <1>4, <1>5, <1>6 DEF Holds

\* The equation of the recursive function Applied(es).
AppliedStep(es, g) ==
    [k \in 0 .. Len(es) |-> IF k = 0 THEN <<>>
                            ELSE IF es[k].type = "changes" THEN Append(g[k - 1], es[k].commit)
                            ELSE g[k - 1]]

\* The commits that are applied, entry by entry: there is one function that satisfies the
\* recursion, by induction over the entries.
LEMMA AppliedUnique ==
    ASSUME NEW es \in Files, NEW f, f = AppliedStep(es, f)
    PROVE  Applied(es) = f
<1>1. Applied(es) = CHOOSE g : g = AppliedStep(es, g)
  BY Zenon DEF Applied, AppliedStep
<1>2. PICK g : g = Applied(es)
  OBVIOUS
<1>3. g = AppliedStep(es, g)
  BY <1>1, <1>2, Zenon
<1>4. Len(es) \in Nat
  BY FileFacts
<1>5. \A k \in 0 .. Len(es) : g[k] = f[k]
  <2> DEFINE D == {k \in 0 .. Len(es) : g[k] # f[k]}
  <2> SUFFICES ASSUME D # {} PROVE FALSE
    OBVIOUS
  <2>1. D \subseteq Nat
    BY <1>4
  <2> HIDE DEF D
  <2>2. PICK k \in D : \A j \in D : ~(<<j, k>> \in OpToRel(<, Nat))
    BY <2>1, NatLessThanWellFounded, WFMin, Zenon
  <2>3. \A j \in D : ~(j < k)
    BY <2>1, <2>2 DEF OpToRel
  <2>4. k \in 0 .. Len(es) /\ g[k] # f[k]
    BY DEF D
  <2>5. CASE k = 0
    BY <1>3, <1>4, <2>4, <2>5 DEF AppliedStep
  <2>6. CASE k # 0
    <3>1. k - 1 \in 0 .. Len(es) /\ k - 1 < k
      BY <1>4, <2>4, <2>6
    <3>2. g[k - 1] = f[k - 1]
      BY <2>3, <3>1 DEF D
    <3>3. /\ g[k] = IF es[k].type = "changes" THEN Append(g[k - 1], es[k].commit) ELSE g[k - 1]
          /\ f[k] = IF es[k].type = "changes" THEN Append(f[k - 1], es[k].commit) ELSE f[k - 1]
      BY <1>3, <2>4, <2>6 DEF AppliedStep
    <3> QED
      BY <2>4, <3>2, <3>3
  <2> QED
    BY <2>5, <2>6
<1>6. /\ g = [k \in 0 .. Len(es) |-> g[k]]
      /\ f = [k \in 0 .. Len(es) |-> f[k]]
  BY <1>3 DEF AppliedStep
<1> QED
  BY <1>2, <1>5, <1>6, Zenon

\* A prefix of a log is a log.
LEMMA LogPrefix ==
    ASSUME NEW log \in Logs, NEW k \in 0 .. Len(log)
    PROVE  /\ SubSeq(log, 1, k) \in Logs /\ Len(SubSeq(log, 1, k)) = k
           /\ \A i \in 1 .. k : SubSeq(log, 1, k)[i] = log[i]
<1>1. SubSeq(log, 1, k) \in Seq(Commits) /\ Len(SubSeq(log, 1, k)) = k
  BY LogFacts, SubSeqProperties DEF Logs
<1>2. \A i \in 1 .. k : SubSeq(log, 1, k)[i] = log[i]
  BY LogFacts, SubSeqProperties DEF Logs
<1> QED
  BY <1>1, <1>2 DEF Logs

\* The commits of log are applied, and then a commit that no WAL_FLUSH follows.
LEMMA AppliedHeld ==
    ASSUME NEW es \in Files, NEW log \in Logs, Holds(es, log), Len(es) <= End(log) + 2,
           Len(es) = End(log) + 2 => es[End(log) + 2].type # "changes"
    PROVE  /\ Applied(es)[0] = <<>> /\ Applied(es)[End(log)] = log
           /\ Len(es) = End(log) + 2 /\ es[End(log) + 1].type # "changes" => Applied(es)[End(log) + 2] = log
<1>1. /\ Len(es) \in Nat /\ Len(log) \in Nat /\ End(log) = 2 * Len(log) + 1 /\ End(log) \in Nat
      /\ Len(es) >= End(log)
  BY LogFacts, FileFacts DEF Holds
<1>2. PICK rest_ : rest_ = IF es[End(log) + 1].type = "changes" THEN Append(log, es[End(log) + 1].commit) ELSE log
  OBVIOUS
<1>3. PICK f : f = [k \in 0 .. Len(es) |-> IF k <= End(log) THEN SubSeq(log, 1, k \div 2) ELSE rest_]
  OBVIOUS
<1>4. SubSeq(log, 1, Len(log)) = log
  BY DEF Logs
<1>5. \A j \in 0 .. Len(log) : 2 * j \in 0 .. Len(es) => f[2 * j] = SubSeq(log, 1, j)
  <2> TAKE j \in 0 .. Len(log)
  <2>1. 2 * j <= End(log) /\ (2 * j) \div 2 = j
    BY <1>1
  <2> QED
    BY <1>3, <2>1
<1>6. \A j \in 0 .. Len(log) : 2 * j + 1 \in 0 .. Len(es) /\ f[2 * j + 1] = SubSeq(log, 1, j)
  <2> TAKE j \in 0 .. Len(log)
  <2>1. j \in Nat /\ 2 * j + 1 <= End(log) /\ 2 * j + 1 \in 0 .. Len(es)
    BY <1>1
  <2>2. (2 * j + 1) \div 2 = j
    BY <2>1
  <2> QED
    BY <1>3, <2>1, <2>2
<1>7. ASSUME NEW k \in 1 .. Len(es)
      PROVE  f[k] = IF es[k].type = "changes" THEN Append(f[k - 1], es[k].commit) ELSE f[k - 1]
  <2>1. PICK j \in Nat : k = 2 * j \/ k = 2 * j + 1
    <3>1. k \div 2 \in Nat /\ (k = 2 * (k \div 2) \/ k = 2 * (k \div 2) + 1)
      BY <1>1
    <3> QED
      BY <3>1
  <2>2. CASE k = 1
    <3>1. f[0] = SubSeq(log, 1, 0) /\ f[1] = SubSeq(log, 1, 0)
      <4>1. 0 \in 0 .. Len(log) /\ 2 * 0 = 0 /\ 0 \in 0 .. Len(es) /\ 2 * 0 + 1 = 1
        BY <1>1
      <4> QED
        BY <1>5, <1>6, <4>1
    <3>2. es[1].type = "version" /\ k - 1 = 0
      BY <2>2 DEF Holds
    <3> QED
      BY <2>2, <3>1, <3>2
  <2>3. CASE k = 2 * j /\ k <= End(log)
    <3>1. j \in 1 .. Len(log) /\ j - 1 \in 0 .. Len(log) /\ k - 1 = 2 * (j - 1) + 1 /\ j \in 0 .. Len(log) /\ 2 * j \in 0 .. Len(es)
      BY <1>1, <2>3
    <3>2. f[k] = SubSeq(log, 1, j) /\ f[k - 1] = SubSeq(log, 1, j - 1)
      BY <1>5, <1>6, <2>3, <3>1
    <3>3. SubSeq(log, 1, j) = Append(SubSeq(log, 1, j - 1), log[j])
      <4>1. PICK a : a = SubSeq(log, 1, j - 1) /\ a \in Logs /\ Len(a) = j - 1 /\ \A i \in 1 .. j - 1 : a[i] = log[i]
        <5>1. /\ SubSeq(log, 1, j - 1) \in Logs /\ Len(SubSeq(log, 1, j - 1)) = j - 1
              /\ \A i \in 1 .. j - 1 : SubSeq(log, 1, j - 1)[i] = log[i]
          BY <3>1, LogPrefix, Zenon
        <5> QED
          BY <5>1, Zenon
      <4>2. PICK b : b = SubSeq(log, 1, j) /\ b \in Logs /\ Len(b) = j /\ \A i \in 1 .. j : b[i] = log[i]
        <5>1. /\ SubSeq(log, 1, j) \in Logs /\ Len(SubSeq(log, 1, j)) = j
              /\ \A i \in 1 .. j : SubSeq(log, 1, j)[i] = log[i]
          BY <3>1, LogPrefix, Zenon
        <5> QED
          BY <5>1, Zenon
      <4>3. log[j] \in Commits
        BY <3>1, LogFacts
      <4>4. /\ Append(a, log[j]) \in Logs /\ Len(Append(a, log[j])) = j
            /\ \A i \in 1 .. j : Append(a, log[j])[i] = log[i]
        BY <3>1, <4>1, <4>3 DEF Logs
      <4>5. b = Append(a, log[j])
        BY <4>2, <4>4, SeqEqual DEF Logs
      <4> QED
        BY <4>1, <4>2, <4>5
    <3>4. es[k].type = "changes" /\ es[k].commit = log[j]
      BY <2>3, <3>1 DEF Holds
    <3> QED
      BY <3>2, <3>3, <3>4
  <2>4. CASE k = 2 * j + 1 /\ k <= End(log) /\ k # 1
    <3>1. j \in 1 .. Len(log) /\ j \in 0 .. Len(log) /\ k - 1 = 2 * j /\ 2 * j \in 0 .. Len(es)
      BY <1>1, <2>4
    <3>2. f[k] = SubSeq(log, 1, j) /\ f[k - 1] = SubSeq(log, 1, j)
      BY <1>5, <1>6, <2>4, <3>1
    <3>3. es[k].type = "flush"
      BY <2>4, <3>1 DEF Holds
    <3> QED
      BY <3>2, <3>3
  <2>5. CASE k = End(log) + 1
    <3>1. Len(log) \in 0 .. Len(log) /\ 2 * Len(log) + 1 = k - 1 /\ k \in 0 .. Len(es) /\ ~(k <= End(log))
      BY <1>1, <2>5
    <3>2. f[k] = rest_ /\ f[k - 1] = log
      BY <1>3, <1>4, <1>6, <3>1
    <3> QED
      BY <1>2, <2>5, <3>2
  <2>6. CASE k = End(log) + 2
    <3>1. k \in 0 .. Len(es) /\ k - 1 \in 0 .. Len(es) /\ ~(k <= End(log)) /\ ~(k - 1 <= End(log)) /\ Len(es) = End(log) + 2
      BY <1>1, <2>6
    <3>2. f[k] = rest_ /\ f[k - 1] = rest_
      BY <1>3, <3>1
    <3> QED
      BY <2>6, <3>1, <3>2
  <2> QED
    BY <1>1, <2>1, <2>2, <2>3, <2>4, <2>5, <2>6
<1>8. f[0] = <<>>
  <2>1. 0 \in 0 .. Len(log) /\ 2 * 0 = 0 /\ 0 \in 0 .. Len(es)
    BY <1>1
  <2> QED
    BY <1>5, <2>1, SubSeqProperties DEF Logs
<1>9. f = AppliedStep(es, f)
  <2>1. f = [k \in 0 .. Len(es) |-> f[k]]
    BY <1>3
  <2>2. \A k \in 0 .. Len(es) : f[k] = AppliedStep(es, f)[k]
    <3> TAKE k \in 0 .. Len(es)
    <3>1. CASE k = 0
      BY <1>8, <3>1 DEF AppliedStep
    <3>2. CASE k # 0
      <4>1. k \in 1 .. Len(es)
        BY <1>1, <3>2
      <4> QED
        BY <1>7, <3>2, <4>1 DEF AppliedStep
    <3> QED
      BY <3>1, <3>2
  <2>3. AppliedStep(es, f) = [k \in 0 .. Len(es) |-> AppliedStep(es, f)[k]]
    BY DEF AppliedStep
  <2> QED
    BY <2>1, <2>2, <2>3, Zenon
<1>10. Applied(es) = f
  BY <1>9, AppliedUnique
<1>11. f[End(log)] = log
  BY <1>1, <1>4, <1>6
<1>12. ASSUME Len(es) = End(log) + 2, es[End(log) + 1].type # "changes" PROVE f[End(log) + 2] = log
  BY <1>1, <1>2, <1>3, <1>12
<1> QED
  BY <1>8, <1>10, <1>11, <1>12

\* A file that cannot be read has no commits.
LEMMA AppliedNothing ==
    ASSUME NEW es \in Files, es = <<>> \/ (Len(es) = 1 /\ es[1].type = "torn")
    PROVE  Applied(es)[0] = <<>>
<1>1. PICK f : f = [k \in 0 .. Len(es) |-> <<>>]
  OBVIOUS
<1>2. Len(es) \in {0, 1} /\ (Len(es) = 1 => es[1].type # "changes")
  BY FileFacts
<1>3. \A k \in 0 .. Len(es) : k # 0 => k = 1 /\ Len(es) = 1 /\ k - 1 \in 0 .. Len(es)
  <2>1. CASE Len(es) = 0
    BY <2>1
  <2>2. CASE Len(es) = 1
    BY <2>2
  <2> QED
    BY <1>2, <2>1, <2>2
<1>4. f = AppliedStep(es, f)
  BY <1>1, <1>2, <1>3 DEF AppliedStep
<1>5. 0 \in 0 .. Len(es)
  BY <1>2
<1> QED
  BY <1>1, <1>4, <1>5, AppliedUnique

\* What a crash leaves behind is replayed to the commits that count.
LEMMA ReplayDead ==
    ASSUME NEW es \in Files, NEW log \in Logs, Dead(es, log)
    PROVE  /\ LastFlush(es, Len(Readable(es))) = Size(log)
           /\ Replayed(es) = log
           /\ Positions(Readable(es), "checkpoint") = {} /\ Positions(es, "checkpoint") = {}
           /\ log = <<>> \/ Holds(es, log)
           /\ Size(log) <= Len(es)
<1>1. Len(es) \in Nat /\ End(log) \in Nat /\ End(log) >= 1 /\ (es = <<>> <=> Len(es) = 0)
      /\ Size(log) = IF log = <<>> THEN 0 ELSE End(log)
  BY LogFacts, FileFacts
<1>2. CASE log = <<>> /\ es = <<>>
  <2>1. Readable(es) = es /\ Len(es) = 0 /\ Positions(es, "checkpoint") = {}
    BY <1>2, ReadableFile DEF Positions
  <2>2. LastFlush(es, 0) = 0
    BY LastFlushIs
  <2>3. Applied(es)[0] = <<>>
    BY <1>2, AppliedNothing
  <2> QED
    BY <1>1, <1>2, <2>1, <2>2, <2>3 DEF Replayed
<1>3. CASE log = <<>> /\ Len(es) = 1 /\ es[1].type = "torn"
  <2>1. PICK fs \in Files : fs = SubSeq(es, 1, 0) /\ Len(fs) = 0
    <3>1. 0 \in 0 .. Len(es)
      BY <1>3
    <3>2. SubSeq(es, 1, 0) \in Files /\ Len(SubSeq(es, 1, 0)) = 0
      BY <3>1, Prefix, Zenon
    <3> QED
      BY <3>2
  <2>2. Readable(es) = fs
    BY <1>1, <1>3, <2>1, ReadableFile
  <2>3. Positions(es, "checkpoint") = {} /\ Positions(fs, "checkpoint") = {}
    <3>1. DOMAIN es = 1 .. 1 /\ DOMAIN fs = {}
      BY <1>3, <2>1, FileFacts
    <3> QED
      BY <1>3, <3>1 DEF Positions
  <2>4. LastFlush(es, 0) = 0
    BY LastFlushIs
  <2>5. Applied(es)[0] = <<>>
    BY <1>3, AppliedNothing
  <2> QED
    BY <1>1, <1>3, <2>1, <2>2, <2>3, <2>4, <2>5 DEF Replayed
<1>4. CASE /\ Holds(es, log) /\ Len(es) <= End(log) + 2
           /\ Len(es) > End(log) => es[End(log) + 1].type \in {"changes", "torn"}
           /\ Len(es) = End(log) + 2 => es[End(log) + 1].type = "changes" /\ es[End(log) + 2].type = "torn"
  <2>1. Len(es) >= End(log)
    BY <1>4 DEF Holds
  <2>2. \A k \in 1 .. Len(es) : k \in 1 .. End(log) \/ k = End(log) + 1 \/ (k = End(log) + 2 /\ Len(es) = End(log) + 2)
    BY <1>1, <1>4
  <2>3. \A k \in 1 .. Len(es) : es[k].type # "checkpoint"
    BY <1>1, <1>4, <2>2, HeldTypes
  <2>4. \A k \in End(log) + 1 .. Len(es) : es[k].type # "flush"
    BY <1>1, <1>4, <2>2
  <2>5. es[End(log)].type # "torn" /\ (log # <<>> => es[End(log)].type = "flush")
    BY <1>1, <1>4, HeldTypes
  <2>6. PICK n \in End(log) .. Len(es) : Len(Readable(es)) = n /\ Readable(es) \in Files /\ \A i \in 1 .. n : Readable(es)[i] = es[i]
    <3>1. CASE es[Len(es)].type = "torn"
      <4>1. Len(es) - 1 \in End(log) .. Len(es) /\ es # <<>> /\ Len(es) - 1 \in 0 .. Len(es)
        BY <1>1, <2>1, <2>5, <3>1
      <4>2. Readable(es) = SubSeq(es, 1, Len(es) - 1)
        BY <3>1, <4>1, ReadableFile
      <4> QED
        BY <4>1, <4>2, Prefix
    <3>2. CASE es[Len(es)].type # "torn"
      <4>1. Readable(es) = es
        BY <3>2, ReadableFile
      <4> QED
        BY <1>1, <2>1, <4>1
    <3> QED
      BY <3>1, <3>2
  <2>7. Positions(Readable(es), "checkpoint") = {} /\ Positions(es, "checkpoint") = {}
    <3>1. DOMAIN es = 1 .. Len(es) /\ DOMAIN Readable(es) = 1 .. n /\ \A i \in 1 .. n : i \in 1 .. Len(es)
      BY <1>1, <2>6, FileFacts
    <3> QED
      BY <2>3, <2>6, <3>1 DEF Positions
  <2>8. LastFlush(es, n) = Size(log)
    <3>1. CASE log = <<>>
      <4>1. End(log) = 1
        BY <3>1, EmptyFile
      <4>2. \A i \in 0 + 1 .. n : es[i].type # "flush"
        <5> TAKE i \in 0 + 1 .. n
        <5>1. i = 1 \/ i \in End(log) + 1 .. Len(es)
          BY <1>1, <2>6, <4>1
        <5> QED
          BY <1>4, <2>4, <5>1 DEF Holds
      <4>3. n \in Nat /\ 0 \in 0 .. n
        BY <1>1
      <4>4. LastFlush(es, n) = 0
        BY <4>2, <4>3, LastFlushIs
      <4> QED
        BY <1>1, <3>1, <4>4
    <3>2. CASE log # <<>>
      <4>1. n \in Nat /\ End(log) \in 0 .. n /\ \A i \in End(log) + 1 .. n : i \in End(log) + 1 .. Len(es)
        BY <1>1, <2>1
      <4>2. LastFlush(es, n) = End(log)
        BY <2>4, <2>5, <3>2, <4>1, LastFlushIs
      <4> QED
        BY <1>1, <3>2, <4>2
    <3> QED
      BY <3>1, <3>2
  <2>9. Replayed(es) = log
    <3>1. CASE log # <<>>
      <4>1. Applied(es)[End(log)] = log
        BY <1>1, <1>4, AppliedHeld
      <4> QED
        BY <1>1, <2>6, <2>8, <3>1, <4>1 DEF Replayed
    <3>2. CASE log = <<>>
      <4>1. Applied(es)[0] = <<>>
        BY <1>1, <1>4, AppliedHeld
      <4> QED
        BY <1>1, <2>6, <2>8, <3>2, <4>1 DEF Replayed
    <3> QED
      BY <3>1, <3>2
  <2> QED
    BY <1>1, <1>4, <2>1, <2>6, <2>7, <2>8, <2>9
<1> QED
  BY <1>2, <1>3, <1>4 DEF Dead

\* With a marker, the replay finds it and the commits before it.
LEMMA ReplayMarked ==
    ASSUME NEW es \in Files, NEW log \in Logs, NEW r, Marked(es, log, r)
    PROVE  /\ Positions(Readable(es), "checkpoint") = {End(log) + 1}
           /\ Positions(es, "checkpoint") = {End(log) + 1}
           /\ LastAttempt(es) = End(log) + 2
           /\ LastFlush(es, End(log) + 1) = End(log)
           /\ Replayed(es) = log
           /\ Closed(es, log, r) => LastFlush(es, Len(Readable(es))) = Len(es)
<1>1. /\ Len(es) \in Nat /\ End(log) \in Nat /\ End(log) >= 1 /\ log # <<>> /\ Holds(es, log)
      /\ Len(es) \in {End(log) + 1, End(log) + 2} /\ es # <<>>
      /\ es[End(log) + 1].type = "checkpoint" /\ es[End(log)].type = "flush"
      /\ Len(es) = End(log) + 2 => es[End(log) + 2].type \in {"flush", "torn"}
      /\ \A k \in 1 .. End(log) : es[k].type \in {"version", "changes", "flush"}
  <2>1. /\ Len(es) \in Nat /\ End(log) \in Nat /\ End(log) >= 1 /\ log # <<>> /\ Holds(es, log)
        /\ Len(es) \in {End(log) + 1, End(log) + 2}
        /\ es[End(log) + 1].type = "checkpoint"
        /\ Len(es) = End(log) + 2 => es[End(log) + 2].type \in {"flush", "torn"}
    BY LogFacts, FileFacts DEF Marked
  <2>2. es # <<>>
    BY <2>1, FileFacts
  <2>3. End(log) \in 1 .. End(log)
    BY <2>1
  <2> QED
    BY <2>1, <2>2, <2>3, HeldTypes
<1>2. DOMAIN es = 1 .. Len(es)
  BY FileFacts
<1>3. Positions(es, "checkpoint") = {End(log) + 1}
  <2>1. \A k \in 1 .. Len(es) : k \in 1 .. End(log) \/ k = End(log) + 1 \/ (k = End(log) + 2 /\ Len(es) = End(log) + 2)
    BY <1>1
  <2>2. End(log) + 1 \in 1 .. Len(es)
    BY <1>1
  <2>3. \A k \in 1 .. Len(es) : es[k].type = "checkpoint" <=> k = End(log) + 1
    BY <1>1, <2>1
  <2> QED
    BY <1>2, <2>2, <2>3 DEF Positions
<1>4. LastFlush(es, End(log) + 1) = End(log)
  <2>1. \A i \in End(log) + 1 .. End(log) + 1 : es[i].type # "flush"
    BY <1>1
  <2>2. End(log) + 1 \in Nat /\ End(log) \in 0 .. End(log) + 1
    BY <1>1
  <2> QED
    BY <1>1, <2>1, <2>2, LastFlushIs
<1>5. Applied(es)[End(log)] = log /\ (Len(es) = End(log) + 2 => Applied(es)[End(log) + 2] = log)
  BY <1>1, AppliedHeld
<1>6. CASE es[Len(es)].type = "torn"
  <2>1. Len(es) = End(log) + 2 /\ es[End(log) + 2].type = "torn" /\ Len(es) - 1 = End(log) + 1 /\ End(log) + 1 \in 0 .. Len(es)
    BY <1>1, <1>6
  <2>2. PICK fs \in Files : /\ fs = SubSeq(es, 1, End(log) + 1) /\ Len(fs) = End(log) + 1
                            /\ \A i \in 1 .. End(log) + 1 : fs[i] = es[i]
    BY <2>1, Prefix
  <2>3. Readable(es) = fs
    BY <1>1, <1>6, <2>1, <2>2, ReadableFile
  <2>4. Positions(fs, "checkpoint") = {End(log) + 1}
    <3>1. /\ DOMAIN fs = 1 .. End(log) + 1 /\ End(log) + 1 \in 1 .. End(log) + 1
          /\ \A k \in 1 .. End(log) + 1 : k \in 1 .. End(log) \/ k = End(log) + 1
          /\ End(log) + 1 \notin 1 .. End(log)
      BY <1>1, <2>2, FileFacts
    <3>2. \A k \in 1 .. End(log) + 1 : fs[k].type = "checkpoint" <=> k = End(log) + 1
      BY <1>1, <2>2, <3>1
    <3> QED
      BY <3>1, <3>2 DEF Positions
  <2>5. LastAttempt(es) = End(log) + 2
    <3>1. fs # es
      BY <1>1, <2>1, <2>2
    <3> QED
      BY <1>1, <2>2, <2>3, <3>1 DEF LastAttempt
  <2>6. Replayed(es) = log
    BY <1>4, <1>5, <2>2, <2>3 DEF Replayed
  <2> QED
    BY <1>3, <1>4, <2>1, <2>3, <2>4, <2>5, <2>6 DEF Closed
<1>7. CASE es[Len(es)].type # "torn"
  <2>1. Readable(es) = es
    BY <1>1, <1>7, ReadableFile
  <2>2. CASE Len(es) = End(log) + 1
    <3>1. LastAttempt(es) = End(log) + 2
      <4>1. Last(es).type # "flush"
        BY <1>1, <2>2 DEF Last
      <4> QED
        BY <1>1, <2>1, <2>2, <4>1 DEF LastAttempt
    <3> QED
      BY <1>1, <1>3, <1>4, <1>5, <2>1, <2>2, <3>1 DEF Replayed, Closed
  <2>3. CASE Len(es) = End(log) + 2
    <3>1. es[Len(es)].type = "flush"
      BY <1>1, <1>7, <2>3
    <3>2. LastAttempt(es) = End(log) + 2
      BY <2>1, <2>3, <3>1 DEF LastAttempt, Last
    <3>3. LastFlush(es, Len(es)) = Len(es)
      <4>1. \A i \in Len(es) + 1 .. Len(es) : es[i].type # "flush"
        BY <1>1
      <4>2. Len(es) \in 0 .. Len(es)
        BY <1>1
      <4> QED
        BY <1>1, <3>1, <4>1, <4>2, LastFlushIs
    <3> QED
      BY <1>3, <1>4, <1>5, <2>1, <2>3, <3>2, <3>3 DEF Replayed
  <2> QED
    BY <1>1, <2>2, <2>3
<1> QED
  BY <1>6, <1>7

-----------------------------------------------------------------------------
\* Logs.
LEMMA LogConcat ==
    ASSUME NEW s \in Logs, NEW t \in Logs
    PROVE  /\ s \o t \in Logs /\ Len(s \o t) = Len(s) + Len(t)
           /\ \A i \in 1 .. Len(s) : (s \o t)[i] = s[i]
           /\ \A i \in 1 .. Len(t) : (s \o t)[Len(s) + i] = t[i]
           /\ s \o <<>> = s /\ <<>> \o s = s
<1>1. /\ s \o t \in Seq(Commits) /\ Len(s \o t) = Len(s) + Len(t)
      /\ \A i \in 1 .. Len(s) + Len(t) : (s \o t)[i] = IF i <= Len(s) THEN s[i] ELSE t[i - Len(s)]
  BY ConcatProperties DEF Logs
<1>2. Len(s) \in Nat /\ Len(t) \in Nat
  BY LogFacts
<1>3. \A i \in 1 .. Len(s) : (s \o t)[i] = s[i]
  BY <1>1, <1>2
<1>4. \A i \in 1 .. Len(t) : (s \o t)[Len(s) + i] = t[i]
  <2> TAKE i \in 1 .. Len(t)
  <2>1. Len(s) + i \in 1 .. Len(s) + Len(t) /\ ~(Len(s) + i <= Len(s)) /\ Len(s) + i - Len(s) = i
    BY <1>2
  <2> QED
    BY <1>1, <2>1
<1>5. s \o <<>> = s /\ <<>> \o s = s
  BY ConcatEmptySeq DEF Logs
<1> QED
  BY <1>1, <1>3, <1>4, <1>5 DEF Logs

\* Concatenation of logs is associative.
LEMMA LogAssociative ==
    ASSUME NEW s \in Logs, NEW t \in Logs, NEW u \in Logs
    PROVE  (s \o t) \o u = s \o (t \o u)
BY ConcatAssociative DEF Logs

\* A commit at the end of two logs.
LEMMA LogAppend ==
    ASSUME NEW s \in Logs, NEW t \in Logs, NEW c \in Commits
    PROVE  /\ Append(s, c) \in Logs /\ Append(s, c) # <<>>
           /\ s \o Append(t, c) = Append(s \o t, c)
<1>1. PICK e : e = <<c>> /\ e \in Logs
  <2>1. <<c>> \in Seq(Commits)
    OBVIOUS
  <2> QED
    BY <2>1 DEF Logs
<1>2. Append(s, c) \in Logs /\ Append(s, c) # <<>> /\ Append(s, c) = s \o e
  BY <1>1, AppendIsConcat DEF Logs
<1>3. Append(t, c) = t \o e /\ t \in Logs
  BY <1>1, AppendIsConcat DEF Logs
<1>4. s \o t \in Logs
  BY LogConcat
<1>5. Append(s \o t, c) = (s \o t) \o e
  BY <1>1, <1>4, AppendIsConcat DEF Logs
<1>6. (s \o t) \o e = s \o (t \o e)
  BY <1>1, LogAssociative
<1> QED
  BY <1>2, <1>3, <1>5, <1>6

\* The main WAL up to its marker and the checkpoint WAL without its version entry.
Mergeable(es, m, r, cs, c, t) ==
    /\ es \in Files /\ m \in Logs /\ Closed(es, m, r)
    /\ cs \in Files /\ c \in Logs /\ Dead(cs, c) /\ (cs = <<>> \/ cs[1].type # "torn")
    /\ (cs = <<>> => t = <<>>) /\ (cs # <<>> => t = Tail(cs))

MergedEntries(es, m, t) == SubSeq(es, 1, End(m)) \o t

\* The recovery WAL holds the commits of the main WAL and then those of the checkpoint WAL.
LEMMA Merge ==
    ASSUME NEW es, NEW m, NEW r, NEW cs, NEW c, NEW t, Mergeable(es, m, r, cs, c, t)
    PROVE  \E g \in Files : g = MergedEntries(es, m, t) /\ Dead(g, m \o c) /\ g[1] = es[1]
<1> SUFFICES ASSUME es \in Files, m \in Logs, Closed(es, m, r),
                    cs \in Files, c \in Logs, Dead(cs, c), cs = <<>> \/ cs[1].type # "torn",
                    cs = <<>> => t = <<>>, cs # <<>> => t = Tail(cs)
             PROVE  \E g \in Files : g = SubSeq(es, 1, End(m)) \o t /\ Dead(g, m \o c) /\ g[1] = es[1]
  BY DEF Mergeable, MergedEntries
<1>1. /\ m # <<>> /\ Holds(es, m) /\ Size(m) = End(m) /\ End(m) \in Nat /\ Len(m) \in Nat /\ End(m) = 2 * Len(m) + 1
      /\ End(m) >= 3
  BY LogFacts DEF Closed, Marked
<1>2. PICK h \in Files : /\ h = SubSeq(es, 1, End(m)) /\ Clean(h, m) /\ Len(h) = End(m)
                         /\ h[1] = es[1] /\ Holds(h, m) /\ \A i \in 1 .. Len(h) : h[i].type # "torn"
  <2>1. /\ SubSeq(es, 1, Size(m)) \in Files /\ Clean(SubSeq(es, 1, Size(m)), m)
        /\ Len(SubSeq(es, 1, Size(m))) = Size(m) /\ SubSeq(es, 1, Size(m))[1] = es[1]
    BY <1>1, Truncation
  <2>2. PICK h : h = SubSeq(es, 1, Size(m))
    OBVIOUS
  <2>3. h \in Files /\ Clean(h, m) /\ Len(h) = End(m) /\ h[1] = es[1]
    BY <1>1, <2>1, <2>2
  <2>4. Holds(h, m) /\ \A i \in 1 .. Len(h) : h[i].type # "torn"
    BY <1>1, <2>3, CleanFile DEF Clean
  <2>5. h = SubSeq(es, 1, End(m))
    BY <1>1, <2>2
  <2> QED
    BY <2>3, <2>4, <2>5
<1>3. CASE cs = <<>>
  <2>1. c = <<>>
    <3>1. ~Holds(cs, c)
      <4>1. End(c) >= 1 /\ End(c) \in Nat /\ Len(cs) = 0
        BY <1>3, LogFacts, FileFacts
      <4> QED
        BY <4>1 DEF Holds
    <3> QED
      BY <3>1 DEF Dead
  <2>2. h \o t = h
    BY <1>2, <1>3, FileFacts, ConcatEmptySeq
  <2>3. m \o c = m
    BY <2>1, LogConcat
  <2>4. Dead(h, m)
    BY <1>2, CleanFile
  <2> QED
    BY <1>2, <2>2, <2>3, <2>4
<1>4. CASE cs # <<>>
  <2>1. /\ Holds(cs, c) /\ Len(cs) <= End(c) + 2
        /\ Len(cs) > End(c) => cs[End(c) + 1].type \in {"changes", "torn"}
        /\ Len(cs) = End(c) + 2 => cs[End(c) + 1].type = "changes" /\ cs[End(c) + 2].type = "torn"
    BY <1>4 DEF Dead
  <2>2. /\ Len(cs) \in Nat /\ Len(c) \in Nat /\ End(c) = 2 * Len(c) + 1 /\ End(c) \in Nat /\ Len(cs) >= End(c)
        /\ Len(cs) >= 1
    BY <2>1, LogFacts, FileFacts DEF Holds
  <2>3. /\ t \in Files /\ Len(t) = Len(cs) - 1
        /\ \A i \in 1 .. Len(cs) - 1 : t[i] = cs[i + 1]
    <3>1. /\ t \in Seq(Entries) /\ Len(t) = Len(cs) - 1
          /\ \A i \in 1 .. Len(cs) - 1 : t[i] = cs[i + 1]
      <4>1. cs \in Seq(Entries) /\ cs # <<>>
        BY <1>4, FileFacts
      <4> QED
        BY <4>1, HeadTailProperties
    <3>2. ASSUME NEW i \in 1 .. Len(cs) - 1, t[i].type = "torn" PROVE i = Len(cs) - 1
      <4>1. i + 1 \in 1 .. Len(cs) /\ cs[i + 1].type = "torn"
        BY <2>2, <3>1, <3>2
      <4>2. i + 1 = Len(cs)
        BY <4>1, FileFacts
      <4> QED
        BY <2>2, <4>2
    <3> QED
      BY <3>1, <3>2 DEF Files
  <2>4. PICK g \in Files : /\ g = h \o t /\ Len(g) = Len(h) + Len(t)
                           /\ \A i \in 1 .. Len(h) : g[i] = h[i]
                           /\ \A i \in 1 .. Len(t) : g[Len(h) + i] = t[i]
    <3>1. /\ h \o t \in Files /\ Len(h \o t) = Len(h) + Len(t)
          /\ \A i \in 1 .. Len(h) : (h \o t)[i] = h[i]
          /\ \A i \in 1 .. Len(t) : (h \o t)[Len(h) + i] = t[i]
      BY <1>2, <2>3, Concatenate
    <3> QED
      BY <3>1, Zenon
  <2>5. \A k \in 2 .. Len(cs) : g[End(m) + k - 1] = cs[k]
    <3> TAKE k \in 2 .. Len(cs)
    <3>1. k - 1 \in 1 .. Len(t) /\ k - 1 \in 1 .. Len(cs) - 1 /\ End(m) + k - 1 = Len(h) + (k - 1) /\ k - 1 + 1 = k
      BY <1>1, <1>2, <2>2, <2>3
    <3>2. g[Len(h) + (k - 1)] = t[k - 1] /\ t[k - 1] = cs[k - 1 + 1]
      BY <2>3, <2>4, <3>1
    <3> QED
      BY <3>1, <3>2
  <2>6. PICK n \in Logs : /\ n = m \o c /\ Len(n) = Len(m) + Len(c)
                          /\ \A i \in 1 .. Len(m) : n[i] = m[i]
                          /\ \A i \in 1 .. Len(c) : n[Len(m) + i] = c[i]
    BY LogConcat
  <2>7. End(n) = End(m) + End(c) - 1 /\ Len(g) = End(m) + Len(cs) - 1 /\ End(n) = 2 * Len(n) + 1
    <3>1. Len(n) = Len(m) + Len(c) /\ End(n) = 2 * Len(n) + 1
      BY <2>6, LogFacts
    <3>2. End(n) = End(m) + End(c) - 1
      BY <1>1, <2>2, <3>1
    <3>3. Len(g) = End(m) + (Len(cs) - 1)
      BY <1>2, <2>3, <2>4
    <3>4. Len(g) = End(m) + Len(cs) - 1
      BY <1>1, <2>2, <3>3
    <3> QED
      BY <3>1, <3>2, <3>4
  <2>8. Holds(g, n)
    <3>1. ASSUME NEW i \in 1 .. Len(n)
          PROVE  g[2 * i].type = "changes" /\ g[2 * i].commit = n[i] /\ g[2 * i + 1].type = "flush"
      <4>1. CASE i <= Len(m)
        <5>1. i \in 1 .. Len(m) /\ 2 * i \in 1 .. Len(h) /\ 2 * i + 1 \in 1 .. Len(h)
          BY <1>1, <1>2, <4>1
        <5>2. g[2 * i] = h[2 * i] /\ g[2 * i + 1] = h[2 * i + 1]
          BY <2>4, <5>1
        <5>3. h[2 * i].type = "changes" /\ h[2 * i].commit = m[i] /\ h[2 * i + 1].type = "flush"
          BY <1>2, <5>1 DEF Holds
        <5>4. n[i] = m[i]
          BY <2>6, <5>1
        <5> QED
          BY <5>2, <5>3, <5>4
      <4>2. CASE i > Len(m)
        <5>1. PICK j \in 1 .. Len(c) : i = Len(m) + j
          <6>1. i - Len(m) \in 1 .. Len(c) /\ i = Len(m) + (i - Len(m))
            BY <1>1, <2>2, <2>6, <4>2
          <6> QED
            BY <6>1
        <5>2. /\ 2 * j \in 2 .. Len(cs) /\ 2 * j + 1 \in 2 .. Len(cs)
              /\ End(m) + 2 * j - 1 = 2 * i /\ End(m) + (2 * j + 1) - 1 = 2 * i + 1
          BY <1>1, <2>2, <5>1
        <5>3. g[2 * i] = cs[2 * j] /\ g[2 * i + 1] = cs[2 * j + 1]
          BY <2>5, <5>2
        <5> QED
          BY <2>1, <2>6, <5>1, <5>3 DEF Holds
      <4> QED
        BY <1>1, <2>6, <4>1, <4>2
    <3>2. g[1].type = "version"
      <4>1. 1 \in 1 .. Len(h)
        BY <1>1, <1>2
      <4> QED
        BY <1>2, <2>4, <4>1 DEF Holds
    <3>3. Len(g) >= End(n)
      BY <1>1, <2>2, <2>7
    <3> QED
      BY <3>1, <3>2, <3>3 DEF Holds
  <2>9. Dead(g, n)
    <3>1. Len(g) <= End(n) + 2
      BY <1>1, <2>1, <2>2, <2>7
    <3>2. ASSUME Len(g) > End(n) PROVE g[End(n) + 1] = cs[End(c) + 1] /\ Len(cs) > End(c)
      <4>1. End(c) + 1 \in 2 .. Len(cs) /\ End(m) + (End(c) + 1) - 1 = End(n) + 1
        BY <1>1, <2>2, <2>7, <3>2
      <4>2. g[End(m) + (End(c) + 1) - 1] = cs[End(c) + 1]
        BY <2>5, <4>1
      <4> QED
        BY <1>1, <2>2, <4>1, <4>2
    <3>3. ASSUME Len(g) = End(n) + 2 PROVE g[End(n) + 2] = cs[End(c) + 2] /\ Len(cs) = End(c) + 2
      <4>1. End(c) + 2 \in 2 .. Len(cs) /\ End(m) + (End(c) + 2) - 1 = End(n) + 2 /\ Len(cs) = End(c) + 2
        BY <1>1, <2>2, <2>7, <3>3
      <4>2. g[End(m) + (End(c) + 2) - 1] = cs[End(c) + 2]
        BY <2>5, <4>1
      <4> QED
        BY <4>1, <4>2
    <3>4. Len(g) = End(n) + 2 => Len(g) > End(n)
      BY <1>1, <2>2, <2>7
    <3> QED
      BY <2>1, <2>8, <3>1, <3>2, <3>3, <3>4 DEF Dead
  <2>10. g[1] = es[1]
    <3>1. 1 \in 1 .. Len(h)
      BY <1>1, <1>2
    <3> QED
      BY <1>2, <2>4, <3>1
  <2> QED
    BY <1>2, <2>4, <2>6, <2>9, <2>10
<1> QED
  BY <1>3, <1>4

-----------------------------------------------------------------------------
\* What the first pass decides.
LEMMA DecideDead ==
    ASSUME NEW es \in Files, NEW log \in Logs, Dead(es, log), NEW mode \in ReplayModes
    PROVE  /\ ReplayDecision(es, mode) \in {"remove", "error", "replay"}
           /\ ReplayDecision(es, mode) = "remove" <=> es = <<>>
           /\ ReplayDecision(es, mode) = "error" => es # <<>> /\ ReplayVersion(es, mode) # "match"
<1>1. Positions(Readable(es), "checkpoint") = {} /\ ~(Cardinality({}) > 1)
  BY ReplayDead, FS_EmptySet
<1> QED
  BY <1>1 DEF ReplayDecision

\* A marker is the last thing in a file: the WAL is refused only because of its version.
LEMMA DecideMarked ==
    ASSUME NEW es \in Files, NEW log \in Logs, NEW r, Marked(es, log, r)
    PROVE  /\ ReplayDecision(es, "main_wal") \in
                {"error", IF r = file.root THEN IF disk["checkpoint"] = NoFile THEN "remove" ELSE "move"
                          ELSE IF disk["checkpoint"] = NoFile THEN "truncate" ELSE "merge"}
           /\ ReplayDecision(es, "main_wal") = "error" =>
                \/ ReplayVersion(es, "main_wal") \notin {"match", "expects_checkpoint"}
                \/ ReplayVersion(es, "main_wal") = "expects_checkpoint" /\ r # file.root
<1>1. /\ Positions(Readable(es), "checkpoint") = {End(log) + 1} /\ Cardinality({End(log) + 1}) = 1
      /\ LastAttempt(es) = End(log) + 1 + 1
  <2>1. End(log) \in Nat
    BY LogFacts
  <2>2. LastAttempt(es) = End(log) + 2
    BY ReplayMarked
  <2>3. LastAttempt(es) = End(log) + 1 + 1
    BY <2>1, <2>2
  <2> QED
    BY <2>3, ReplayMarked, FS_Singleton
<1>2. (CHOOSE i \in {End(log) + 1} : TRUE) = End(log) + 1
  OBVIOUS
<1>3. es # <<>> /\ es[End(log) + 1].root = r
  BY LogFacts, FileFacts DEF Marked
<1>4. PICK k : k = End(log) + 1
  OBVIOUS
<1>5. /\ Positions(Readable(es), "checkpoint") = {k} /\ Cardinality({k}) = 1 /\ ~(1 > 1)
      /\ LastAttempt(es) = k + 1 /\ (CHOOSE i \in {k} : TRUE) = k /\ es[k].root = r /\ {k} # {}
  BY <1>1, <1>2, <1>3, <1>4
<1>6. ReplayDecision(es, "main_wal") =
         IF ReplayVersion(es, "main_wal") = "mismatch" THEN "error"
         ELSE IF file.root = r THEN IF disk["checkpoint"] = NoFile THEN "remove" ELSE "move"
         ELSE IF disk["checkpoint"] # NoFile THEN "merge"
         ELSE IF ReplayVersion(es, "main_wal") = "expects_checkpoint" THEN "error"
         ELSE "truncate"
  BY <1>3, <1>5, Zenon DEF ReplayDecision, IsCheckpointClean
<1>7. "mismatch" \notin {"match", "expects_checkpoint"}
  OBVIOUS
<1> QED
  BY <1>6, <1>7

-----------------------------------------------------------------------------

\* The inductive invariant.
CommitPCs == {"idle", "flush", "sync", "checkpoint", "crashed"}
CheckpointPCs == {"idle", "start", "marker", "switch", "write", "header", "finish", "end"}
CheckpointStates == [pc : CheckpointPCs, root : Roots \cup {0}, log : Logs,
                     has_wal : BOOLEAN, holds_lock : BOOLEAN]
Phases == {"open", "down", "main_wal", "checkpoint_wal", "sync_recovery", "move_recovery",
           "remove_checkpoint", "failed"}

ScalarTypes ==
    /\ file \in [log : Logs, root : Roots \cup {0}, iteration : Nat]
    /\ wal \in [path : {"wal", "checkpoint"}, iteration : Nat, size : Nat,
                init_state : {"no_wal", "uninitialized", "requires_truncate", "initialized"}]
    /\ wal_lock \in {"free", "commit", "checkpoint"}
    /\ committed \in Logs /\ acknowledged \in Logs
    /\ commit \in [id : Commits \cup {NoCommit}, pc : CommitPCs, initial_wal_size : Nat]
    /\ checkpoint \in CheckpointStates
    /\ phase \in Phases
    /\ commits \in Nat /\ checkpoints \in 0 .. MaxCheckpoints
    /\ "crash_before_remove" \notin behaviours

\* The iterations stay within the bound.
Iterations ==
    /\ iteration_count \in Nat
    /\ iteration_count + (IF checkpoint.pc \in {"start", "marker", "switch", "write"} THEN 1 ELSE 0)
         <= checkpoints + 1
    /\ file.iteration <= checkpoints + 1 /\ wal.iteration <= checkpoints + 1
    /\ phase \notin {"down", "failed"} => iteration_count = file.iteration + (IF checkpoint.pc = "header" THEN 1 ELSE 0)

\* Commits are numbered in the order in which they begin.
Numbered ==
    /\ \A i \in 1 .. Len(acknowledged) : acknowledged[i] <= commits
    /\ commit.id # NoCommit => commit.id <= commits

Writing == commit.pc \in {"flush", "sync"}

\* Who holds the WAL lock, and what transactions see.
Locks ==
    /\ commit.pc # "crashed"
    /\ checkpoint.holds_lock <=> commit.pc = "checkpoint"
    /\ wal_lock = IF Writing THEN "commit"
                  ELSE IF checkpoint.holds_lock \/ checkpoint.pc \in {"marker", "switch"} THEN "checkpoint"
                  ELSE "free"
    /\ checkpoint.pc \in {"marker", "switch"} => ~Writing
    /\ commit.pc = "idle" <=> commit.id = NoCommit
    /\ checkpoint.pc \in {"idle", "start"} => ~checkpoint.has_wal
    /\ checkpoint.pc \in {"marker", "switch", "finish"} => checkpoint.has_wal
    /\ checkpoint.pc = "idle" => ~checkpoint.holds_lock
    /\ committed = IF commit.pc \in {"sync", "checkpoint"} THEN Append(acknowledged, commit.id)
                   ELSE acknowledged

DiskTypes ==
    /\ disk \in [Paths -> Files \cup {NoFile}]
    /\ synced \in [Paths -> Nat]
    /\ \A p \in Paths : synced[p] <= Len(Contents(p))
    /\ wal.size <= Len(Contents(wal.path))

\* The file that commits are written to holds those of log, and the one under way.
Active(log) ==
    /\ wal.size = Size(log) /\ synced[wal.path] >= Size(log)
    /\ Writing => commit.initial_wal_size = Size(log) /\ wal.init_state = "initialized"
    /\ commit.pc = "flush" => Open(Contents(wal.path), log, commit.id)
    /\ commit.pc = "sync" => Clean(Contents(wal.path), Append(log, commit.id))
    /\ ~Writing => IF wal.init_state = "requires_truncate" THEN Dead(Contents(wal.path), log)
                   ELSE Clean(Contents(wal.path), log)
    /\ wal.init_state = "no_wal" => disk[wal.path] = NoFile
    /\ wal.init_state = "initialized" => disk[wal.path] # NoFile

\* The acknowledged commits and the one that a checkpoint makes durable.
Seen == IF checkpoint.holds_lock THEN Append(acknowledged, commit.id) ELSE acknowledged

OneWAL(m) ==
    /\ wal.path = "wal" /\ disk["checkpoint"] = NoFile
    /\ Active(m)
    /\ file.log \o m = IF checkpoint.pc = "end" THEN Seen ELSE acknowledged
    /\ checkpoint.pc \in {"write", "header"} =>
          /\ checkpoint.log = IF checkpoint.holds_lock THEN Append(file.log, commit.id) ELSE file.log
          /\ checkpoint.holds_lock => m = <<>>

MarkerWritten(m) ==
    /\ wal.path = "wal" /\ disk["checkpoint"] = NoFile
    /\ disk["wal"] \in Files /\ Closed(disk["wal"], m, checkpoint.root) /\ checkpoint.root # file.root
    /\ synced["wal"] >= End(m) /\ (checkpoint.pc = "switch" => synced["wal"] = Len(disk["wal"]))
    /\ file.log \o m = acknowledged
    /\ checkpoint.log = Seen

TwoWALs(m, c) ==
    /\ wal.path = "checkpoint" /\ wal.init_state \in {"no_wal", "initialized"}
    /\ disk["wal"] \in Files /\ Closed(disk["wal"], m, checkpoint.root)
    /\ synced["wal"] = Len(disk["wal"])
    /\ Active(c)
    /\ checkpoint.holds_lock => disk["checkpoint"] = NoFile
    /\ IF checkpoint.pc = "finish"
         THEN checkpoint.root = file.root /\ file.log \o c = Seen
         ELSE /\ checkpoint.root # file.root /\ (file.log \o m) \o c = acknowledged
              /\ checkpoint.log = IF checkpoint.holds_lock THEN Append(file.log \o m, commit.id)
                                  ELSE file.log \o m

OpenFiles ==
    /\ checkpoint.pc \in {"marker", "switch"} => \E m \in Logs : MarkerWritten(m)
    /\ checkpoint.pc \in {"write", "header", "finish"} /\ checkpoint.has_wal =>
          \E m, c \in Logs : TwoWALs(m, c)
    /\ checkpoint.pc \in {"idle", "start", "end"} \/ (checkpoint.pc \in {"write", "header"} /\ ~checkpoint.has_wal) =>
          \E m \in Logs : OneWAL(m)

\* The version entry of a file names iteration i.
HasVersion(es, i) ==
    es # <<>> => /\ es[1].type = "version"
                 /\ es[1].iteration = IF "iteration" \in behaviours THEN i ELSE 0
VersionIs(p, i) == disk[p] # NoFile => HasVersion(disk[p], i)

\* The WALs belong to the database file, or to the one before the last checkpoint.
Versions(done) ==
    ~MayBeRefused =>
        IF done THEN VersionIs("wal", file.iteration - 1) /\ VersionIs("checkpoint", file.iteration)
        ELSE VersionIs("wal", file.iteration) /\ VersionIs("checkpoint", file.iteration + 1)

OpenVersions ==
    /\ Versions(checkpoint.pc = "finish")
    /\ ~MayBeRefused /\ "iteration" \in behaviours =>
          /\ checkpoint.pc = "start" => wal.size > 0
          /\ checkpoint.pc \notin {"idle", "start"} => checkpoint.has_wal
    /\ ~MayBeRefused =>
          wal.iteration = IF wal.path = "wal" THEN 0
                          ELSE IF checkpoint.pc \in {"write", "header"} THEN file.iteration + 1
                          ELSE file.iteration

\* What the database may hold when it is open again.
Outcome(log) == log = acknowledged \/ (commit.id # NoCommit /\ log = Append(acknowledged, commit.id))

\* What a crash may leave.
LeftNothing == disk["wal"] = NoFile /\ disk["checkpoint"] = NoFile /\ Outcome(file.log)

LeftCommits(m) ==
    /\ disk["wal"] \in Files /\ disk["checkpoint"] = NoFile
    /\ Dead(disk["wal"], m) /\ Outcome(file.log \o m) /\ Versions(FALSE)

LeftMarker(m, r) ==
    /\ disk["wal"] \in Files /\ disk["checkpoint"] = NoFile
    /\ Marked(disk["wal"], m, r)
    /\ Outcome(IF r = file.root THEN file.log ELSE file.log \o m) /\ Versions(r = file.root)

LeftBoth(m, c, r) ==
    /\ disk["wal"] \in Files /\ disk["checkpoint"] \in Files
    /\ Closed(disk["wal"], m, r) /\ Dead(disk["checkpoint"], c)
    /\ Outcome(IF r = file.root THEN file.log \o c ELSE (file.log \o m) \o c) /\ Versions(r = file.root)

Left ==
    \/ LeftNothing
    \/ \E m \in Logs : LeftCommits(m)
    \/ \E m \in Logs, r \in Roots : LeftMarker(m, r)
    \/ \E m, c \in Logs, r \in Roots : LeftBoth(m, c, r)

Merged(m, c, r) ==
    /\ LeftBoth(m, c, r) /\ r # file.root
    /\ disk["recovery"] \in Files /\ Dead(disk["recovery"], m \o c)
    /\ ~MayBeRefused => VersionIs("recovery", file.iteration)

Moved(m) ==
    /\ disk["wal"] \in Files /\ Dead(disk["wal"], m) /\ Outcome(file.log \o m)
    /\ ~MayBeRefused => VersionIs("wal", file.iteration)

DownFiles ==
    /\ phase # "failed" => /\ commit.pc = "crashed" /\ wal_lock = "free" /\ checkpoint = NoCheckpoint /\ wal.size = 0
                           /\ \A p \in {"wal", "checkpoint"} : synced[p] = Len(Contents(p))
    /\ phase \notin {"down", "failed"} => committed = file.log
    /\ phase \in {"down", "main_wal"} => Left
    /\ phase \in {"sync_recovery", "move_recovery"} => \E m, c \in Logs, r \in Roots : Merged(m, c, r)
    /\ phase = "move_recovery" => synced["recovery"] = Len(disk["recovery"])
    /\ phase = "remove_checkpoint" => \E m \in Logs : Moved(m)
    /\ phase = "checkpoint_wal" => \E m \in Logs : LeftCommits(m)
    /\ phase = "failed" => MayBeRefused

RecoveryInv ==
    /\ ScalarTypes /\ Iterations /\ Numbered /\ DiskTypes
    /\ phase = "open" => Locks /\ OpenFiles /\ OpenVersions
    /\ phase # "open" => DownFiles

-----------------------------------------------------------------------------
\* The bounds and the commits are numbers.
LEMMA CommitFacts ==
    /\ MaxCheckpoints \in Nat /\ MaxCommits \in Nat /\ Commits \subseteq Nat /\ NoCommit \notin Commits
    /\ \A c \in Commits : c \in Nat /\ c # NoCommit
BY ConstantsAssumption, NullAssumption DEF Commits

\* The states in which a checkpoint starts.
LEMMA NoCheckpointFacts ==
    /\ NoCheckpoint \in CheckpointStates
    /\ [NoCheckpoint EXCEPT !.pc = "start"] \in CheckpointStates
    /\ [NoCheckpoint EXCEPT !.pc = "start", !.holds_lock = TRUE] \in CheckpointStates
<1>1. NoCheckpoint \in CheckpointStates
  <2>1. <<>> \in Logs
    BY EmptyFile
  <2> QED
    BY <2>1 DEF NoCheckpoint, CheckpointStates, CheckpointPCs
<1>2. "start" \in CheckpointPCs
  BY DEF CheckpointPCs
<1> QED
  BY <1>1, <1>2 DEF CheckpointStates

\* The entries of a file and how many of them are synced.
LEMMA ContentsFacts ==
    ASSUME DiskTypes, NEW p \in Paths
    PROVE  /\ Contents(p) \in Files /\ (disk[p] # NoFile => Contents(p) = disk[p] /\ disk[p] \in Files)
           /\ disk[p] = NoFile => Contents(p) = <<>>
           /\ synced[p] \in 0 .. Len(Contents(p)) /\ Len(Contents(p)) \in Nat
<1>1. disk[p] \in Files \cup {NoFile} /\ synced[p] \in Nat /\ synced[p] <= Len(Contents(p))
  BY DEF DiskTypes
<1>2. Contents(p) \in Files /\ (disk[p] # NoFile => Contents(p) = disk[p] /\ disk[p] \in Files)
  BY <1>1, EmptyFile, NoFileIsNoFile DEF Contents
<1>3. Len(Contents(p)) \in Nat
  BY <1>2, FileFacts
<1> QED
  BY <1>1, <1>2, <1>3 DEF Contents

\* A new database.
LEMMA InitRecoveryInv ==
    ASSUME Init, "crash_before_remove" \notin behaviours
    PROVE  RecoveryInv
<1>1. ScalarTypes
  BY CommitFacts, EmptyFile, NoCheckpointFacts DEF Init, ScalarTypes, NewWAL, NoCommitUnderway, CommitPCs, Phases
<1>2. Iterations /\ Numbered
  BY CommitFacts, EmptyFile DEF Init, Iterations, Numbered, NewWAL, NoCommitUnderway, NoCheckpoint
<1>3. \A p \in Paths : Contents(p) = <<>>
  BY DEF Init, Contents
<1>4. DiskTypes
  BY <1>3, EmptyFile DEF Init, DiskTypes, NewWAL, Paths
<1>5. Locks
  BY DEF Init, Locks, Writing, NoCommitUnderway, NoCheckpoint
<1>6. OneWAL(<<>>)
  <2>1. Active(<<>>)
    BY <1>3, EmptyFile DEF Init, Active, NewWAL, NoCommitUnderway, Writing, Paths, Clean
  <2>2. file.log \o <<>> = <<>>
    BY LogConcat, EmptyFile DEF Init
  <2> QED
    BY <2>1, <2>2 DEF Init, OneWAL, NewWAL, NoCheckpoint, Paths
<1>7. OpenFiles
  BY <1>6, EmptyFile DEF Init, OpenFiles, NoCheckpoint
<1>8. OpenVersions
  BY DEF Init, OpenVersions, Versions, VersionIs, NewWAL, NoCheckpoint, Paths
<1> QED
  BY <1>1, <1>2, <1>4, <1>5, <1>7, <1>8 DEF RecoveryInv, Init

\* A statement begins a checkpoint.
LEMMA CreateCheckpointStep ==
    ASSUME RecoveryInv, CreateCheckpoint
    PROVE  RecoveryInv'
<1> USE DEF CreateCheckpoint
<1>1. ScalarTypes /\ Iterations /\ Numbered /\ DiskTypes /\ Locks /\ OpenFiles /\ OpenVersions /\ phase = "open"
  BY DEF RecoveryInv
<1>2. ScalarTypes' /\ Iterations' /\ Numbered'
  <2>1. ScalarTypes'
    <3>1. checkpoints < MaxCheckpoints /\ checkpoints' = checkpoints + 1
      OBVIOUS
    <3>2. checkpoint' \in CheckpointStates
      BY NoCheckpointFacts
    <3>3. checkpoints' \in 0 .. MaxCheckpoints
      BY <1>1, <3>1, CommitFacts DEF ScalarTypes
    <3> QED
      BY <1>1, <3>2, <3>3 DEF ScalarTypes
  <2>2. Iterations'
    BY <1>1, CommitFacts DEF ScalarTypes, Iterations, NoCheckpoint
  <2>3. Numbered'
    BY <1>1 DEF Numbered
  <2> QED
    BY <2>1, <2>2, <2>3
<1>3. DiskTypes'
  BY <1>1 DEF DiskTypes, Contents
<1>4. Locks'
  BY <1>1 DEF Locks, Writing, NoCheckpoint, ScalarTypes
<1>5. OpenFiles'
  <2>1. PICK m \in Logs : OneWAL(m)
    BY <1>1 DEF OpenFiles
  <2>2. Active(m)'
    BY <2>1 DEF OneWAL, Active, Writing, Contents
  <2>3. OneWAL(m)'
    BY <1>1, <2>1, <2>2 DEF OneWAL, NoCheckpoint
  <2> QED
    BY <2>3 DEF OpenFiles, NoCheckpoint
<1>6. OpenVersions'
  BY <1>1 DEF OpenVersions, Versions, VersionIs, HasVersion, MayBeRefused, NoCheckpoint
<1> QED
  BY <1>1, <1>2, <1>3, <1>4, <1>5, <1>6 DEF RecoveryInv

\* WriteHeader counts the iteration: the database file is one behind until the header is written.
LEMMA IncrementIterationStep ==
    ASSUME RecoveryInv, IncrementIteration
    PROVE  RecoveryInv'
<1> USE DEF IncrementIteration, rest, bounds
<1>1. ScalarTypes /\ Iterations /\ Numbered /\ DiskTypes /\ Locks /\ OpenFiles /\ OpenVersions /\ phase = "open"
  BY DEF RecoveryInv
<1>2. ScalarTypes' /\ Iterations' /\ Numbered'
  BY <1>1, CommitFacts DEF ScalarTypes, Iterations, Numbered, CheckpointStates, CheckpointPCs
<1>3. DiskTypes'
  BY <1>1 DEF DiskTypes, Contents
<1>4. Locks'
  BY <1>1 DEF Locks, Writing, ScalarTypes, CheckpointStates
<1>5. OpenFiles'
  <2>1. CASE checkpoint.has_wal
    <3>1. PICK m, c \in Logs : TwoWALs(m, c)
      BY <1>1, <2>1 DEF OpenFiles
    <3>2. Active(c)'
      BY <3>1 DEF TwoWALs, Active, Writing, Contents
    <3>3. TwoWALs(m, c)'
      BY <1>1, <3>1, <3>2 DEF TwoWALs, ScalarTypes, CheckpointStates
    <3> QED
      BY <1>1, <2>1, <3>3 DEF OpenFiles, ScalarTypes, CheckpointStates
  <2>2. CASE ~checkpoint.has_wal
    <3>1. PICK m \in Logs : OneWAL(m)
      BY <1>1, <2>2 DEF OpenFiles
    <3>2. Active(m)'
      BY <3>1 DEF OneWAL, Active, Writing, Contents
    <3>3. OneWAL(m)'
      BY <1>1, <3>1, <3>2 DEF OneWAL, ScalarTypes, CheckpointStates
    <3> QED
      BY <1>1, <2>2, <3>3 DEF OpenFiles, ScalarTypes, CheckpointStates
  <2> QED
    BY <2>1, <2>2
<1>6. OpenVersions'
  BY <1>1 DEF OpenVersions, Versions, VersionIs, HasVersion, MayBeRefused, ScalarTypes, CheckpointStates
<1> QED
  BY <1>1, <1>2, <1>3, <1>4, <1>5, <1>6 DEF RecoveryInv

-----------------------------------------------------------------------------
\* A file of one entry.
LEMMA OneEntry ==
    ASSUME NEW e \in Entries
    PROVE  <<e>> \in Files /\ Len(<<e>>) = 1 /\ <<e>>[1] = e
<1>1. <<e>> \in Seq(Entries) /\ Len(<<e>>) = 1 /\ <<e>>[1] = e
  OBVIOUS
<1>2. \A i \in 1 .. 1 : i = 1
  OBVIOUS
<1> QED
  BY <1>1, <1>2 DEF Files

\* A file of two entries.
LEMMA TwoEntries ==
    ASSUME NEW d \in Entries, NEW e \in Entries, d.type # "torn"
    PROVE  <<d, e>> \in Files /\ Len(<<d, e>>) = 2 /\ <<d, e>>[1] = d /\ <<d, e>>[2] = e
<1>1. <<d, e>> \in Seq(Entries) /\ Len(<<d, e>>) = 2 /\ <<d, e>>[1] = d /\ <<d, e>>[2] = e
  OBVIOUS
<1>2. \A i \in 1 .. 2 : i = 1 \/ i = 2
  OBVIOUS
<1> QED
  BY <1>1, <1>2 DEF Files

\* The iteration of the version entry that WriteHeader would write.
HeaderIteration ==
    IF "iteration" \notin behaviours THEN 0 ELSE IF wal.iteration # 0 THEN wal.iteration ELSE iteration_count

\* What WriteEntries makes of the file that commits are written to.
LEMMA WrittenEntries ==
    ASSUME ScalarTypes, Iterations, DiskTypes, NEW log \in Logs, Active(log), ~Writing,
           NEW es \in Files, WriteEntries(es)
    PROVE  \E g \in Files :
              /\ disk' = [disk EXCEPT ![wal.path] = g]
              /\ synced' = [synced EXCEPT ![wal.path] = Size(log)]
              /\ wal' = [wal EXCEPT !.init_state = "initialized", !.size = Size(log)]
              /\ Holds(g, log) /\ Len(g) = End(log) + Len(es)
              /\ \A k \in 1 .. Len(es) : g[End(log) + k] = es[k]
              /\ g[1] = IF log # <<>> THEN Contents(wal.path)[1] ELSE Version(HeaderIteration)
              /\ log # <<>> => Contents(wal.path) # <<>>
<1>1. wal.path \in Paths
  BY DEF ScalarTypes, Paths
<1>2. PICK C \in Files : C = Contents(wal.path) /\ synced[wal.path] \in 0 .. Len(C) /\ Len(C) \in Nat
  BY <1>1, ContentsFacts
<1>3. wal.size = Size(log) /\ synced[wal.path] >= Size(log) /\ Size(log) \in Nat
  BY LogFacts DEF Active
<1>4. PICK b \in Files : /\ b = InitializedContents(wal) /\ Clean(b, log) /\ Len(b) = Size(log)
                         /\ (b = <<>> <=> log = <<>>)
                         /\ (log # <<>> => b[1] = C[1] /\ C # <<>>)
  <2>1. CASE wal.init_state = "requires_truncate"
    <3>1. Dead(C, log)
      BY <1>2, <2>1 DEF Active
    <3>2. log = <<>> \/ Holds(C, log)
      BY <3>1, ReplayDead
    <3>3. PICK b : b = SubSeq(C, 1, Size(log))
      OBVIOUS
    <3>4. b \in Files /\ Clean(b, log) /\ Len(b) = Size(log) /\ (log # <<>> => b[1] = C[1])
      BY <3>2, <3>3, Truncation
    <3>5. b = InitializedContents(wal)
      BY <1>2, <1>3, <2>1, <3>3 DEF InitializedContents
    <3>6. log # <<>> => C # <<>>
      BY <3>2, LogFacts, FileFacts DEF Holds
    <3> QED
      BY <3>4, <3>5, <3>6, CleanFile
  <2>2. CASE wal.init_state # "requires_truncate"
    <3>1. C = InitializedContents(wal) /\ Clean(C, log)
      BY <1>2, <2>2 DEF InitializedContents, Active
    <3> QED
      BY <1>2, <3>1, CleanFile
  <2> QED
    BY <2>1, <2>2
<1>5. HeaderIteration \in 0 .. MaxCheckpoints + 2
  BY CommitFacts DEF HeaderIteration, ScalarTypes, Iterations
<1>6. PICK h : h = Headed(b, HeaderIteration)
  OBVIOUS
<1>7. h = WithHeader(wal, b)
  BY <1>6 DEF WithHeader, HeaderIteration, Headed
<1>8. PICK g \in Files : /\ g = h \o es /\ Holds(g, log) /\ Len(g) = End(log) + Len(es)
                         /\ \A k \in 1 .. Len(es) : g[End(log) + k] = es[k]
                         /\ g[1] = h[1]
  <2>1. PICK i : i = HeaderIteration
    OBVIOUS
  <2>2. i \in 0 .. MaxCheckpoints + 2 /\ h = Headed(b, i)
    BY <1>5, <1>6, <2>1
  <2>3. Clean(b, log)
    BY <1>4
  <2>4. \E g \in Files : /\ g = Headed(b, i) \o es /\ Holds(g, log) /\ Len(g) = End(log) + Len(es)
                         /\ \A k \in 1 .. Len(es) : g[End(log) + k] = es[k]
                         /\ g[1] = Headed(b, i)[1]
    BY ZenonT(40), <2>2, <2>3, BeginEntries
  <2> QED
    BY <2>2, <2>4
<1>9. disk' = [disk EXCEPT ![wal.path] = g]
  BY <1>4, <1>7, <1>8 DEF WriteEntries
<1>10. synced' = [synced EXCEPT ![wal.path] = Size(log)]
  <2>1. (IF synced[wal.path] < Len(b) THEN synced[wal.path] ELSE Len(b)) = Size(log)
    BY <1>2, <1>3, <1>4
  <2>2. synced' = [synced EXCEPT ![wal.path] = IF synced[wal.path] < Len(b) THEN synced[wal.path] ELSE Len(b)]
    BY <1>1, <1>4 DEF WriteEntries, DiskTypes
  <2> QED
    BY <2>1, <2>2
<1>11. wal' = [wal EXCEPT !.init_state = "initialized", !.size = Size(log)]
  BY <1>3, <1>4 DEF WriteEntries, ScalarTypes
<1>12. g[1] = IF log # <<>> THEN Contents(wal.path)[1] ELSE Version(HeaderIteration)
  <2>1. CASE log = <<>>
    <3>1. <<Version(HeaderIteration)>>[1] = Version(HeaderIteration)
      BY <1>5, EntryTypes, OneEntry
    <3> QED
      BY <1>4, <1>6, <1>8, <2>1, <3>1 DEF Headed
  <2>2. CASE log # <<>>
    BY <1>2, <1>4, <1>6, <1>8, <2>2 DEF Headed
  <2> QED
    BY <2>1, <2>2
<1> QED
  BY <1>2, <1>4, <1>8, <1>9, <1>10, <1>11, <1>12

\* The iteration that the version entry of WAL p names, before and after the header is written.
Expected(p, done) ==
    IF p = "wal" THEN (IF done THEN file.iteration - 1 ELSE file.iteration)
    ELSE (IF done THEN file.iteration ELSE file.iteration + 1)

\* The version entry that is written is the one that the file must have.
LEMMA WrittenVersions ==
    ASSUME ScalarTypes, DiskTypes, NEW done \in BOOLEAN, Versions(done), NEW log, NEW g \in Files,
           disk' = [disk EXCEPT ![wal.path] = g], UNCHANGED <<file, behaviours>>,
           g[1] = IF log # <<>> THEN Contents(wal.path)[1] ELSE Version(HeaderIteration),
           log # <<>> => Contents(wal.path) # <<>>,
           ~MayBeRefused /\ "iteration" \in behaviours => HeaderIteration = Expected(wal.path, done)
    PROVE  Versions(done)'
<1> SUFFICES ASSUME ~MayBeRefused PROVE Versions(done)'
  BY DEF Versions, MayBeRefused
<1>1. wal.path \in {"wal", "checkpoint"} /\ DOMAIN disk = Paths /\ wal.path \in Paths
  BY DEF ScalarTypes, DiskTypes, Paths
<1>2. \A p \in {"wal", "checkpoint"} : VersionIs(p, Expected(p, done))
  BY DEF Versions, Expected
<1>3. disk'[wal.path] = g /\ \A p \in {"wal", "checkpoint"} : p # wal.path => disk'[p] = disk[p]
  BY <1>1 DEF Paths
<1>4. HasVersion(g, Expected(wal.path, done))
  <2>1. CASE log # <<>>
    <3>1. Contents(wal.path) # <<>> /\ disk[wal.path] # NoFile /\ Contents(wal.path) = disk[wal.path]
      BY <2>1 DEF Contents
    <3>2. HasVersion(disk[wal.path], Expected(wal.path, done))
      BY <1>1, <1>2, <3>1 DEF VersionIs
    <3> QED
      BY <2>1, <3>1, <3>2 DEF HasVersion
  <2>2. CASE log = <<>>
    <3>1. g[1] = Version(HeaderIteration)
      BY <2>2
    <3>2. g[1].type = "version" /\ g[1].iteration = HeaderIteration
      BY <3>1, EntryFields
    <3>3. HeaderIteration = IF "iteration" \in behaviours THEN Expected(wal.path, done) ELSE 0
      BY DEF HeaderIteration
    <3> QED
      BY <3>2, <3>3 DEF HasVersion
  <2> QED
    BY <2>1, <2>2
<1>5. \A p \in {"wal", "checkpoint"} : disk'[p] # NoFile => HasVersion(disk'[p], Expected(p, done))
  <2> TAKE p \in {"wal", "checkpoint"}
  <2>1. CASE p = wal.path
    BY <1>3, <1>4, <2>1
  <2>2. CASE p # wal.path
    BY <1>2, <1>3, <2>2 DEF VersionIs
  <2> QED
    BY <2>1, <2>2
<1>6. \A p \in {"wal", "checkpoint"} : VersionIs(p, Expected(p, done))'
  BY <1>5 DEF VersionIs, HasVersion, Expected
<1> QED
  BY <1>6 DEF Versions, Expected

\* A commit writes its changes to the active file.
LEMMA WriteActive ==
    ASSUME ScalarTypes, Iterations, DiskTypes, NEW log \in Logs, Active(log), ~Writing, NEW c \in Commits,
           WriteEntries(<<Changes(c)>>),
           commit' = [id |-> c, pc |-> "flush", initial_wal_size |-> wal.size]
    PROVE  /\ Active(log)' /\ DiskTypes'
           /\ wal' = [wal EXCEPT !.init_state = "initialized"]
           /\ \A p \in Paths : p # wal.path => disk'[p] = disk[p] /\ synced'[p] = synced[p]
           /\ \E g \in Files : /\ disk' = [disk EXCEPT ![wal.path] = g]
                               /\ g[1] = IF log # <<>> THEN Contents(wal.path)[1] ELSE Version(HeaderIteration)
                               /\ log # <<>> => Contents(wal.path) # <<>>
<1>1. PICK e \in Entries : e = Changes(c) /\ e.type = "changes" /\ e.commit = c
  BY EntryTypes, EntryFields
<1>2. PICK es \in Files : es = <<Changes(c)>> /\ Len(es) = 1 /\ es[1].type = "changes" /\ es[1].commit = c
  <2>1. <<e>> \in Files /\ Len(<<e>>) = 1 /\ <<e>>[1] = e
    BY OneEntry
  <2>2. PICK es : es = <<e>>
    OBVIOUS
  <2> QED
    BY <1>1, <2>1, <2>2
<1>3. WriteEntries(es)
  BY <1>2
<1>4. PICK g \in Files :
              /\ disk' = [disk EXCEPT ![wal.path] = g]
              /\ synced' = [synced EXCEPT ![wal.path] = Size(log)]
              /\ wal' = [wal EXCEPT !.init_state = "initialized", !.size = Size(log)]
              /\ Holds(g, log) /\ Len(g) = End(log) + Len(es)
              /\ \A k \in 1 .. Len(es) : g[End(log) + k] = es[k]
              /\ g[1] = IF log # <<>> THEN Contents(wal.path)[1] ELSE Version(HeaderIteration)
              /\ log # <<>> => Contents(wal.path) # <<>>
  BY <1>3, WrittenEntries
<1>5. /\ wal.path \in Paths /\ wal.path \in {"wal", "checkpoint"} /\ wal.size = Size(log) /\ Size(log) \in Nat
      /\ End(log) \in Nat /\ Size(log) <= End(log)
  <2>1. Size(log) \in Nat /\ End(log) \in Nat /\ Size(log) <= End(log)
    BY LogFacts
  <2> QED
    BY <2>1 DEF ScalarTypes, Active, Paths
<1>6. wal' = [wal EXCEPT !.init_state = "initialized"] /\ wal'.path = wal.path /\ wal'.size = Size(log)
      /\ wal'.init_state = "initialized"
  BY <1>4, <1>5 DEF ScalarTypes
<1>7. Open(g, log, c)
  <2>1. 1 \in 1 .. Len(es) /\ Len(g) = End(log) + 1
    BY <1>2, <1>4
  <2> QED
    BY <1>2, <1>4, <2>1 DEF Open
<1>8. /\ disk'[wal.path] = g /\ synced'[wal.path] = Size(log) /\ disk' \in [Paths -> Files \cup {NoFile}]
      /\ synced' \in [Paths -> Nat]
      /\ \A p \in Paths : p # wal.path => disk'[p] = disk[p] /\ synced'[p] = synced[p]
  BY <1>4, <1>5 DEF DiskTypes
<1>9. g # NoFile /\ Contents(wal.path)' = g
  <2>1. g # NoFile
    BY NoFileIsNoFile
  <2> QED
    BY <1>6, <1>8, <2>1 DEF Contents
<1>10. DiskTypes'
  <2>1. Len(g) = End(log) + 1 /\ Len(g) \in Nat
    BY <1>2, <1>4, FileFacts
  <2>2. \A p \in Paths : synced'[p] <= Len(Contents(p)')
    <3> TAKE p \in Paths
    <3>1. CASE p = wal.path
      <4>1. Contents(p)' = g
        BY <1>8, <1>9, <3>1 DEF Contents
      <4> QED
        BY <1>5, <1>8, <2>1, <3>1, <4>1
    <3>2. CASE p # wal.path
      BY <1>8, <3>2 DEF DiskTypes, Contents
    <3> QED
      BY <3>1, <3>2
  <2>3. wal'.size <= Len(Contents(wal.path)')
    BY <1>5, <1>6, <1>9, <2>1
  <2> QED
    BY <1>6, <1>8, <2>2, <2>3 DEF DiskTypes
<1>11. Active(log)'
  BY <1>5, <1>6, <1>7, <1>8, <1>9 DEF Active, Writing
<1> QED
  BY <1>4, <1>6, <1>8, <1>10, <1>11

\* A commit writes its changes to the main WAL or to the checkpoint WAL.
LEMMA WriteToWALStep ==
    ASSUME RecoveryInv, NEW c \in Commits, WriteToWAL(c)
    PROVE  RecoveryInv'
<1> USE DEF WriteToWAL
<1>1. ScalarTypes /\ Iterations /\ Numbered /\ DiskTypes /\ Locks /\ OpenFiles /\ OpenVersions /\ phase = "open"
  BY DEF RecoveryInv
<1>2. /\ ~Writing /\ commit.pc = "idle" /\ commit.id = NoCommit /\ ~checkpoint.holds_lock
      /\ checkpoint.pc \in {"idle", "start", "write", "header", "finish", "end"}
      /\ committed = acknowledged
  BY <1>1 DEF Locks, Writing, ScalarTypes, CommitPCs, CheckpointStates, CheckpointPCs
<1>3. UNCHANGED <<file, behaviours, checkpoint, acknowledged, phase, checkpoints, committed, iteration_count>>
  OBVIOUS
<1>4. ASSUME NEW log \in Logs, Active(log)
      PROVE  /\ Active(log)' /\ DiskTypes'
             /\ wal' = [wal EXCEPT !.init_state = "initialized"]
             /\ \A p \in Paths : p # wal.path => disk'[p] = disk[p] /\ synced'[p] = synced[p]
             /\ \E g \in Files : /\ disk' = [disk EXCEPT ![wal.path] = g]
                                 /\ g[1] = IF log # <<>> THEN Contents(wal.path)[1] ELSE Version(HeaderIteration)
                                 /\ log # <<>> => Contents(wal.path) # <<>>
  BY <1>1, <1>2, <1>4, WriteActive
<1>5. PICK log \in Logs : /\ Active(log)
                          /\ wal.path = "wal" => (checkpoint.pc = "header" => ~checkpoint.has_wal) /\ checkpoint.pc # "finish"
                          /\ wal.path = "checkpoint" => checkpoint.pc \in {"write", "header", "finish"}
  BY <1>1, <1>2 DEF OpenFiles, OneWAL, TwoWALs, Locks
<1>6. /\ Active(log)' /\ DiskTypes' /\ wal' = [wal EXCEPT !.init_state = "initialized"]
  BY <1>4, <1>5
<1>7. ScalarTypes'
  <2>1. commit' \in [id : Commits \cup {NoCommit}, pc : CommitPCs, initial_wal_size : Nat]
    BY <1>1 DEF ScalarTypes, CommitPCs
  <2>2. wal' \in [path : {"wal", "checkpoint"}, iteration : Nat, size : Nat,
                  init_state : {"no_wal", "uninitialized", "requires_truncate", "initialized"}]
    BY <1>1, <1>6 DEF ScalarTypes
  <2>3. commits' \in Nat
    BY CommitFacts
  <2> QED
    BY <1>1, <2>1, <2>2, <2>3 DEF ScalarTypes
<1>8. Iterations'
  BY <1>1, <1>6 DEF Iterations, ScalarTypes
<1>9. Numbered'
  <2>1. commits \in Nat /\ commits' = commits + 1 /\ c = commits + 1
    BY <1>1 DEF ScalarTypes
  <2>2. \A i \in 1 .. Len(acknowledged) : acknowledged[i] \in Nat
    BY <1>1, LogFacts, CommitFacts DEF ScalarTypes
  <2> QED
    BY <1>1, <1>3, <2>1, <2>2 DEF Numbered
<1>10. Locks'
  BY <1>1, <1>2, <1>3, CommitFacts DEF Locks, Writing
<1>11. OpenFiles'
  <2>1. ASSUME NEW m \in Logs, OneWAL(m) PROVE OneWAL(m)'
    <3>1. Active(m)' /\ wal'.path = "wal" /\ disk'["checkpoint"] = disk["checkpoint"]
      BY <1>1, <1>4, <2>1 DEF OneWAL, Paths, ScalarTypes
    <3> QED
      BY <1>2, <1>3, <2>1, <3>1 DEF OneWAL, Seen
  <2>2. ASSUME NEW m \in Logs, NEW d \in Logs, TwoWALs(m, d) PROVE TwoWALs(m, d)'
    <3>1. Active(d)' /\ wal'.path = "checkpoint" /\ wal'.init_state = "initialized" /\ disk'["wal"] = disk["wal"] /\ synced'["wal"] = synced["wal"]
      BY <1>1, <1>4, <2>2 DEF TwoWALs, Paths, ScalarTypes
    <3> QED
      BY <1>2, <1>3, <2>2, <3>1 DEF TwoWALs, Seen
  <2> QED
    BY <1>1, <1>2, <1>3, <2>1, <2>2 DEF OpenFiles
<1>12. OpenVersions'
  <2>1. PICK g \in Files : /\ disk' = [disk EXCEPT ![wal.path] = g]
                           /\ g[1] = IF log # <<>> THEN Contents(wal.path)[1] ELSE Version(HeaderIteration)
                           /\ log # <<>> => Contents(wal.path) # <<>>
    BY <1>4, <1>5
  <2>2. PICK done \in BOOLEAN : done <=> checkpoint.pc = "finish"
    <3>1. (checkpoint.pc = "finish") \in BOOLEAN
      OBVIOUS
    <3> QED
      BY <3>1
  <2>3. ~MayBeRefused /\ "iteration" \in behaviours => HeaderIteration = Expected(wal.path, done)
    BY <1>1, <1>5, <2>2 DEF OpenVersions, HeaderIteration, Expected, Iterations, ScalarTypes, CheckpointStates, CheckpointPCs
  <2>4. Versions(done)
    BY <1>1, <2>2 DEF OpenVersions, Versions
  <2>5. Versions(done)'
    BY <1>1, <1>3, <2>1, <2>3, <2>4, WrittenVersions
  <2>6. wal'.size = wal.size /\ wal'.iteration = wal.iteration /\ wal'.path = wal.path
    BY <1>1, <1>6 DEF ScalarTypes
  <2> QED
    BY <1>1, <1>3, <2>2, <2>5, <2>6 DEF OpenVersions, Versions, MayBeRefused
<1> QED
  BY <1>1, <1>3, <1>6, <1>7, <1>8, <1>9, <1>10, <1>11, <1>12 DEF RecoveryInv

\* The version entries stay: a file is removed or emptied, or its first entry is kept.
LEMMA KeptVersions ==
    ASSUME NEW done \in BOOLEAN, Versions(done), UNCHANGED <<file, behaviours>>,
           ~MayBeRefused => \A p \in {"wal", "checkpoint"} :
              \/ disk'[p] = NoFile \/ disk'[p] = <<>>
              \/ disk[p] # NoFile /\ disk[p] # <<>> /\ disk'[p][1] = disk[p][1]
    PROVE  Versions(done)'
<1> SUFFICES ASSUME ~MayBeRefused PROVE Versions(done)'
  BY DEF Versions, MayBeRefused
<1>1. \A p \in {"wal", "checkpoint"} : VersionIs(p, Expected(p, done))
  BY DEF Versions, Expected
<1>2. \A p \in {"wal", "checkpoint"} : disk'[p] # NoFile => HasVersion(disk'[p], Expected(p, done))
  BY <1>1 DEF VersionIs, HasVersion
<1>3. \A p \in {"wal", "checkpoint"} : VersionIs(p, Expected(p, done))'
  BY <1>2 DEF VersionIs, HasVersion, Expected
<1> QED
  BY <1>3 DEF Versions, Expected

\* While a commit is under way there is one active file.
LEMMA WritingFile ==
    ASSUME ScalarTypes, DiskTypes, Locks, Writing, NEW log \in Logs, Active(log)
    PROVE  /\ wal.path \in Paths /\ wal.path \in {"wal", "checkpoint"}
           /\ disk[wal.path] \in Files /\ disk[wal.path] # NoFile
           /\ Contents(wal.path) = disk[wal.path]
           /\ Size(log) \in Nat /\ Len(disk[wal.path]) \in Nat /\ Size(log) <= Len(disk[wal.path])
           /\ disk[wal.path] # <<>> /\ Holds(disk[wal.path], log)
           /\ commit.id \in Commits /\ wal.size = Size(log) /\ synced[wal.path] >= Size(log)
           /\ synced[wal.path] \in 0 .. Len(disk[wal.path])
           /\ commit.initial_wal_size = Size(log)
           /\ wal.init_state = "initialized"
<1>1. /\ wal.path \in Paths /\ wal.path \in {"wal", "checkpoint"} /\ disk[wal.path] # NoFile
      /\ commit.id \in Commits
      /\ commit.initial_wal_size = Size(log) /\ wal.init_state = "initialized"
      /\ wal.size = Size(log) /\ synced[wal.path] >= Size(log)
  BY DEF Active, Writing, Locks, ScalarTypes, Paths
<1>2. disk[wal.path] \in Files /\ Contents(wal.path) = disk[wal.path] /\ synced[wal.path] \in 0 .. Len(disk[wal.path])
  BY <1>1, ContentsFacts
<1>3. Holds(disk[wal.path], log)
  <2>1. CASE commit.pc = "flush"
    BY <1>2, <2>1 DEF Active, Open
  <2>2. CASE commit.pc = "sync"
    <3>1. Clean(disk[wal.path], Append(log, commit.id))
      BY <1>2, <2>2 DEF Active
    <3>2. /\ Append(log, commit.id) \in Logs /\ Len(Append(log, commit.id)) = Len(log) + 1
          /\ \A i \in 1 .. Len(log) : Append(log, commit.id)[i] = log[i]
          /\ Len(log) \in Nat /\ Append(log, commit.id) # <<>>
      BY <1>1 DEF Logs
    <3>3. PICK n \in Logs : n = Append(log, commit.id)
      BY <3>2
    <3>4. Holds(disk[wal.path], n) /\ End(n) = End(log) + 2 /\ End(log) \in Nat /\ Len(disk[wal.path]) \in Nat
      BY <1>2, <3>1, <3>2, <3>3, LogFacts, FileFacts DEF Clean, End
    <3>5. Len(disk[wal.path]) >= End(log) /\ \A i \in 1 .. Len(log) : i \in 1 .. Len(n) /\ n[i] = log[i]
      BY <3>2, <3>3, <3>4 DEF Holds
    <3> QED
      BY <3>4, <3>5 DEF Holds
  <2> QED
    BY <2>1, <2>2 DEF Writing
<1>4. /\ Size(log) \in Nat /\ Len(disk[wal.path]) \in Nat /\ Size(log) <= Len(disk[wal.path])
      /\ disk[wal.path] # <<>>
  <2>1. /\ End(log) \in Nat /\ End(log) >= 1 /\ Size(log) \in Nat /\ Size(log) <= End(log)
        /\ Len(disk[wal.path]) \in Nat /\ (disk[wal.path] = <<>> <=> Len(disk[wal.path]) = 0)
    BY <1>2, LogFacts, FileFacts
  <2>2. Len(disk[wal.path]) >= End(log)
    BY <1>3 DEF Holds
  <2> QED
    BY <2>1, <2>2
<1> QED
  BY <1>1, <1>2, <1>3, <1>4

\* The WAL_FLUSH of a commit.
LEMMA FlushCommitStep ==
    ASSUME RecoveryInv, FlushCommit
    PROVE  RecoveryInv'
<1> USE DEF FlushCommit, rest, bounds
<1>1. ScalarTypes /\ Iterations /\ Numbered /\ DiskTypes /\ Locks /\ OpenFiles /\ OpenVersions /\ phase = "open"
  BY DEF RecoveryInv
<1>2. /\ Writing /\ commit.pc = "flush" /\ ~checkpoint.holds_lock /\ commit.id \in Commits
      /\ checkpoint.pc \in {"idle", "start", "write", "header", "finish", "end"}
      /\ committed = acknowledged
  BY <1>1 DEF Locks, Writing, ScalarTypes, CommitPCs, CheckpointStates, CheckpointPCs
<1>3. /\ UNCHANGED <<file, behaviours, checkpoint, acknowledged, phase, commits, checkpoints, iteration_count, wal, wal_lock, synced>>
      /\ commit' = [commit EXCEPT !.pc = "sync"] /\ commit'.pc = "sync" /\ commit'.id = commit.id
      /\ commit'.initial_wal_size = commit.initial_wal_size
  BY <1>1 DEF ScalarTypes
<1>4. PICK log \in Logs : Active(log)
  BY <1>1, <1>2 DEF OpenFiles, OneWAL, TwoWALs, Locks
<1>5. /\ wal.path \in Paths /\ wal.path \in {"wal", "checkpoint"}
      /\ disk[wal.path] \in Files /\ disk[wal.path] # NoFile /\ Contents(wal.path) = disk[wal.path]
      /\ Len(disk[wal.path]) \in Nat /\ disk[wal.path] # <<>> /\ wal.init_state = "initialized"
  BY <1>1, <1>2, <1>4, WritingFile
<1>6. PICK g : g = Append(disk[wal.path], Flushed)
  OBVIOUS
<1>7. ASSUME NEW m \in Logs, Active(m)
      PROVE  /\ g \in Files /\ Clean(g, Append(m, commit.id)) /\ g[1] = disk[wal.path][1] /\ g # <<>>
             /\ Len(g) = Len(disk[wal.path]) + 1
  <2>1. Open(disk[wal.path], m, commit.id)
    BY <1>2, <1>5, <1>7 DEF Active
  <2>2. g \in Files /\ Clean(g, Append(m, commit.id)) /\ g[1] = disk[wal.path][1]
    BY <1>2, <1>5, <1>6, <2>1, FlushEntry
  <2>3. Len(g) = Len(disk[wal.path]) + 1
    BY <1>5, <1>6, FileFacts
  <2>4. g # <<>>
    BY <1>5, <2>2, <2>3, FileFacts
  <2> QED
    BY <2>2, <2>3, <2>4
<1>8. /\ g \in Files /\ g[1] = disk[wal.path][1] /\ g # NoFile /\ Len(g) = Len(disk[wal.path]) + 1
  BY <1>4, <1>7, NoFileIsNoFile
<1>9. /\ disk'[wal.path] = g /\ disk' \in [Paths -> Files \cup {NoFile}]
      /\ \A p \in Paths : p # wal.path => disk'[p] = disk[p]
  BY <1>1, <1>5, <1>6, <1>8 DEF DiskTypes
<1>10. Contents(wal.path)' = g
  BY <1>3, <1>8, <1>9 DEF Contents
<1>11. ScalarTypes'
  <2>1. committed' \in Logs
    BY <1>1, <1>2, LogAppend DEF ScalarTypes
  <2>2. commit' \in [id : Commits \cup {NoCommit}, pc : CommitPCs, initial_wal_size : Nat]
    BY <1>1, <1>3 DEF ScalarTypes, CommitPCs
  <2> QED
    BY <1>1, <1>3, <2>1, <2>2 DEF ScalarTypes
<1>12. Iterations' /\ Numbered'
  BY <1>1, <1>3 DEF Iterations, Numbered
<1>13. DiskTypes'
  <2>1. \A p \in Paths : synced'[p] <= Len(Contents(p)')
    <3> TAKE p \in Paths
    <3>1. CASE p = wal.path
      <4>1. Contents(p)' = g
        BY <1>8, <1>9, <3>1 DEF Contents
      <4>2. synced[p] \in Nat /\ synced[p] <= Len(disk[wal.path])
        BY <1>1, <1>5, <3>1 DEF DiskTypes
      <4> QED
        BY <1>3, <1>5, <1>8, <4>1, <4>2
    <3>2. CASE p # wal.path
      BY <1>1, <1>3, <1>9, <3>2 DEF DiskTypes, Contents
    <3> QED
      BY <3>1, <3>2
  <2>2. wal'.size <= Len(Contents(wal.path)')
    <3>1. wal.size <= Len(disk[wal.path]) /\ wal.size \in Nat
      BY <1>1, <1>5 DEF DiskTypes, ScalarTypes
    <3> QED
      BY <1>3, <1>5, <1>8, <1>10, <3>1
  <2> QED
    BY <1>1, <1>3, <1>9, <2>1, <2>2 DEF DiskTypes
<1>14. Locks'
  BY <1>1, <1>2, <1>3, CommitFacts DEF Locks, Writing
<1>15. ASSUME NEW m \in Logs, Active(m) PROVE Active(m)'
  <2>1. Clean(g, Append(m, commit.id)) /\ commit.initial_wal_size = Size(m)
    BY <1>2, <1>7, <1>15 DEF Active
  <2> QED
    BY <1>3, <1>5, <1>8, <1>9, <1>10, <1>15, <2>1 DEF Active, Writing
<1>16. OpenFiles'
  <2>1. ASSUME NEW m \in Logs, OneWAL(m) PROVE OneWAL(m)'
    <3>1. Active(m)' /\ disk'["checkpoint"] = disk["checkpoint"]
      BY <1>9, <1>15, <2>1 DEF OneWAL, Paths
    <3> QED
      BY <1>2, <1>3, <2>1, <3>1 DEF OneWAL, Seen
  <2>2. ASSUME NEW m \in Logs, NEW d \in Logs, TwoWALs(m, d) PROVE TwoWALs(m, d)'
    <3>1. Active(d)' /\ disk'["wal"] = disk["wal"]
      BY <1>9, <1>15, <2>2 DEF TwoWALs, Paths
    <3> QED
      BY <1>2, <1>3, <2>2, <3>1 DEF TwoWALs, Seen
  <2> QED
    BY <1>1, <1>2, <1>3, <2>1, <2>2 DEF OpenFiles
<1>17. OpenVersions'
  <2>1. PICK done \in BOOLEAN : done <=> checkpoint.pc = "finish"
    <3>1. (checkpoint.pc = "finish") \in BOOLEAN
      OBVIOUS
    <3> QED
      BY <3>1
  <2>2. Versions(done)
    BY <1>1, <2>1 DEF OpenVersions, Versions
  <2>3. \A p \in {"wal", "checkpoint"} :
              \/ disk'[p] = NoFile \/ disk'[p] = <<>>
              \/ disk[p] # NoFile /\ disk[p] # <<>> /\ disk'[p][1] = disk[p][1]
    BY <1>5, <1>8, <1>9 DEF Paths
  <2>4. Versions(done)'
    BY <1>3, <2>2, <2>3, KeptVersions
  <2> QED
    BY <1>1, <1>3, <2>1, <2>4 DEF OpenVersions, Versions, MayBeRefused
<1> QED
  BY <1>1, <1>3, <1>11, <1>12, <1>13, <1>14, <1>16, <1>17 DEF RecoveryInv

\* The commit is synced and reported.
LEMMA EndCommitStep ==
    ASSUME RecoveryInv, EndCommit
    PROVE  RecoveryInv'
<1> USE DEF EndCommit, rest, bounds
<1>1. ScalarTypes /\ Iterations /\ Numbered /\ DiskTypes /\ Locks /\ OpenFiles /\ OpenVersions /\ phase = "open"
  BY DEF RecoveryInv
<1>2. /\ Writing /\ commit.pc = "sync" /\ ~checkpoint.holds_lock /\ commit.id \in Commits
      /\ checkpoint.pc \in {"idle", "start", "write", "header", "finish", "end"}
      /\ committed = Append(acknowledged, commit.id)
  BY <1>1 DEF Locks, Writing, ScalarTypes, CommitPCs, CheckpointStates, CheckpointPCs
<1>3. /\ UNCHANGED <<file, disk, behaviours, checkpoint, committed, phase, commits, checkpoints, iteration_count>>
      /\ commit'.pc = "idle" /\ commit'.id = NoCommit /\ commit' = NoCommitUnderway
      /\ acknowledged' = Append(acknowledged, commit.id) /\ wal_lock' = "free"
  BY DEF NoCommitUnderway
<1>4. PICK log \in Logs : Active(log)
  BY <1>1, <1>2 DEF OpenFiles, OneWAL, TwoWALs, Locks
<1>5. /\ wal.path \in Paths /\ wal.path \in {"wal", "checkpoint"}
      /\ disk[wal.path] \in Files /\ disk[wal.path] # NoFile /\ Contents(wal.path) = disk[wal.path]
      /\ Len(disk[wal.path]) \in Nat /\ wal.init_state = "initialized"
  BY <1>1, <1>2, <1>4, WritingFile
<1>6. PICK n \in Nat : n = Len(disk[wal.path])
  BY <1>5
<1>7. /\ synced' = [synced EXCEPT ![wal.path] = n] /\ wal' = [wal EXCEPT !.size = n]
      /\ wal'.path = wal.path /\ wal'.size = n /\ wal'.init_state = "initialized" /\ wal'.iteration = wal.iteration
      /\ synced'[wal.path] = n /\ synced' \in [Paths -> Nat]
      /\ \A p \in Paths : p # wal.path => synced'[p] = synced[p]
  BY <1>1, <1>5, <1>6 DEF SyncWAL, ScalarTypes, DiskTypes
<1>8. Contents(wal.path)' = disk[wal.path]
  BY <1>3, <1>5, <1>7 DEF Contents
<1>9. ScalarTypes'
  <2>1. acknowledged' \in Logs
    BY <1>1, <1>2, <1>3, LogAppend DEF ScalarTypes
  <2>2. commit' \in [id : Commits \cup {NoCommit}, pc : CommitPCs, initial_wal_size : Nat]
    BY <1>3 DEF NoCommitUnderway, CommitPCs
  <2>3. wal' \in [path : {"wal", "checkpoint"}, iteration : Nat, size : Nat,
                  init_state : {"no_wal", "uninitialized", "requires_truncate", "initialized"}]
    BY <1>1, <1>7 DEF ScalarTypes
  <2> QED
    BY <1>1, <1>3, <2>1, <2>2, <2>3 DEF ScalarTypes
<1>10. Iterations'
  BY <1>1, <1>3, <1>7 DEF Iterations
<1>11. Numbered'
  <2>1. /\ Len(acknowledged') = Len(acknowledged) + 1 /\ Len(acknowledged) \in Nat
        /\ \A i \in 1 .. Len(acknowledged) : acknowledged'[i] = acknowledged[i]
        /\ acknowledged'[Len(acknowledged) + 1] = commit.id
    BY <1>1, <1>2, <1>3 DEF ScalarTypes, Logs
  <2>2. commit.id <= commits
    BY <1>1, <1>2, CommitFacts DEF Numbered
  <2>3. \A i \in 1 .. Len(acknowledged) + 1 : i \in 1 .. Len(acknowledged) \/ i = Len(acknowledged) + 1
    BY <2>1
  <2> QED
    BY <1>1, <1>3, <2>1, <2>2, <2>3 DEF Numbered
<1>12. DiskTypes'
  <2>1. \A p \in Paths : synced'[p] <= Len(Contents(p)')
    <3> TAKE p \in Paths
    <3>1. Contents(p)' = Contents(p)
      BY <1>3 DEF Contents
    <3>2. CASE p = wal.path
      BY <1>5, <1>6, <1>7, <3>1, <3>2
    <3>3. CASE p # wal.path
      BY <1>1, <1>7, <3>1, <3>3 DEF DiskTypes
    <3> QED
      BY <3>2, <3>3
  <2>2. wal'.size <= Len(Contents(wal.path)')
    BY <1>6, <1>7, <1>8
  <2> QED
    BY <1>1, <1>3, <1>7, <2>1, <2>2 DEF DiskTypes
<1>13. Locks'
  BY <1>1, <1>2, <1>3 DEF Locks, Writing
<1>14. ASSUME NEW m \in Logs, Active(m)
       PROVE  \E q \in Logs : q = Append(m, commit.id) /\ Active(q)' /\ n = Size(q) /\ q # <<>>
  <2>1. PICK q \in Logs : q = Append(m, commit.id) /\ q # <<>>
    BY <1>2, LogAppend
  <2>2. Clean(disk[wal.path], q)
    BY <1>2, <1>5, <1>14, <2>1 DEF Active
  <2>3. n = Size(q)
    BY <1>6, <2>2 DEF Clean
  <2>4. Active(q)'
    BY <1>3, <1>5, <1>6, <1>7, <1>8, <2>2, <2>3 DEF Active, Writing
  <2> QED
    BY <2>1, <2>3, <2>4
<1>15. OpenFiles'
  <2>1. ASSUME NEW m \in Logs, OneWAL(m) PROVE \E q \in Logs : OneWAL(q)'
    <3>1. PICK q \in Logs : q = Append(m, commit.id) /\ Active(q)'
      BY <1>14, <2>1 DEF OneWAL
    <3>2. file.log \o q = Append(file.log \o m, commit.id)
      BY SMTT(30), <1>1, <1>2, <3>1, LogAppend DEF ScalarTypes
    <3>3. file.log \o m = acknowledged
      BY <1>2, <2>1 DEF OneWAL, Seen
    <3>4. OneWAL(q)'
      BY <1>2, <1>3, <1>7, <2>1, <3>1, <3>2, <3>3 DEF OneWAL, Seen
    <3> QED
      BY <3>1, <3>4
  <2>2. ASSUME NEW m \in Logs, NEW d \in Logs, TwoWALs(m, d) PROVE \E q \in Logs : TwoWALs(m, q)'
    <3>1. PICK q \in Logs : q = Append(d, commit.id) /\ Active(q)'
      BY <1>14, <2>2 DEF TwoWALs
    <3> HIDE DEF EndCommit
    <3>2. \A l \in Logs : l \o q = Append(l \o d, commit.id)
      BY <1>2, <3>1, LogAppend
    <3>3. file.log \in Logs /\ file.log \o m \in Logs
      BY <1>1, LogConcat DEF ScalarTypes
    <3>4. synced'["wal"] = synced["wal"]
      BY <1>7, <2>2 DEF TwoWALs, Paths
    <3>5. TwoWALs(m, q)'
      BY <1>2, <1>3, <1>7, <2>2, <3>1, <3>2, <3>3, <3>4 DEF TwoWALs, Seen
    <3> QED
      BY <3>1, <3>5
  <2> QED
    BY <1>1, <1>2, <1>3, <2>1, <2>2 DEF OpenFiles
<1>16. OpenVersions'
  <2>1. wal'.size > 0
    <3>1. PICK q \in Logs : q # <<>> /\ n = Size(q)
      BY <1>4, <1>14
    <3> QED
      BY <1>7, <3>1, LogFacts
  <2> QED
    BY <1>1, <1>3, <1>7, <2>1 DEF OpenVersions, Versions, VersionIs, HasVersion, MayBeRefused
<1> QED
  BY <1>1, <1>3, <1>9, <1>10, <1>11, <1>12, <1>13, <1>15, <1>16 DEF RecoveryInv

\* A commit that fails leaves the file as it found it.
LEMMA RevertCommitStep ==
    ASSUME RecoveryInv, RevertCommit
    PROVE  RecoveryInv'
<1> USE DEF RevertCommit, rest, bounds
<1>1. ScalarTypes /\ Iterations /\ Numbered /\ DiskTypes /\ Locks /\ OpenFiles /\ OpenVersions /\ phase = "open"
  BY DEF RecoveryInv
<1>2. /\ Writing /\ ~checkpoint.holds_lock /\ commit.id \in Commits
      /\ checkpoint.pc \in {"idle", "start", "write", "header", "finish", "end"}
      /\ commit.pc = "flush" => committed = acknowledged
      /\ commit.pc = "sync" => committed = Append(acknowledged, commit.id)
  BY <1>1 DEF Locks, Writing, ScalarTypes, CommitPCs, CheckpointStates, CheckpointPCs
<1>3. /\ UNCHANGED <<file, behaviours, checkpoint, acknowledged, phase, commits, checkpoints, iteration_count>>
      /\ commit'.pc = "idle" /\ commit'.id = NoCommit /\ commit' = NoCommitUnderway
      /\ wal_lock' = "free"
  BY DEF NoCommitUnderway
<1>4. committed' = acknowledged
  <2>1. Front(Append(acknowledged, commit.id)) = acknowledged
    BY <1>1, <1>2 DEF Front, ScalarTypes, Logs
  <2> QED
    BY <1>2, <2>1
<1>5. PICK log \in Logs : Active(log)
  BY <1>1, <1>2 DEF OpenFiles, OneWAL, TwoWALs, Locks
<1>6. /\ wal.path \in Paths /\ wal.path \in {"wal", "checkpoint"}
      /\ disk[wal.path] \in Files /\ disk[wal.path] # NoFile /\ disk[wal.path] # <<>>
      /\ Contents(wal.path) = disk[wal.path]
      /\ Holds(disk[wal.path], log) /\ Size(log) \in Nat /\ Size(log) = wal.size
      /\ commit.initial_wal_size = Size(log) /\ synced[wal.path] >= Size(log) /\ synced[wal.path] \in Nat
      /\ wal.init_state = "initialized"
  BY <1>1, <1>2, <1>5, WritingFile
<1>7. PICK n \in Nat : n = Size(log)
  BY <1>6
<1>8. PICK g \in Files : g = SubSeq(disk[wal.path], 1, n) /\ Clean(g, log) /\ Len(g) = n
                         /\ (log # <<>> => g[1] = disk[wal.path][1])
                         /\ (g = <<>> <=> log = <<>>)
  <2>1. PICK g : g = SubSeq(disk[wal.path], 1, Size(log))
    OBVIOUS
  <2>2. g \in Files /\ Clean(g, log) /\ Len(g) = Size(log) /\ (log # <<>> => g[1] = disk[wal.path][1])
    BY <1>6, <2>1, Truncation
  <2>3. g = <<>> <=> log = <<>>
    BY <2>2, CleanFile
  <2>4. g = SubSeq(disk[wal.path], 1, n) /\ Len(g) = n
    BY <1>7, <2>1, <2>2
  <2> QED
    BY <2>2, <2>3, <2>4
<1>9. /\ disk' = [disk EXCEPT ![wal.path] = g]
      /\ wal' = wal
      /\ synced' = [synced EXCEPT ![wal.path] = n]
  <2>1. disk' = [disk EXCEPT ![wal.path] = g]
    BY <1>6, <1>7, <1>8
  <2>2. wal' = wal
    BY <1>1, <1>6 DEF ScalarTypes
  <2>3. (IF synced[wal.path] < n THEN synced[wal.path] ELSE n) = n
    BY <1>6, <1>7
  <2>4. synced' = [synced EXCEPT ![wal.path] = IF synced[wal.path] < n THEN synced[wal.path] ELSE n]
    BY <1>1, <1>6, <1>7 DEF DiskTypes
  <2> QED
    BY <2>1, <2>2, <2>3, <2>4
<1>10. /\ disk'[wal.path] = g /\ synced'[wal.path] = n /\ g # NoFile
       /\ disk' \in [Paths -> Files \cup {NoFile}] /\ synced' \in [Paths -> Nat]
       /\ \A p \in Paths : p # wal.path => disk'[p] = disk[p] /\ synced'[p] = synced[p]
  <2>1. g # NoFile
    BY NoFileIsNoFile
  <2>2. DOMAIN disk = Paths /\ DOMAIN synced = Paths /\ wal.path \in Paths
    BY <1>1, <1>6 DEF DiskTypes
  <2>3. disk'[wal.path] = g /\ synced'[wal.path] = n
    BY <1>9, <2>2
  <2>4. disk' \in [Paths -> Files \cup {NoFile}] /\ synced' \in [Paths -> Nat]
    <3>1. disk \in [Paths -> Files \cup {NoFile}] /\ g \in Files \cup {NoFile}
      BY <1>1 DEF DiskTypes
    <3>2. disk' \in [Paths -> Files \cup {NoFile}]
      BY <1>9, <2>2, <3>1
    <3>3. synced \in [Paths -> Nat]
      BY <1>1 DEF DiskTypes
    <3>4. synced' \in [Paths -> Nat]
      BY <1>9, <2>2, <3>3
    <3> QED
      BY <3>2, <3>4
  <2>5. \A p \in Paths : p # wal.path => disk'[p] = disk[p] /\ synced'[p] = synced[p]
    BY <1>9, <2>2
  <2> QED
    BY <2>1, <2>3, <2>4, <2>5
<1>11. Contents(wal.path)' = g
  BY <1>9, <1>10 DEF Contents
<1>12. ScalarTypes'
  <2>1. commit' \in [id : Commits \cup {NoCommit}, pc : CommitPCs, initial_wal_size : Nat]
    BY <1>3 DEF NoCommitUnderway, CommitPCs
  <2> QED
    BY <1>1, <1>3, <1>4, <1>9, <2>1 DEF ScalarTypes
<1>13. Iterations' /\ Numbered'
  BY <1>1, <1>3, <1>9 DEF Iterations, Numbered
<1>14. DiskTypes'
  <2>1. \A p \in Paths : synced'[p] <= Len(Contents(p)')
    <3> TAKE p \in Paths
    <3>1. CASE p = wal.path
      <4>1. Contents(p)' = g
        BY <1>10, <3>1 DEF Contents
      <4> QED
        BY <1>8, <1>10, <3>1, <4>1
    <3>2. CASE p # wal.path
      BY <1>1, <1>10, <3>2 DEF DiskTypes, Contents
    <3> QED
      BY <3>1, <3>2
  <2>2. wal'.size <= Len(Contents(wal.path)')
    BY <1>6, <1>7, <1>8, <1>9, <1>11
  <2> QED
    BY <1>10, <2>1, <2>2 DEF DiskTypes
<1>15. Locks'
  BY <1>1, <1>2, <1>3, <1>4 DEF Locks, Writing
<1>16. ASSUME NEW m \in Logs, Active(m) PROVE Active(m)'
  <2>1. Size(m) = n /\ Holds(disk[wal.path], m)
    BY <1>1, <1>2, <1>6, <1>7, <1>16, WritingFile
  <2>2. Clean(g, m)
    <3>1. PICK f : f = SubSeq(disk[wal.path], 1, Size(m))
      OBVIOUS
    <3>2. Clean(f, m)
      BY <1>6, <2>1, <3>1, Truncation
    <3> QED
      BY <1>8, <2>1, <3>1, <3>2
  <2>3. wal'.path = wal.path /\ wal'.size = n /\ wal'.init_state = "initialized"
    BY <1>6, <1>7, <1>9
  <2> HIDE DEF RevertCommit
  <2>4. synced'[wal'.path] = n /\ disk'[wal'.path] # NoFile
    BY <1>10, <2>3
  <2>5. n >= n
    BY <1>6
  <2> QED
    BY <1>3, <1>11, <2>1, <2>2, <2>3, <2>4, <2>5 DEF Active, Writing
<1>17. OpenFiles'
  <2>1. ASSUME NEW m \in Logs, OneWAL(m) PROVE OneWAL(m)'
    <3>1. Active(m)' /\ disk'["checkpoint"] = disk["checkpoint"]
      BY <1>10, <1>16, <2>1 DEF OneWAL, Paths
    <3> QED
      BY <1>2, <1>3, <1>9, <2>1, <3>1 DEF OneWAL, Seen
  <2>2. ASSUME NEW m \in Logs, NEW d \in Logs, TwoWALs(m, d) PROVE TwoWALs(m, d)'
    <3>1. Active(d)' /\ disk'["wal"] = disk["wal"] /\ synced'["wal"] = synced["wal"]
      BY <1>10, <1>16, <2>2 DEF TwoWALs, Paths
    <3> QED
      BY <1>2, <1>3, <1>9, <2>2, <3>1 DEF TwoWALs, Seen
  <2> QED
    BY <1>1, <1>2, <1>3, <2>1, <2>2 DEF OpenFiles
<1>18. OpenVersions'
  <2>1. PICK done \in BOOLEAN : done <=> checkpoint.pc = "finish"
    <3>1. (checkpoint.pc = "finish") \in BOOLEAN
      OBVIOUS
    <3> QED
      BY <3>1
  <2>2. Versions(done)
    BY <1>1, <2>1 DEF OpenVersions, Versions
  <2>3. \A p \in {"wal", "checkpoint"} :
              \/ disk'[p] = NoFile \/ disk'[p] = <<>>
              \/ disk[p] # NoFile /\ disk[p] # <<>> /\ disk'[p][1] = disk[p][1]
    <3> TAKE p \in {"wal", "checkpoint"}
    <3>1. CASE p = wal.path
      BY <1>6, <1>8, <1>10, <3>1
    <3>2. CASE p # wal.path
      <4>1. disk'[p] = disk[p]
        BY <1>10, <3>2 DEF Paths
      <4> QED
        BY <4>1
    <3> QED
      BY <3>1, <3>2
  <2>4. Versions(done)'
    BY <1>3, <2>2, <2>3, KeptVersions
  <2> QED
    BY <1>1, <1>3, <1>9, <2>1, <2>4 DEF OpenVersions, Versions, MayBeRefused
<1> QED
  BY <1>1, <1>3, <1>12, <1>13, <1>14, <1>15, <1>17, <1>18 DEF RecoveryInv

\* A commit that is made durable by its checkpoint.
LEMMA SkipWALWriteStep ==
    ASSUME RecoveryInv, NEW c \in Commits, SkipWALWrite(c)
    PROVE  RecoveryInv'
<1> USE DEF SkipWALWrite
<1>1. ScalarTypes /\ Iterations /\ Numbered /\ DiskTypes /\ Locks /\ OpenFiles /\ OpenVersions /\ phase = "open"
  BY DEF RecoveryInv
<1>2. /\ ~Writing /\ commit.pc = "idle" /\ commit.id = NoCommit /\ committed = acknowledged /\ checkpoint.pc = "idle"
      /\ ~checkpoint.holds_lock
  BY <1>1 DEF Locks, Writing, ScalarTypes, CommitPCs, CheckpointStates, CheckpointPCs
<1>3. /\ UNCHANGED <<file, disk, synced, wal, iteration_count, acknowledged, phase, behaviours>>
      /\ commit'.pc = "checkpoint" /\ commit'.id = c
      /\ checkpoint'.pc = "start" /\ checkpoint'.holds_lock = TRUE /\ checkpoint'.has_wal = FALSE
      /\ wal_lock' = "checkpoint" /\ checkpoints' = checkpoints + 1 /\ checkpoints < MaxCheckpoints
      /\ committed' = Append(acknowledged, c)
  BY <1>2 DEF NoCheckpoint
<1>4. ScalarTypes'
  <2>1. checkpoint' \in CheckpointStates
    BY NoCheckpointFacts
  <2>2. checkpoints' \in 0 .. MaxCheckpoints
    <3> HIDE DEF SkipWALWrite
    <3>1. checkpoints \in 0 .. MaxCheckpoints /\ MaxCheckpoints \in Nat
      BY <1>1, CommitFacts DEF ScalarTypes
    <3> QED
      BY <1>3, <3>1
  <2>3. commit' \in [id : Commits \cup {NoCommit}, pc : CommitPCs, initial_wal_size : Nat]
    BY DEF CommitPCs
  <2>4. committed' \in Logs /\ commits' \in Nat
    BY <1>1, <1>3, LogAppend, CommitFacts DEF ScalarTypes
  <2> QED
    BY <1>1, <1>3, <2>1, <2>2, <2>3, <2>4 DEF ScalarTypes
<1>5. Iterations'
  BY <1>1, <1>2, <1>3 DEF Iterations, ScalarTypes
<1>6. Numbered'
  <2>1. commits \in Nat /\ commits' = commits + 1 /\ c = commits + 1
    BY <1>1 DEF ScalarTypes
  <2>2. \A i \in 1 .. Len(acknowledged) : acknowledged[i] \in Nat
    BY <1>1, LogFacts, CommitFacts DEF ScalarTypes
  <2> QED
    BY <1>1, <1>3, <2>1, <2>2 DEF Numbered
<1>7. DiskTypes'
  BY <1>1, <1>3 DEF DiskTypes, Contents
<1>8. Locks'
  BY <1>1, <1>2, <1>3, CommitFacts DEF Locks, Writing
<1>9. OpenFiles'
  <2>1. PICK m \in Logs : OneWAL(m)
    BY <1>1, <1>2 DEF OpenFiles
  <2>2. Active(m)'
    BY <1>2, <1>3, <2>1 DEF OneWAL, Active, Writing, Contents
  <2>3. OneWAL(m)'
    BY <1>2, <1>3, <2>1, <2>2 DEF OneWAL
  <2> QED
    BY <1>3, <2>3 DEF OpenFiles
<1>10. OpenVersions'
  <2>1. "skip_wal" \in behaviours
    OBVIOUS
  <2> QED
    BY <1>1, <1>2, <1>3, <2>1 DEF OpenVersions, Versions, VersionIs, HasVersion, MayBeRefused
<1> QED
  BY <1>1, <1>3, <1>4, <1>5, <1>6, <1>7, <1>8, <1>9, <1>10 DEF RecoveryInv

\* The marker follows all the commits that the checkpoint will write.
LEMMA WALStartCheckpointStep ==
    ASSUME RecoveryInv, WALStartCheckpoint
    PROVE  RecoveryInv'
<1> USE DEF WALStartCheckpoint, rest, bounds
<1>1. ScalarTypes /\ Iterations /\ Numbered /\ DiskTypes /\ Locks /\ OpenFiles /\ OpenVersions /\ phase = "open"
  BY DEF RecoveryInv
<1>2. /\ checkpoint.pc = "start" /\ ~checkpoint.has_wal
      /\ UNCHANGED <<file, iteration_count, committed, acknowledged, commit, phase, commits, checkpoints, behaviours>>
  BY <1>1 DEF Locks
<1>3. ~Writing /\ committed = Seen
  BY <1>1, <1>2 DEF Locks, Writing, MayHoldWALLock, Seen
<1>4. PICK m \in Logs : OneWAL(m)
  BY <1>1, <1>2 DEF OpenFiles
<1>5. /\ wal.path = "wal" /\ wal.path \in Paths /\ disk["checkpoint"] = NoFile /\ Active(m) /\ file.log \o m = acknowledged
      /\ wal.size = Size(m) /\ wal.size \in Nat
  BY <1>1, <1>2, <1>4 DEF OneWAL, Active, ScalarTypes, Paths
<1>6. PICK r \in Roots \ {file.root} :
         LET started == [checkpoint EXCEPT !.root = r, !.log = committed] IN
         IF wal.size = 0
           THEN /\ checkpoint' = [started EXCEPT !.pc = "write"]
                /\ UNCHANGED <<disk, synced, wal, wal_lock>>
           ELSE /\ WriteEntries(<<Marker(r), Flushed>>)
                /\ wal_lock' = "checkpoint"
                /\ checkpoint' = [started EXCEPT !.pc = "marker", !.has_wal = TRUE]
  OBVIOUS
<1>7. Numbered'
  BY <1>1, <1>2 DEF Numbered
<1>8. CASE wal.size = 0
  <2>1. /\ UNCHANGED <<disk, synced, wal, wal_lock>>
        /\ checkpoint' = [checkpoint EXCEPT !.root = r, !.log = committed, !.pc = "write"]
    BY <1>6, <1>8
  <2>2. /\ checkpoint'.pc = "write" /\ checkpoint'.has_wal = FALSE /\ checkpoint'.holds_lock = checkpoint.holds_lock
        /\ checkpoint'.log = committed /\ checkpoint'.root = r /\ checkpoint' \in CheckpointStates
    BY <1>1, <1>2, <2>1 DEF ScalarTypes, CheckpointStates, CheckpointPCs
  <2>3. m = <<>>
    <3>1. Size(m) = 0 /\ Size(m) = (IF m = <<>> THEN 0 ELSE End(m)) /\ End(m) \in Nat /\ End(m) >= 1
      BY <1>5, <1>8, LogFacts
    <3> QED
      BY <3>1
  <2>4. file.log = acknowledged
    BY <1>1, <1>5, <2>3, LogConcat DEF ScalarTypes
  <2>5. ScalarTypes' /\ Iterations' /\ DiskTypes'
    <3>1. ScalarTypes'
      BY <1>1, <1>2, <2>1, <2>2 DEF ScalarTypes
    <3>2. Iterations'
      BY <1>1, <1>2, <2>1, <2>2 DEF Iterations
    <3>3. DiskTypes'
      BY <1>1, <2>1 DEF DiskTypes, Contents
    <3> QED
      BY <3>1, <3>2, <3>3
  <2>6. Locks'
    BY <1>1, <1>2, <1>3, <2>1, <2>2 DEF Locks, Writing
  <2>7. OpenFiles'
    <3>1. Active(m)'
      BY <1>2, <1>5, <2>1 DEF Active, Writing, Contents
    <3>2. OneWAL(m)'
      BY <1>2, <1>3, <1>5, <2>1, <2>2, <2>3, <2>4, <3>1 DEF OneWAL, Seen
    <3> QED
      BY <2>2, <3>2 DEF OpenFiles
  <2>8. OpenVersions'
    BY <1>1, <1>2, <1>5, <1>8, <2>1, <2>2 DEF OpenVersions, Versions, VersionIs, HasVersion, MayBeRefused
  <2> QED
    BY <1>1, <1>2, <1>7, <2>5, <2>6, <2>7, <2>8 DEF RecoveryInv
<1>9. CASE wal.size # 0
  <2>1. /\ WriteEntries(<<Marker(r), Flushed>>) /\ wal_lock' = "checkpoint"
        /\ checkpoint' = [checkpoint EXCEPT !.root = r, !.log = committed, !.pc = "marker", !.has_wal = TRUE]
    BY <1>6, <1>9
  <2>2. /\ checkpoint'.pc = "marker" /\ checkpoint'.has_wal = TRUE /\ checkpoint'.holds_lock = checkpoint.holds_lock
        /\ checkpoint'.log = committed /\ checkpoint'.root = r /\ checkpoint' \in CheckpointStates
    BY <1>1, <1>2, <2>1 DEF ScalarTypes, CheckpointStates, CheckpointPCs
  <2>3. m # <<>> /\ Size(m) = End(m) /\ Size(m) \in Nat
    BY <1>5, <1>9, LogFacts DEF Size
  <2>4. PICK es \in Files : /\ es = <<Marker(r), Flushed>> /\ Len(es) = 2
                            /\ es[1].type = "checkpoint" /\ es[1].root = r /\ es[2].type = "flush"
    <3>1. PICK a \in Entries : a = Marker(r) /\ a.type = "checkpoint" /\ a.root = r
      BY EntryTypes, EntryFields
    <3>2. PICK b \in Entries : b = Flushed /\ b.type = "flush"
      BY EntryTypes, EntryFields
    <3>3. <<a, b>> \in Files /\ Len(<<a, b>>) = 2 /\ <<a, b>>[1] = a /\ <<a, b>>[2] = b
      <4>1. a.type # "torn"
        BY <3>1
      <4> QED
        BY <4>1, TwoEntries
    <3>4. PICK es : es = <<a, b>>
      OBVIOUS
    <3> QED
      BY <3>1, <3>2, <3>3, <3>4
  <2>5. WriteEntries(es)
    BY <2>1, <2>4
  <2>6. PICK g \in Files :
              /\ disk' = [disk EXCEPT ![wal.path] = g]
              /\ synced' = [synced EXCEPT ![wal.path] = Size(m)]
              /\ wal' = [wal EXCEPT !.init_state = "initialized", !.size = Size(m)]
              /\ Holds(g, m) /\ Len(g) = End(m) + Len(es)
              /\ \A k \in 1 .. Len(es) : g[End(m) + k] = es[k]
              /\ g[1] = IF m # <<>> THEN Contents(wal.path)[1] ELSE Version(HeaderIteration)
              /\ m # <<>> => Contents(wal.path) # <<>>
    BY <1>1, <1>3, <1>5, <2>5, WrittenEntries
  <2>7. Closed(g, m, r) /\ Len(g) = End(m) + 2 /\ End(m) \in Nat
    <3>1. 1 \in 1 .. Len(es) /\ 2 \in 1 .. Len(es) /\ Len(g) = End(m) + 2 /\ End(m) \in Nat
      BY <2>4, <2>6, LogFacts
    <3>2. g[End(m) + 1] = es[1] /\ g[End(m) + 2] = es[2]
      BY <2>6, <3>1
    <3> QED
      BY <2>3, <2>4, <2>6, <3>1, <3>2 DEF Closed, Marked
  <2>8. /\ wal'.path = "wal" /\ wal'.size = wal.size /\ wal'.iteration = wal.iteration
        /\ wal' \in [path : {"wal", "checkpoint"}, iteration : Nat, size : Nat,
                  init_state : {"no_wal", "uninitialized", "requires_truncate", "initialized"}]
    BY <1>1, <1>5, <2>3, <2>6 DEF ScalarTypes
  <2>9. /\ disk'["wal"] = g /\ synced'["wal"] = Size(m) /\ g # NoFile
        /\ \A p \in Paths : p # "wal" => disk'[p] = disk[p] /\ synced'[p] = synced[p]
    BY <1>1, <1>5, <2>6, NoFileIsNoFile DEF DiskTypes, Paths
  <2>10. ScalarTypes'
    BY <1>1, <1>2, <2>1, <2>2, <2>8 DEF ScalarTypes
  <2>11. Iterations'
    BY <1>1, <1>2, <2>2, <2>8 DEF Iterations
  <2>12. DiskTypes'
    <3>1. disk \in [Paths -> Files \cup {NoFile}] /\ synced \in [Paths -> Nat]
      BY <1>1 DEF DiskTypes
    <3>2. disk' \in [Paths -> Files \cup {NoFile}]
      BY <1>5, <2>6, <3>1
    <3>3. synced' \in [Paths -> Nat]
      BY <1>5, <2>3, <2>6, <3>1
    <3>4. \A p \in Paths : synced'[p] <= Len(Contents(p)')
      <4> TAKE p \in Paths
      <4>1. CASE p = "wal"
        <5>1. Contents(p)' = g
          BY <2>9, <4>1 DEF Contents
        <5> QED
          BY <2>3, <2>7, <2>9, <4>1, <5>1
      <4>2. CASE p # "wal"
        BY <1>1, <2>9, <4>2 DEF DiskTypes, Contents
      <4> QED
        BY <4>1, <4>2
    <3>5. wal'.size <= Len(Contents(wal.path)')
      <4>1. Contents(wal.path)' = g
        BY <2>8, <2>9 DEF Contents
      <4> QED
        BY <1>5, <2>3, <2>7, <2>8, <4>1
    <3> QED
      BY <3>2, <3>3, <3>4, <3>5 DEF DiskTypes
  <2>13. Locks'
    BY <1>1, <1>2, <1>3, <2>1, <2>2 DEF Locks, Writing
  <2>14. OpenFiles'
    <3>1. disk'["checkpoint"] = NoFile
      BY <1>5, <2>9 DEF Paths
    <3>2. MarkerWritten(m)'
      BY <1>2, <1>3, <1>5, <2>2, <2>3, <2>7, <2>8, <2>9, <3>1 DEF MarkerWritten, Seen
    <3> QED
      BY <2>2, <3>2 DEF OpenFiles
  <2>15. OpenVersions'
    <3>1. Versions(FALSE)
      BY <1>1, <1>2 DEF OpenVersions, Versions
    <3>2. ~MayBeRefused /\ "iteration" \in behaviours => HeaderIteration = Expected(wal.path, FALSE)
      BY <1>1, <1>2, <1>5 DEF OpenVersions, HeaderIteration, Expected, Iterations, ScalarTypes
    <3>3. Versions(FALSE)'
      BY <1>1, <1>2, <2>6, <3>1, <3>2, WrittenVersions
    <3> QED
      BY <1>1, <1>2, <1>5, <2>2, <2>8, <3>3 DEF OpenVersions, Versions, MayBeRefused
  <2> QED
    BY <1>1, <1>2, <1>7, <2>10, <2>11, <2>12, <2>13, <2>14, <2>15 DEF RecoveryInv
<1> QED
  BY <1>8, <1>9

\* The marker is synced.
LEMMA FlushMarkerStep ==
    ASSUME RecoveryInv, FlushMarker
    PROVE  RecoveryInv'
<1> USE DEF FlushMarker, rest, bounds
<1>1. ScalarTypes /\ Iterations /\ Numbered /\ DiskTypes /\ Locks /\ OpenFiles /\ OpenVersions /\ phase = "open"
  BY DEF RecoveryInv
<1>2. /\ checkpoint.pc = "marker"
      /\ UNCHANGED <<file, disk, wal_lock, iteration_count, committed, acknowledged, commit, phase, commits, checkpoints, behaviours>>
      /\ checkpoint' = [checkpoint EXCEPT !.pc = "switch"]
  OBVIOUS
<1>3. /\ checkpoint'.pc = "switch" /\ checkpoint'.has_wal = checkpoint.has_wal /\ checkpoint'.holds_lock = checkpoint.holds_lock
      /\ checkpoint'.log = checkpoint.log /\ checkpoint'.root = checkpoint.root /\ checkpoint' \in CheckpointStates
  BY <1>1, <1>2 DEF ScalarTypes, CheckpointStates, CheckpointPCs
<1>4. PICK m \in Logs : MarkerWritten(m)
  BY <1>1, <1>2 DEF OpenFiles
<1>5. wal.path = "wal" /\ disk["wal"] \in Files /\ Closed(disk["wal"], m, checkpoint.root)
  BY <1>4 DEF MarkerWritten
<1>6. PICK n \in Nat : n = Len(disk["wal"]) /\ n >= End(m) /\ n > 0 /\ End(m) \in Nat
  <2>1. Len(disk["wal"]) \in Nat /\ End(m) \in Nat /\ End(m) >= 1
    BY <1>5, FileFacts, LogFacts
  <2>2. Len(disk["wal"]) = End(m) + 2
    BY <1>5 DEF Closed
  <2> QED
    BY <2>1, <2>2
<1>7. /\ synced' = [synced EXCEPT !["wal"] = n] /\ wal' = [wal EXCEPT !.size = n]
      /\ wal'.path = "wal" /\ wal'.size = n /\ wal'.init_state = wal.init_state /\ wal'.iteration = wal.iteration
      /\ synced'["wal"] = n /\ synced' \in [Paths -> Nat]
      /\ \A p \in Paths : p # "wal" => synced'[p] = synced[p]
  BY <1>1, <1>5, <1>6 DEF SyncWAL, ScalarTypes, DiskTypes, Paths
<1>8. disk["wal"] # NoFile /\ Contents("wal")' = disk["wal"]
  <2>1. disk["wal"] # NoFile
    BY <1>5, NoFileIsNoFile
  <2> QED
    BY <1>2, <2>1 DEF Contents
<1>9. ScalarTypes'
  <2>1. wal' \in [path : {"wal", "checkpoint"}, iteration : Nat, size : Nat,
                  init_state : {"no_wal", "uninitialized", "requires_truncate", "initialized"}]
    BY <1>1, <1>7 DEF ScalarTypes
  <2> QED
    BY <1>1, <1>2, <1>3, <2>1 DEF ScalarTypes
<1>10. Iterations' /\ Numbered'
  BY <1>1, <1>2, <1>3, <1>7 DEF Iterations, Numbered
<1>11. DiskTypes'
  <2>1. \A p \in Paths : synced'[p] <= Len(Contents(p)')
    <3> TAKE p \in Paths
    <3>1. CASE p = "wal"
      BY <1>6, <1>7, <1>8, <3>1
    <3>2. CASE p # "wal"
      BY <1>1, <1>2, <1>7, <3>2 DEF DiskTypes, Contents
    <3> QED
      BY <3>1, <3>2
  <2>2. wal'.size <= Len(Contents(wal.path)')
    BY <1>6, <1>7, <1>8
  <2> QED
    BY <1>1, <1>2, <1>7, <2>1, <2>2 DEF DiskTypes
<1>12. Locks'
  BY <1>1, <1>2, <1>3 DEF Locks, Writing
<1>13. OpenFiles'
  <2>1. MarkerWritten(m)'
    BY <1>2, <1>3, <1>4, <1>6, <1>7 DEF MarkerWritten, Seen
  <2> QED
    BY <1>3, <2>1 DEF OpenFiles
<1>14. OpenVersions'
  BY <1>1, <1>2, <1>3, <1>5, <1>7 DEF OpenVersions, Versions, VersionIs, HasVersion, MayBeRefused
<1> QED
  BY <1>1, <1>2, <1>9, <1>10, <1>11, <1>12, <1>13, <1>14 DEF RecoveryInv

\* Commits go to the checkpoint WAL.
LEMMA SwitchWALStep ==
    ASSUME RecoveryInv, SwitchWAL
    PROVE  RecoveryInv'
<1> USE DEF SwitchWAL, rest, bounds
<1>1. ScalarTypes /\ Iterations /\ Numbered /\ DiskTypes /\ Locks /\ OpenFiles /\ OpenVersions /\ phase = "open"
  BY DEF RecoveryInv
<1>2. /\ checkpoint.pc = "switch" /\ checkpoint.has_wal
      /\ UNCHANGED <<file, iteration_count, committed, acknowledged, commit, phase, commits, checkpoints, behaviours>>
      /\ checkpoint' = [checkpoint EXCEPT !.pc = "write"]
  BY <1>1 DEF Locks
<1>3. /\ checkpoint'.pc = "write" /\ checkpoint'.has_wal /\ checkpoint'.holds_lock = checkpoint.holds_lock
      /\ checkpoint'.log = checkpoint.log /\ checkpoint'.root = checkpoint.root /\ checkpoint' \in CheckpointStates
  BY <1>1, <1>2 DEF ScalarTypes, CheckpointStates, CheckpointPCs
<1>4. PICK m \in Logs : MarkerWritten(m)
  BY <1>1, <1>2 DEF OpenFiles
<1>5. PICK i \in Nat : i = iteration_count + 1 /\ i <= checkpoints + 1 /\ i = file.iteration + 1
  BY <1>1, <1>2 DEF Iterations, ScalarTypes
<1>6. /\ wal'.path = "checkpoint" /\ wal'.init_state = "no_wal" /\ wal'.iteration = i /\ wal'.size = 0
      /\ wal' \in [path : {"wal", "checkpoint"}, iteration : Nat, size : Nat,
                   init_state : {"no_wal", "uninitialized", "requires_truncate", "initialized"}]
  BY <1>5 DEF NewWAL
<1>7. /\ disk' = disk
      /\ disk'["checkpoint"] = NoFile /\ synced'["checkpoint"] = 0 /\ synced' \in [Paths -> Nat]
      /\ \A p \in Paths : p # "checkpoint" => synced'[p] = synced[p]
  <2>1. disk["checkpoint"] = NoFile /\ DOMAIN disk = Paths /\ "checkpoint" \in Paths
    BY <1>1, <1>4 DEF MarkerWritten, DiskTypes, Paths
  <2>2. disk' = disk
    BY <1>1, <2>1 DEF DiskTypes
  <2>3. synced'["checkpoint"] = 0 /\ synced' \in [Paths -> Nat] /\ \A p \in Paths : p # "checkpoint" => synced'[p] = synced[p]
    BY <1>1, <2>1 DEF DiskTypes
  <2> QED
    BY <2>1, <2>2, <2>3
<1>8. Contents("checkpoint")' = <<>> /\ Contents(wal.path)' = <<>>
  BY <1>6, <1>7 DEF Contents
<1>9. ~Writing /\ wal_lock = "checkpoint" /\ wal_lock' = IF checkpoint.holds_lock THEN "checkpoint" ELSE "free"
  BY <1>1, <1>2 DEF Locks
<1>10. ScalarTypes'
  BY <1>1, <1>2, <1>3, <1>6, <1>9 DEF ScalarTypes
<1>11. Iterations' /\ Numbered'
  BY <1>1, <1>2, <1>3, <1>5, <1>6 DEF Iterations, Numbered
<1>12. DiskTypes'
  <2>1. \A p \in Paths : synced'[p] <= Len(Contents(p)')
    <3> TAKE p \in Paths
    <3>1. CASE p = "checkpoint"
      BY <1>7, <1>8, <3>1, EmptyFile
    <3>2. CASE p # "checkpoint"
      BY <1>1, <1>7, <3>2 DEF DiskTypes, Contents
    <3> QED
      BY <3>1, <3>2
  <2>2. wal'.size <= Len(Contents(wal.path)')
    BY <1>6, <1>8, EmptyFile
  <2> QED
    BY <1>1, <1>7, <2>1, <2>2 DEF DiskTypes
<1>13. Locks'
  BY <1>1, <1>2, <1>3, <1>9 DEF Locks, Writing
<1>14. OpenFiles'
  <2>1. PICK c \in Logs : c = <<>> /\ Size(c) = 0
    BY EmptyFile
  <2>2. Clean(<<>>, c)
    BY <2>1, EmptyFile DEF Clean
  <2>3. Active(c)'
    BY <1>2, <1>6, <1>7, <1>8, <1>9, <2>1, <2>2 DEF Active, Writing
  <2>4. (file.log \o m) \o c = acknowledged /\ file.log \o m = acknowledged
    <3>1. file.log \o m = acknowledged
      BY <1>4 DEF MarkerWritten
    <3>2. acknowledged \o <<>> = acknowledged
      BY <1>1, LogConcat DEF ScalarTypes
    <3> QED
      BY <2>1, <3>1, <3>2
  <2>5. synced'["wal"] = Len(disk["wal"])
    BY <1>2, <1>4, <1>7 DEF MarkerWritten, Paths
  <2>6. TwoWALs(m, c)'
    BY <1>2, <1>3, <1>4, <1>6, <1>7, <2>3, <2>4, <2>5 DEF TwoWALs, MarkerWritten, Seen
  <2> QED
    BY <1>3, <2>6 DEF OpenFiles
<1>15. OpenVersions'
  BY <1>1, <1>2, <1>3, <1>5, <1>6, <1>7 DEF OpenVersions, Versions, VersionIs, HasVersion, MayBeRefused
<1> QED
  BY <1>1, <1>2, <1>10, <1>11, <1>12, <1>13, <1>14, <1>15 DEF RecoveryInv

\* The header makes the commits of the main WAL part of the database file.
LEMMA WriteHeaderStep ==
    ASSUME RecoveryInv, WriteHeader
    PROVE  RecoveryInv'
<1> USE DEF WriteHeader, rest, bounds
<1>1. ScalarTypes /\ Iterations /\ Numbered /\ DiskTypes /\ Locks /\ OpenFiles /\ OpenVersions /\ phase = "open"
  BY DEF RecoveryInv
<1>2. /\ checkpoint.pc = "header"
      /\ UNCHANGED <<disk, synced, wal, wal_lock, iteration_count, committed, acknowledged, commit, phase, commits, checkpoints, behaviours>>
      /\ checkpoint' = [checkpoint EXCEPT !.pc = IF checkpoint.has_wal THEN "finish" ELSE "end"]
  OBVIOUS
<1>3. /\ checkpoint'.pc = (IF checkpoint.has_wal THEN "finish" ELSE "end")
      /\ checkpoint'.has_wal = checkpoint.has_wal /\ checkpoint'.holds_lock = checkpoint.holds_lock
      /\ checkpoint'.root = checkpoint.root /\ checkpoint' \in CheckpointStates
  BY <1>1, <1>2 DEF ScalarTypes, CheckpointStates, CheckpointPCs
<1>4. file'.log = checkpoint.log /\ file'.root = checkpoint.root /\ file'.iteration = iteration_count
  OBVIOUS
<1>5. file.iteration \in Nat /\ iteration_count = file.iteration + 1 /\ iteration_count \in Nat
  BY <1>1, <1>2 DEF Iterations, ScalarTypes
<1>6. ScalarTypes'
  <2>1. file' \in [log : Logs, root : Roots \cup {0}, iteration : Nat]
    BY <1>1, <1>5 DEF ScalarTypes, CheckpointStates
  <2> QED
    BY <1>1, <1>2, <1>3, <2>1 DEF ScalarTypes
<1>7. Iterations' /\ Numbered' /\ DiskTypes'
  <2>1. Iterations'
    BY <1>1, <1>2, <1>3, <1>4, <1>5 DEF Iterations
  <2>2. Numbered' /\ DiskTypes'
    BY <1>1, <1>2 DEF Numbered, DiskTypes, Contents
  <2> QED
    BY <2>1, <2>2
<1>8. Locks'
  BY <1>1, <1>2, <1>3 DEF Locks, Writing
<1>9. ASSUME NEW m \in Logs, Active(m) PROVE Active(m)'
  BY <1>2, <1>9 DEF Active, Writing, Contents
<1>10. checkpoint.holds_lock => ~Writing /\ commit.id \in Commits
  BY <1>1 DEF Locks, Writing, ScalarTypes
<1>11. OpenFiles'
  <2>1. CASE checkpoint.has_wal
    <3>1. PICK m \in Logs, c \in Logs : TwoWALs(m, c)
      BY <1>1, <1>2, <2>1 DEF OpenFiles
    <3>2. (file.log \o m) \o c = acknowledged
      BY <1>2, <3>1 DEF TwoWALs
    <3>3. file'.log \o c = Seen
      <4>1. CASE ~checkpoint.holds_lock
        BY <1>2, <1>4, <3>1, <3>2, <4>1 DEF TwoWALs, Seen
      <4>2. CASE checkpoint.holds_lock
        <5>1. Clean(<<>>, c)
          BY <1>10, <3>1, <4>2 DEF TwoWALs, Active, Contents
        <5>2. c = <<>>
          BY <5>1, EmptyFile, CleanFile
        <5>3. file.log \o m \in Logs /\ (file.log \o m) \o <<>> = file.log \o m
          BY <1>1, LogConcat DEF ScalarTypes
        <5>4. file'.log = Append(acknowledged, commit.id)
          BY <1>2, <1>4, <3>1, <3>2, <4>2, <5>2, <5>3 DEF TwoWALs
        <5>5. Append(acknowledged, commit.id) \in Logs
          BY <1>1, <1>10, <4>2, LogAppend DEF ScalarTypes
        <5>6. Append(acknowledged, commit.id) \o <<>> = Append(acknowledged, commit.id)
          BY <5>5, LogConcat
        <5> QED
          BY <4>2, <5>2, <5>4, <5>6 DEF Seen
      <4> QED
        BY <4>1, <4>2
    <3>4. Active(c)'
      BY <1>9, <3>1 DEF TwoWALs
    <3>5. TwoWALs(m, c)'
      BY <1>2, <1>3, <1>4, <2>1, <3>1, <3>3, <3>4 DEF TwoWALs, Seen
    <3> QED
      BY <1>3, <2>1, <3>5 DEF OpenFiles
  <2>2. CASE ~checkpoint.has_wal
    <3>1. PICK m \in Logs : OneWAL(m)
      BY <1>1, <1>2, <2>2 DEF OpenFiles
    <3>2. file.log \o m = acknowledged
      BY <1>2, <3>1 DEF OneWAL
    <3>3. file'.log \o m = Seen
      <4>1. CASE ~checkpoint.holds_lock
        BY <1>2, <1>4, <3>1, <3>2, <4>1 DEF OneWAL, Seen
      <4>2. CASE checkpoint.holds_lock
        <5>1. m = <<>> /\ file.log \o <<>> = file.log
          BY <1>1, <1>2, <3>1, <4>2, LogConcat DEF OneWAL, ScalarTypes
        <5>2. file'.log = Append(acknowledged, commit.id)
          BY <1>2, <1>4, <3>1, <3>2, <4>2, <5>1 DEF OneWAL
        <5>3. Append(acknowledged, commit.id) \in Logs
          BY <1>1, <1>10, <4>2, LogAppend DEF ScalarTypes
        <5>4. Append(acknowledged, commit.id) \o <<>> = Append(acknowledged, commit.id)
          BY <5>3, LogConcat
        <5> QED
          BY <4>2, <5>1, <5>2, <5>4 DEF Seen
      <4> QED
        BY <4>1, <4>2
    <3>4. Active(m)'
      BY <1>9, <3>1 DEF OneWAL
    <3>5. OneWAL(m)'
      BY <1>2, <1>3, <2>2, <3>1, <3>3, <3>4 DEF OneWAL, Seen
    <3> QED
      BY <1>3, <2>2, <3>5 DEF OpenFiles
  <2> QED
    BY <2>1, <2>2
<1>12. OpenVersions'
  <2> SUFFICES ASSUME ~MayBeRefused PROVE OpenVersions'
    BY <1>2 DEF OpenVersions, Versions, MayBeRefused
  <2>1. /\ VersionIs("wal", file.iteration) /\ VersionIs("checkpoint", file.iteration + 1)
        /\ "iteration" \in behaviours => checkpoint.has_wal
        /\ wal.iteration = IF wal.path = "wal" THEN 0 ELSE file.iteration + 1
    BY <1>1, <1>2 DEF OpenVersions, Versions
  <2>2. wal.path = "checkpoint" => checkpoint.has_wal
    BY <1>1, <1>2 DEF OpenFiles, OneWAL
  <2>3. CASE checkpoint.has_wal
    <3>1. file'.iteration = file.iteration + 1 /\ file'.iteration - 1 = file.iteration
      BY <1>4, <1>5
    <3>2. VersionIs("wal", file.iteration - 1)' /\ VersionIs("checkpoint", file.iteration)'
      BY <1>2, <2>1, <3>1 DEF VersionIs, HasVersion
    <3> QED
      BY <1>2, <1>3, <2>1, <2>3, <3>1, <3>2 DEF OpenVersions, Versions
  <2>4. CASE ~checkpoint.has_wal
    <3>1. "iteration" \notin behaviours /\ wal.path = "wal"
      BY <1>1, <2>1, <2>2, <2>4 DEF ScalarTypes
    <3>2. VersionIs("wal", file.iteration)' /\ VersionIs("checkpoint", file.iteration + 1)'
      BY <1>2, <2>1, <3>1 DEF VersionIs, HasVersion
    <3> QED
      BY <1>2, <1>3, <2>1, <2>4, <3>1, <3>2 DEF OpenVersions, Versions
  <2> QED
    BY <2>3, <2>4
<1> QED
  BY <1>1, <1>2, <1>6, <1>7, <1>8, <1>11, <1>12 DEF RecoveryInv

\* The main WAL is not needed any more.
LEMMA WALFinishCheckpointStep ==
    ASSUME RecoveryInv, WALFinishCheckpoint
    PROVE  RecoveryInv'
<1> USE DEF WALFinishCheckpoint, rest, bounds
<1>1. ScalarTypes /\ Iterations /\ Numbered /\ DiskTypes /\ Locks /\ OpenFiles /\ OpenVersions /\ phase = "open"
  BY DEF RecoveryInv
<1>2. /\ checkpoint.pc = "finish" /\ checkpoint.has_wal
      /\ UNCHANGED <<file, wal_lock, iteration_count, committed, acknowledged, commit, phase, commits, checkpoints, behaviours>>
      /\ checkpoint' = [checkpoint EXCEPT !.pc = "end"]
  BY <1>1 DEF Locks
<1>3. /\ checkpoint'.pc = "end" /\ checkpoint'.has_wal /\ checkpoint'.holds_lock = checkpoint.holds_lock
      /\ checkpoint' \in CheckpointStates
  BY <1>1, <1>2 DEF ScalarTypes, CheckpointStates, CheckpointPCs
<1>4. ~Writing
  BY <1>1 DEF Locks, Writing, MayHoldWALLock
<1>5. PICK m \in Logs, c \in Logs : TwoWALs(m, c)
  BY <1>1, <1>2 DEF OpenFiles
<1>6. /\ wal.path = "checkpoint" /\ wal.init_state \in {"no_wal", "initialized"} /\ Active(c) /\ file.log \o c = Seen
      /\ Clean(Contents("checkpoint"), c) /\ synced["checkpoint"] >= Size(c)
      /\ wal.init_state = "no_wal" => disk["checkpoint"] = NoFile
      /\ wal.init_state = "initialized" => disk["checkpoint"] # NoFile
  BY <1>2, <1>4, <1>5 DEF TwoWALs, Active
<1>7. DOMAIN disk = Paths /\ DOMAIN synced = Paths /\ "wal" \in Paths /\ "checkpoint" \in Paths
  BY <1>1 DEF DiskTypes, Paths
<1>8. PICK f \in Files \cup {NoFile}, n \in Nat, s \in {"no_wal", "initialized"} :
        f = disk["checkpoint"] /\ n = synced["checkpoint"] /\ s = wal.init_state
  BY <1>1, <1>6, <1>7 DEF DiskTypes
<1>9. /\ disk' = [disk EXCEPT !["wal"] = f, !["checkpoint"] = NoFile]
      /\ synced' = [synced EXCEPT !["wal"] = n, !["checkpoint"] = 0]
      /\ wal' = [path |-> "wal", init_state |-> s, iteration |-> 0, size |-> Size(c)]
      /\ n >= Size(c)
      /\ f = NoFile <=> s = "no_wal"
  <2>1. CASE wal.init_state = "no_wal"
    <3>1. disk["checkpoint"] = NoFile /\ Contents("checkpoint") = <<>>
      BY <1>6, <2>1 DEF Contents
    <3>2. c = <<>> /\ Size(c) = 0
      BY <1>6, <3>1, EmptyFile, CleanFile
    <3>3. synced["checkpoint"] = 0
      BY <1>1, <1>7, <3>1, EmptyFile DEF DiskTypes
    <3>4. disk' = [disk EXCEPT !["wal"] = NoFile] /\ synced' = [synced EXCEPT !["wal"] = 0] /\ wal' = NewWAL("wal")
      BY <2>1
    <3>5. disk' = [disk EXCEPT !["wal"] = NoFile, !["checkpoint"] = NoFile]
      BY <1>7, <3>1, <3>4
    <3>6. synced' = [synced EXCEPT !["wal"] = 0, !["checkpoint"] = 0]
      BY <1>7, <3>3, <3>4
    <3>7. wal' = [path |-> "wal", init_state |-> "no_wal", iteration |-> 0, size |-> Size(c)]
      BY <3>2, <3>4 DEF NewWAL
    <3> QED
      BY <1>6, <1>8, <2>1, <3>1, <3>2, <3>3, <3>5, <3>6, <3>7
  <2>2. CASE wal.init_state = "initialized"
    <3>1. disk["checkpoint"] # NoFile /\ Contents("checkpoint") = disk["checkpoint"] /\ disk["checkpoint"] \in Files
      BY <1>1, <1>6, <1>7, <2>2, ContentsFacts
    <3>2. Len(disk["checkpoint"]) = Size(c) /\ synced["checkpoint"] \in Nat
      BY <1>1, <1>6, <1>7, <3>1 DEF Clean, DiskTypes
    <3>3. /\ disk' = [disk EXCEPT !["wal"] = disk["checkpoint"], !["checkpoint"] = NoFile]
          /\ synced' = [synced EXCEPT !["wal"] = synced["checkpoint"], !["checkpoint"] = 0]
          /\ wal' = [NewWAL("wal") EXCEPT !.init_state = "initialized", !.size = Len(disk["checkpoint"])]
      BY <2>2
    <3>4. wal' = [path |-> "wal", init_state |-> "initialized", iteration |-> 0, size |-> Size(c)]
      BY <3>2, <3>3 DEF NewWAL
    <3> QED
      BY <1>6, <1>8, <2>2, <3>1, <3>2, <3>3, <3>4
  <2> QED
    BY <1>6, <2>1, <2>2
<1>10. /\ disk'["wal"] = f /\ disk'["checkpoint"] = NoFile /\ synced'["wal"] = n /\ synced'["checkpoint"] = 0
       /\ \A p \in Paths : p \notin {"wal", "checkpoint"} => disk'[p] = disk[p] /\ synced'[p] = synced[p]
       /\ Contents("wal")' = Contents("checkpoint") /\ Contents("checkpoint")' = <<>>
  BY <1>7, <1>8, <1>9 DEF Contents
<1>11. wal'.path = "wal" /\ wal'.init_state = s /\ wal'.iteration = 0 /\ wal'.size = Size(c) /\ Size(c) \in Nat
  BY <1>9, LogFacts
<1>12. ScalarTypes'
  <2>1. wal' \in [path : {"wal", "checkpoint"}, iteration : Nat, size : Nat,
                  init_state : {"no_wal", "uninitialized", "requires_truncate", "initialized"}]
    BY <1>8, <1>9, <1>11
  <2> QED
    BY <1>1, <1>2, <1>3, <2>1 DEF ScalarTypes
<1>13. Iterations' /\ Numbered'
  BY <1>1, <1>2, <1>3, <1>11 DEF Iterations, Numbered, ScalarTypes
<1>14. DiskTypes'
  <2>1. disk \in [Paths -> Files \cup {NoFile}] /\ synced \in [Paths -> Nat]
    BY <1>1 DEF DiskTypes
  <2>2. disk' \in [Paths -> Files \cup {NoFile}]
    BY <1>9, <2>1
  <2>3. synced' \in [Paths -> Nat]
    BY <1>9, <2>1
  <2>4. \A p \in Paths : synced'[p] <= Len(Contents(p)')
    <3>1. synced'["wal"] <= Len(Contents("wal")')
      BY <1>1, <1>7, <1>8, <1>10 DEF DiskTypes
    <3>2. synced'["checkpoint"] <= Len(Contents("checkpoint")')
      BY <1>10, EmptyFile
    <3>3. \A p \in Paths : p \notin {"wal", "checkpoint"} => synced'[p] <= Len(Contents(p)')
      BY <1>1, <1>10 DEF DiskTypes, Contents
    <3> QED
      BY <3>1, <3>2, <3>3
  <2>5. wal'.size <= Len(Contents(wal.path)')
    <3>1. Len(Contents("checkpoint")) = Size(c)
      BY <1>6 DEF Clean
    <3> QED
      BY <1>10, <1>11, <3>1
  <2> QED
    BY <2>2, <2>3, <2>4, <2>5 DEF DiskTypes
<1>15. Locks'
  BY <1>1, <1>2, <1>3, <1>4 DEF Locks, Writing
<1>16. OpenFiles'
  <2>1. Active(c)'
    <3>1. Contents(wal.path)' = Contents("checkpoint") /\ disk'[wal'.path] = f /\ synced'[wal'.path] = n
      BY <1>10, <1>11
    <3>2. ~Writing' /\ wal'.init_state # "requires_truncate"
      BY <1>2, <1>4, <1>8, <1>11 DEF Writing
    <3> QED
      BY <1>6, <1>8, <1>9, <1>11, <3>1, <3>2 DEF Active, Writing
  <2>2. OneWAL(c)'
    BY <1>2, <1>3, <1>6, <1>10, <1>11, <2>1 DEF OneWAL, Seen
  <2> QED
    BY <1>3, <2>2 DEF OpenFiles
<1>17. OpenVersions'
  <2> SUFFICES ASSUME ~MayBeRefused PROVE OpenVersions'
    BY <1>2 DEF OpenVersions, Versions, MayBeRefused
  <2>1. VersionIs("checkpoint", file.iteration)
    BY <1>1, <1>2 DEF OpenVersions, Versions
  <2>2. VersionIs("wal", file.iteration)' /\ VersionIs("checkpoint", file.iteration + 1)'
    BY <1>2, <1>8, <1>10, <2>1 DEF VersionIs, HasVersion
  <2> QED
    BY <1>2, <1>3, <1>11, <2>2 DEF OpenVersions, Versions
<1> QED
  BY <1>1, <1>2, <1>12, <1>13, <1>14, <1>15, <1>16, <1>17 DEF RecoveryInv

\* The checkpoint ends.
LEMMA EndCheckpointStep ==
    ASSUME RecoveryInv, EndCheckpoint
    PROVE  RecoveryInv'
<1> USE DEF EndCheckpoint, rest, bounds
<1>1. ScalarTypes /\ Iterations /\ Numbered /\ DiskTypes /\ Locks /\ OpenFiles /\ OpenVersions /\ phase = "open"
  BY DEF RecoveryInv
<1>2. /\ checkpoint.pc = "end"
      /\ UNCHANGED <<file, disk, synced, wal, iteration_count, committed, phase, commits, checkpoints, behaviours>>
      /\ checkpoint' = NoCheckpoint
  OBVIOUS
<1>3. /\ checkpoint'.pc = "idle" /\ ~checkpoint'.has_wal /\ ~checkpoint'.holds_lock /\ checkpoint' \in CheckpointStates
  BY <1>2, NoCheckpointFacts DEF NoCheckpoint
<1>4. PICK m \in Logs : OneWAL(m)
  BY <1>1, <1>2 DEF OpenFiles
<1>5. ASSUME checkpoint.holds_lock PROVE ScalarTypes' /\ Numbered' /\ Locks' /\ OneWAL(m)'
  <2>1. /\ commit.pc = "checkpoint" /\ commit.id \in Commits /\ acknowledged' = Append(acknowledged, commit.id)
        /\ commit' = NoCommitUnderway /\ commit'.pc = "idle" /\ commit'.id = NoCommit /\ wal_lock' = "free"
    BY <1>1, <1>5 DEF Locks, ScalarTypes, NoCommitUnderway
  <2>2. ScalarTypes'
    <3>1. acknowledged' \in Logs
      BY <1>1, <2>1, LogAppend DEF ScalarTypes
    <3>2. commit' \in [id : Commits \cup {NoCommit}, pc : CommitPCs, initial_wal_size : Nat]
      BY <2>1 DEF NoCommitUnderway, CommitPCs
    <3> QED
      BY <1>1, <1>2, <1>3, <2>1, <3>1, <3>2 DEF ScalarTypes
  <2>3. Numbered'
    <3>1. /\ Len(acknowledged') = Len(acknowledged) + 1 /\ Len(acknowledged) \in Nat
          /\ \A i \in 1 .. Len(acknowledged) : acknowledged'[i] = acknowledged[i]
          /\ acknowledged'[Len(acknowledged) + 1] = commit.id
      BY <1>1, <2>1 DEF ScalarTypes, Logs
    <3>2. commit.id <= commits
      BY <1>1, <2>1, CommitFacts DEF Numbered
    <3>3. \A i \in 1 .. Len(acknowledged) + 1 : i \in 1 .. Len(acknowledged) \/ i = Len(acknowledged) + 1
      BY <3>1
    <3> QED
      BY <1>1, <1>2, <2>1, <3>1, <3>2, <3>3 DEF Numbered
  <2>4. Locks'
    BY <1>1, <1>2, <1>3, <2>1 DEF Locks, Writing
  <2>5. OneWAL(m)'
    <3>1. Active(m)'
      BY <1>2, <1>4, <2>1 DEF OneWAL, Active, Writing, Contents
    <3>2. file.log \o m = acknowledged'
      BY <1>2, <1>4, <1>5, <2>1 DEF OneWAL, Seen
    <3> QED
      BY <1>2, <1>3, <1>4, <3>1, <3>2 DEF OneWAL
  <2> QED
    BY <2>2, <2>3, <2>4, <2>5
<1>6. ASSUME ~checkpoint.holds_lock PROVE ScalarTypes' /\ Numbered' /\ Locks' /\ OneWAL(m)'
  <2>1. UNCHANGED <<acknowledged, commit, wal_lock>>
    BY <1>6
  <2>2. ScalarTypes' /\ Numbered'
    BY <1>1, <1>2, <1>3, <2>1 DEF ScalarTypes, Numbered
  <2>3. Locks'
    BY <1>1, <1>2, <1>3, <1>6, <2>1 DEF Locks, Writing
  <2>4. OneWAL(m)'
    <3>1. Active(m)'
      BY <1>2, <1>4, <2>1 DEF OneWAL, Active, Writing, Contents
    <3> QED
      BY <1>2, <1>3, <1>4, <1>6, <2>1, <3>1 DEF OneWAL, Seen
  <2> QED
    BY <2>2, <2>3, <2>4
<1>7. ScalarTypes' /\ Numbered' /\ Locks' /\ OneWAL(m)'
  BY <1>5, <1>6
<1>8. Iterations' /\ DiskTypes'
  <2>1. Iterations'
    BY <1>1, <1>2, <1>3 DEF Iterations
  <2>2. DiskTypes'
    BY <1>1, <1>2 DEF DiskTypes, Contents
  <2> QED
    BY <2>1, <2>2
<1>9. OpenFiles'
  BY <1>3, <1>7 DEF OpenFiles
<1>10. OpenVersions'
  <2>1. wal.path = "wal"
    BY <1>4 DEF OneWAL
  <2> QED
    BY <1>1, <1>2, <1>3, <2>1 DEF OpenVersions, Versions, VersionIs, HasVersion, MayBeRefused
<1> QED
  BY <1>1, <1>2, <1>7, <1>8, <1>9, <1>10 DEF RecoveryInv

\* A marker names one of the roots.
LEMMA MarkerRoot ==
    ASSUME NEW es \in Files, NEW log \in Logs, NEW r, Marked(es, log, r)
    PROVE  r \in Roots
<1>1. End(log) \in Nat /\ Len(es) \in Nat /\ Len(es) >= End(log) + 1
  BY LogFacts, FileFacts DEF Marked
<1>2. PICK e \in Entries : e = es[End(log) + 1] /\ e.type = "checkpoint" /\ e.root = r
  <2>1. End(log) + 1 \in 1 .. Len(es)
    BY <1>1
  <2> QED
    BY <2>1, FileFacts DEF Marked
<1>3. PICK s \in Roots : e = Marker(s)
  BY <1>2, EntryFields DEF Entries
<1> QED
  BY <1>2, <1>3, EntryFields

\* What is left of a file of which everything, or something, is synced.
LEMMA RemainsOfFile ==
    ASSUME DiskTypes, NEW p \in Paths, NEW d \in Remains(p)
    PROVE  /\ disk[p] = NoFile => d = NoFile
           /\ disk[p] # NoFile => d \in Files /\ d # NoFile
           /\ disk[p] # NoFile /\ synced[p] = Len(Contents(p)) => d = disk[p]
           /\ ~MayBeRefused => \/ d = NoFile \/ d = <<>>
                               \/ disk[p] # NoFile /\ disk[p] # <<>> /\ d[1] = disk[p][1]
<1>1. CASE disk[p] = NoFile
  BY <1>1 DEF Remains
<1>2. CASE disk[p] # NoFile
  <2>1. disk[p] \in Files /\ Contents(p) = disk[p] /\ synced[p] \in 0 .. Len(disk[p]) /\ Len(disk[p]) \in Nat
    BY <1>2, ContentsFacts
  <2>2. PICK k \in synced[p] .. Len(disk[p]) :
              Cut(disk[p], k, d) /\ ("torn_header" \in behaviours \/ k > 0 \/ Len(d) = 0)
    BY <2>1, CutOfRemains
  <2>3. d \in Files /\ d # NoFile
    BY <2>2, NoFileIsNoFile DEF Cut
  <2>4. synced[p] = Len(Contents(p)) => d = disk[p]
    <3> HAVE synced[p] = Len(Contents(p))
    <3>1. k = Len(disk[p])
      BY <2>1
    <3> QED
      BY <2>1, <2>2, <3>1, CutNothing
  <2>5. ~MayBeRefused => d = <<>> \/ (disk[p] # <<>> /\ d[1] = disk[p][1])
    <3> HAVE ~MayBeRefused
    <3>1. k > 0 \/ Len(d) = 0
      BY <2>2 DEF MayBeRefused
    <3>2. CASE Len(d) = 0
      BY <2>3, <3>2, FileFacts
    <3>3. CASE k > 0
      <4>1. k \in Nat /\ 1 \in 1 .. k /\ Len(disk[p]) > 0
        BY <2>1, <3>3
      <4>2. d[1] = disk[p][1]
        BY <2>2, <4>1 DEF Cut
      <4>3. disk[p] # <<>>
        BY <2>1, <4>1, FileFacts
      <4> QED
        BY <4>2, <4>3
    <3> QED
      BY <3>1, <3>2, <3>3
  <2> QED
    BY <1>2, <2>3, <2>4, <2>5
<1> QED
  BY <1>1, <1>2

\* What is left of the file that commits are written to: the commits it holds and perhaps
\* the one under way, if that is being synced.
LEMMA RemainsOfActive ==
    ASSUME ScalarTypes, DiskTypes, Locks, NEW log \in Logs, Active(log), NEW d \in Remains(wal.path)
    PROVE  \/ disk[wal.path] = NoFile /\ d = NoFile /\ log = <<>>
           \/ d \in Files /\ \E q \in Logs : /\ Dead(d, q)
                                             /\ q = log \/ (commit.pc = "sync" /\ q = Append(log, commit.id))
<1>1. wal.path \in Paths
  BY DEF ScalarTypes, Paths
<1>2. CASE disk[wal.path] = NoFile
  <2>1. ~Writing /\ Contents(wal.path) = <<>>
    BY <1>2 DEF Active, Contents
  <2>2. Dead(<<>>, log)
    BY <2>1, CleanFile, EmptyFile DEF Active
  <2>3. log = <<>>
    <3>1. log = <<>> \/ Holds(<<>>, log)
      BY <2>2 DEF Dead
    <3>2. End(log) \in Nat /\ End(log) >= 1
      BY LogFacts
    <3> QED
      BY <3>1, <3>2, EmptyFile DEF Holds
  <2> QED
    BY <1>1, <1>2, <2>3, RemainsOfFile
<1>3. CASE disk[wal.path] # NoFile
  <2>1. PICK es \in Files : es = disk[wal.path] /\ es = Contents(wal.path) /\ synced[wal.path] \in 0 .. Len(es) /\ Len(es) \in Nat
    BY <1>1, <1>3, ContentsFacts
  <2>2. PICK k \in synced[wal.path] .. Len(es) : Cut(es, k, d)
    BY <1>1, <2>1, CutOfRemains
  <2>3. k >= Size(log)
    <3>1. Size(log) \in Nat /\ synced[wal.path] >= Size(log)
      BY LogFacts DEF Active
    <3> QED
      BY <2>1, <2>2, <3>1
  <2>4. CASE commit.pc = "sync"
    <3>1. Clean(es, Append(log, commit.id)) /\ commit.id \in Commits
      BY <2>1, <2>4 DEF Active, Locks, ScalarTypes
    <3>2. d \in Files /\ (Dead(d, log) \/ Dead(d, Append(log, commit.id)))
      BY <2>2, <2>3, <3>1, CutSync
    <3>3. Append(log, commit.id) \in Logs
      BY <3>1, LogAppend
    <3> QED
      BY <2>4, <3>2, <3>3
  <2>5. CASE commit.pc # "sync"
    <3>1. Dead(es, log)
      <4>1. CASE commit.pc = "flush"
        BY <2>1, <4>1, OpenFile DEF Active
      <4>2. CASE commit.pc # "flush"
        BY <2>1, <2>5, <4>2, CleanFile DEF Active, Writing
      <4> QED
        BY <4>1, <4>2
    <3>2. d \in Files /\ Dead(d, log)
      BY <2>2, <2>3, <3>1, CutDead
    <3> QED
      BY <3>2
  <2> QED
    BY <2>4, <2>5
<1> QED
  BY <1>2, <1>3

\* What matters of the files a crash left depends on the two WALs.
LEMMA LeftKept ==
    ASSUME Left, UNCHANGED <<file, acknowledged, behaviours>>, commit'.id = commit.id,
           disk'["wal"] = disk["wal"], disk'["checkpoint"] = disk["checkpoint"]
    PROVE  Left'
<1>1. \A log : Outcome(log) => Outcome(log)'
  BY DEF Outcome
<1>2. \A done \in BOOLEAN : Versions(done) => Versions(done)'
  BY DEF Versions, VersionIs, HasVersion, MayBeRefused
<1>3. CASE LeftNothing
  BY <1>1, <1>3 DEF Left, LeftNothing
<1>4. CASE \E m \in Logs : LeftCommits(m)
  <2>1. PICK m \in Logs : LeftCommits(m)
    BY <1>4
  <2>2. LeftCommits(m)'
    BY <1>1, <1>2, <2>1 DEF LeftCommits
  <2> QED
    BY <2>2 DEF Left
<1>5. CASE \E m \in Logs, r \in Roots : LeftMarker(m, r)
  <2>1. PICK m \in Logs, r \in Roots : LeftMarker(m, r)
    BY <1>5
  <2>2. LeftMarker(m, r)'
    BY <1>1, <1>2, <2>1 DEF LeftMarker
  <2> QED
    BY <2>2 DEF Left
<1>6. CASE \E m, c \in Logs, r \in Roots : LeftBoth(m, c, r)
  <2>1. PICK m \in Logs, c \in Logs, r \in Roots : LeftBoth(m, c, r)
    BY <1>6
  <2>2. LeftBoth(m, c, r)'
    BY <1>1, <1>2, <2>1 DEF LeftBoth
  <2> QED
    BY <2>2 DEF Left
<1> QED
  BY <1>3, <1>4, <1>5, <1>6 DEF Left

\* Whatever was not synced may be gone: what is left has the acknowledged commits and perhaps
\* the one under way.
LEMMA CrashStep ==
    ASSUME RecoveryInv, Crash
    PROVE  RecoveryInv'
<1> USE DEF Crash
<1>1. ScalarTypes /\ Iterations /\ Numbered /\ DiskTypes /\ "crash_before_remove" \notin behaviours
  BY DEF RecoveryInv, ScalarTypes
<1>2. /\ phase \notin {"down", "failed", "remove_checkpoint"} /\ phase' = "down"
      /\ UNCHANGED <<file, iteration_count, acknowledged, commits, checkpoints, behaviours>>
      /\ checkpoint' = NoCheckpoint /\ wal_lock' = "free" /\ wal' = NewWAL("wal") /\ committed' = <<>>
      /\ commit' = [commit EXCEPT !.pc = "crashed"]
      /\ \A p \in Paths : disk'[p] \in Remains(p)
      /\ DOMAIN disk' = Paths
      /\ synced' = [p \in Paths |-> IF disk'[p] = NoFile THEN 0 ELSE Len(disk'[p])]
  BY <1>1
<1>3. commit'.id = commit.id /\ commit'.pc = "crashed"
      /\ commit' \in [id : Commits \cup {NoCommit}, pc : CommitPCs, initial_wal_size : Nat]
  BY <1>1, <1>2 DEF ScalarTypes, CommitPCs
<1>4. wal'.path = "wal" /\ wal'.size = 0 /\ wal'.iteration = 0
      /\ wal' \in [path : {"wal", "checkpoint"}, iteration : Nat, size : Nat,
                   init_state : {"no_wal", "uninitialized", "requires_truncate", "initialized"}]
  BY <1>2 DEF NewWAL
<1>5. \A p \in Paths :
        /\ disk[p] = NoFile => disk'[p] = NoFile
        /\ disk[p] # NoFile => disk'[p] \in Files /\ disk'[p] # NoFile
        /\ disk[p] # NoFile /\ synced[p] = Len(Contents(p)) => disk'[p] = disk[p]
        /\ ~MayBeRefused => \/ disk'[p] = NoFile \/ disk'[p] = <<>>
                            \/ disk[p] # NoFile /\ disk[p] # <<>> /\ disk'[p][1] = disk[p][1]
  BY <1>1, <1>2, RemainsOfFile
<1>6. ScalarTypes'
  <2>1. committed' \in Logs
    BY <1>2, EmptyFile
  <2> QED
    BY <1>1, <1>2, <1>3, <1>4, <2>1, NoCheckpointFacts DEF ScalarTypes, Phases
<1>7. Iterations'
  <2>1. checkpoint'.pc = "idle" /\ iteration_count \in Nat /\ checkpoints \in Nat
    BY <1>1, <1>2 DEF NoCheckpoint, Iterations, ScalarTypes
  <2> QED
    BY <1>1, <1>2, <1>4, <2>1 DEF Iterations
<1>8. Numbered'
  BY <1>1, <1>2, <1>3 DEF Numbered
<1>9. \A p \in Paths : synced'[p] = Len(Contents(p)') /\ Len(Contents(p)') \in Nat
  <2> TAKE p \in Paths
  <2>1. CASE disk'[p] = NoFile
    BY <1>2, <2>1, EmptyFile DEF Contents
  <2>2. CASE disk'[p] # NoFile
    BY <1>2, <1>5, <2>2, FileFacts DEF Contents
  <2> QED
    BY <2>1, <2>2
<1>10. DiskTypes'
  <2>1. disk' \in [Paths -> Files \cup {NoFile}]
    <3>1. \A p \in Paths : disk'[p] \in Files \cup {NoFile}
      BY <1>5
    <3>2. disk' = [p \in Paths |-> disk'[p]]
      BY <1>2
    <3> QED
      BY <3>1, <3>2
  <2>2. synced' \in [Paths -> Nat]
    <3>1. DOMAIN synced' = Paths /\ synced' = [p \in Paths |-> synced'[p]]
      BY <1>2
    <3> QED
      BY <1>9, <3>1
  <2>3. \A p \in Paths : synced'[p] <= Len(Contents(p)')
    BY <1>9
  <2>4. wal'.size <= Len(Contents(wal.path)')
    <3>1. "wal" \in Paths /\ Contents(wal.path)' = Contents("wal")'
      BY <1>4 DEF Paths, Contents
    <3> QED
      BY <1>4, <1>9, <3>1
  <2> QED
    BY <2>1, <2>2, <2>3, <2>4 DEF DiskTypes
<1>11. ASSUME NEW log, Outcome(log) PROVE Outcome(log)'
  BY <1>2, <1>3, <1>11 DEF Outcome
<1>12. ASSUME NEW done \in BOOLEAN, Versions(done) PROVE Versions(done)'
  <2>1. ~MayBeRefused => \A p \in {"wal", "checkpoint"} :
              \/ disk'[p] = NoFile \/ disk'[p] = <<>>
              \/ disk[p] # NoFile /\ disk[p] # <<>> /\ disk'[p][1] = disk[p][1]
    BY <1>5 DEF Paths
  <2> QED
    BY <1>2, <1>12, <2>1, KeptVersions
<1>13. ASSUME phase = "open" PROVE Left'
  <2>1. Locks /\ OpenFiles /\ OpenVersions
    BY <1>13 DEF RecoveryInv
  <2>2. /\ checkpoint.holds_lock => commit.id # NoCommit /\ commit.pc = "checkpoint"
        /\ commit.pc = "sync" => commit.id # NoCommit /\ commit.id \in Commits /\ ~checkpoint.holds_lock
    BY <1>1, <2>1 DEF Locks, ScalarTypes
  <2>3. Outcome(acknowledged) /\ Outcome(Seen)
        /\ (commit.pc = "sync" => Outcome(Append(acknowledged, commit.id)) /\ Seen = acknowledged)
    BY <2>2 DEF Outcome, Seen
  <2>4. ASSUME NEW m \in Logs, OneWAL(m) PROVE Left'
    <3>1. /\ wal.path = "wal" /\ "wal" \in Paths /\ "checkpoint" \in Paths /\ disk["checkpoint"] = NoFile /\ Active(m)
          /\ file.log \o m \in {acknowledged, Seen} /\ Versions(FALSE) /\ file.log \in Logs
      <4>1. checkpoint.pc # "finish"
        BY <2>1, <2>4 DEF OpenFiles, OneWAL, Locks, TwoWALs
      <4> QED
        BY <1>1, <2>1, <2>4, <4>1 DEF OneWAL, OpenVersions, Versions, Paths, ScalarTypes
    <3>2. disk'["checkpoint"] = NoFile
      BY <1>5, <3>1
    <3>3. CASE disk["wal"] = NoFile /\ disk'["wal"] = NoFile /\ m = <<>>
      <4>1. file.log \o <<>> = file.log
        BY <3>1, LogConcat
      <4>2. Outcome(file.log)
        BY <2>3, <3>1, <3>3, <4>1
      <4>3. LeftNothing'
        BY <1>2, <1>11, <3>2, <3>3, <4>2 DEF LeftNothing
      <4> QED
        BY <4>3 DEF Left
    <3>4. CASE disk'["wal"] \in Files /\ \E q \in Logs : Dead(disk'["wal"], q) /\ (q = m \/ (commit.pc = "sync" /\ q = Append(m, commit.id)))
      <4>1. PICK q \in Logs : Dead(disk'["wal"], q) /\ (q = m \/ (commit.pc = "sync" /\ q = Append(m, commit.id)))
        BY <3>4
      <4>2. Outcome(file.log \o q)
        <5>1. CASE q = m
          BY <2>3, <3>1, <5>1
        <5>2. CASE commit.pc = "sync" /\ q = Append(m, commit.id)
          <6> HIDE DEF Crash
          <6>1. \A l \in Logs : l \o q = Append(l \o m, commit.id)
            BY <2>2, <5>2, LogAppend
          <6> QED
            BY <2>3, <3>1, <5>2, <6>1
        <5> QED
          BY <4>1, <5>1, <5>2
      <4>3. LeftCommits(q)'
        BY <1>2, <1>11, <1>12, <3>1, <3>2, <3>4, <4>1, <4>2 DEF LeftCommits
      <4> QED
        BY <4>3 DEF Left
    <3> QED
      <4>1. disk'["wal"] \in Remains(wal.path)
        BY <1>2, <3>1
      <4> QED
        BY <1>1, <2>1, <3>1, <3>3, <3>4, <4>1, RemainsOfActive
  <2>5. ASSUME NEW m \in Logs, MarkerWritten(m), checkpoint.pc # "finish" PROVE Left'
    <3>1. PICK es \in Files : es = disk["wal"] /\ es = Contents("wal") /\ synced["wal"] \in 0 .. Len(es) /\ Len(es) \in Nat
      BY <1>1, <2>5, NoFileIsNoFile, ContentsFacts DEF MarkerWritten, Paths
    <3>2. PICK r : r = checkpoint.root /\ Closed(es, m, r) /\ r # file.root
      BY <2>5, <3>1 DEF MarkerWritten
    <3>3. PICK d \in Remains("wal") : d = disk'["wal"]
      BY <1>2 DEF Paths
    <3>4. PICK k \in synced["wal"] .. Len(es) : Cut(es, k, d)
      BY <3>1, CutOfRemains DEF Paths
    <3>5. k >= End(m)
      <4>1. End(m) \in Nat /\ synced["wal"] >= End(m)
        BY <2>5, LogFacts DEF MarkerWritten
      <4> QED
        BY <3>1, <4>1
    <3>6. d \in Files /\ (Dead(d, m) \/ Marked(d, m, r))
      BY <3>2, <3>4, <3>5, CutClosed
    <3>7. /\ disk'["checkpoint"] = NoFile /\ Outcome(file.log \o m) /\ Versions(FALSE)
      BY <1>5, <2>1, <2>3, <2>5 DEF MarkerWritten, OpenVersions, Versions, Paths
    <3>8. CASE Dead(d, m)
      <4>1. LeftCommits(m)'
        BY <1>2, <1>11, <1>12, <3>3, <3>6, <3>7, <3>8 DEF LeftCommits
      <4> QED
        BY <4>1 DEF Left
    <3>9. CASE Marked(d, m, r)
      <4>1. r \in Roots
        BY <3>6, <3>9, MarkerRoot
      <4>2. (r = file.root) = FALSE /\ file' = file
        BY <1>2, <3>2
      <4>3. LeftMarker(m, r)'
        BY <1>11, <1>12, <3>3, <3>6, <3>7, <3>9, <4>2 DEF LeftMarker
      <4> QED
        BY <4>1, <4>3 DEF Left
    <3> QED
      BY <3>6, <3>8, <3>9
  <2>6. ASSUME NEW m \in Logs, NEW c \in Logs, TwoWALs(m, c) PROVE Left'
    <3>1. PICK es \in Files : es = disk["wal"] /\ es # NoFile /\ es = disk'["wal"]
      <4>1. disk["wal"] \in Files /\ disk["wal"] # NoFile /\ synced["wal"] = Len(disk["wal"]) /\ Contents("wal") = disk["wal"]
        BY <2>6, NoFileIsNoFile DEF TwoWALs, Contents
      <4> QED
        BY <1>5, <4>1 DEF Paths
    <3>2. PICK r : r = checkpoint.root /\ Closed(es, m, r) /\ Marked(es, m, r)
      BY <2>6, <3>1 DEF TwoWALs, Closed
    <3>3. PICK done \in BOOLEAN : (done <=> checkpoint.pc = "finish") /\ done = (r = file.root)
      BY <2>6, <3>2 DEF TwoWALs
    <3>4. r \in Roots /\ Versions(done)
      BY <2>1, <3>2, <3>3, MarkerRoot DEF OpenVersions, Versions
    <3>5. ASSUME NEW q \in Logs, q = c \/ (commit.pc = "sync" /\ q = Append(c, commit.id))
          PROVE  Outcome(IF r = file.root THEN file.log \o q ELSE (file.log \o m) \o q)
      <4>1. PICK base \in Logs : base = IF r = file.root THEN file.log ELSE file.log \o m
        BY <1>1, LogConcat DEF ScalarTypes
      <4>2. base \o c \in {acknowledged, Seen}
        BY <2>6, <3>2, <3>3, <4>1 DEF TwoWALs
      <4>3. Outcome(base \o q)
        <5>1. CASE q = c
          BY <2>3, <4>2, <5>1
        <5>2. CASE commit.pc = "sync" /\ q = Append(c, commit.id)
          <6>1. base \o q = Append(base \o c, commit.id)
            BY <2>2, <5>2, LogAppend
          <6> QED
            BY <2>3, <4>2, <5>2, <6>1
        <5> QED
          BY <3>5, <5>1, <5>2
      <4> QED
        BY <4>1, <4>3
    <3>6. CASE disk["checkpoint"] = NoFile /\ disk'["checkpoint"] = NoFile /\ c = <<>>
      <4>1. file.log \o <<>> = file.log /\ (file.log \o m) \o <<>> = file.log \o m
        BY <1>1, LogConcat DEF ScalarTypes
      <4>2. Outcome(IF r = file.root THEN file.log \o c ELSE (file.log \o m) \o c)
        BY <3>5
      <4>3. Outcome(IF r = file.root THEN file.log ELSE file.log \o m)
        BY <3>6, <4>1, <4>2
      <4>4. LeftMarker(m, r)'
        BY <1>2, <1>11, <1>12, <3>1, <3>2, <3>3, <3>4, <3>6, <4>3 DEF LeftMarker
      <4> QED
        BY <3>4, <4>4 DEF Left
    <3>7. CASE disk'["checkpoint"] \in Files /\ \E q \in Logs : Dead(disk'["checkpoint"], q) /\ (q = c \/ (commit.pc = "sync" /\ q = Append(c, commit.id)))
      <4>1. PICK q \in Logs : Dead(disk'["checkpoint"], q) /\ (q = c \/ (commit.pc = "sync" /\ q = Append(c, commit.id)))
        BY <3>7
      <4>2. Outcome(IF r = file.root THEN file.log \o q ELSE (file.log \o m) \o q)
        BY <3>5, <4>1
      <4>3. LeftBoth(m, q, r)'
        BY <1>2, <1>11, <1>12, <3>1, <3>2, <3>3, <3>4, <3>7, <4>1, <4>2 DEF LeftBoth
      <4> QED
        BY <3>4, <4>3 DEF Left
    <3> QED
      <4>1. disk'["checkpoint"] \in Remains(wal.path) /\ wal.path = "checkpoint" /\ Active(c)
        BY <1>2, <2>6 DEF TwoWALs, Paths
      <4> QED
        BY <1>1, <2>1, <3>6, <3>7, <4>1, RemainsOfActive
  <2> QED
    <3>1. checkpoint.pc \in CheckpointPCs
      BY <1>1 DEF ScalarTypes, CheckpointStates
    <3>2. CASE checkpoint.pc \in {"marker", "switch"}
      BY <2>1, <2>5, <3>2 DEF OpenFiles
    <3>3. CASE checkpoint.pc \in {"write", "header", "finish"} /\ checkpoint.has_wal
      BY <2>1, <2>6, <3>3 DEF OpenFiles
    <3>4. CASE checkpoint.pc \in {"idle", "start", "end"} \/ (checkpoint.pc \in {"write", "header"} /\ ~checkpoint.has_wal)
      BY <2>1, <2>4, <3>4 DEF OpenFiles
    <3> QED
      BY <2>1, <3>1, <3>2, <3>3, <3>4 DEF CheckpointPCs, Locks
<1>14. ASSUME phase # "open" PROVE Left'
  <2>1. DownFiles /\ phase \in {"main_wal", "checkpoint_wal", "sync_recovery", "move_recovery"}
    BY <1>1, <1>2, <1>14 DEF RecoveryInv, ScalarTypes, Phases
  <2>2. disk'["wal"] = disk["wal"] /\ disk'["checkpoint"] = disk["checkpoint"]
    <3>1. \A p \in {"wal", "checkpoint"} : p \in Paths /\ synced[p] = Len(Contents(p))
      BY <2>1 DEF DownFiles, Paths
    <3>2. \A p \in {"wal", "checkpoint"} : disk'[p] = disk[p]
      BY <1>5, <3>1
    <3> QED
      BY <3>2
  <2>3. Left
    BY <2>1 DEF DownFiles, Left, Merged
  <2> QED
    BY <1>2, <1>3, <2>2, <2>3, LeftKept
<1>15. DownFiles'
  BY <1>2, <1>3, <1>4, <1>9, <1>13, <1>14 DEF DownFiles, Paths
<1> QED
  BY <1>2, <1>6, <1>7, <1>8, <1>10, <1>15 DEF RecoveryInv

\* The database is open again, with the commits that were reported and perhaps the interrupted one.
Reopened ==
    /\ phase' = "open" /\ commit'.id = NoCommit
    /\ \/ acknowledged' = acknowledged
       \/ commit.id # NoCommit /\ acknowledged' = Append(acknowledged, commit.id)

\* The database is open again: what the replay found is what it holds.
LEMMA OpenedAgain ==
    ASSUME RecoveryInv, phase \in ReplayModes, NEW m \in Logs, NEW w, NEW log, Opened(w, log), log = file.log \o m,
           Outcome(log),
           w \in [path : {"wal", "checkpoint"}, iteration : Nat, size : Nat,
                  init_state : {"no_wal", "uninitialized", "requires_truncate", "initialized"}],
           w.path = "wal", w.iteration = 0,
           DiskTypes', disk'["checkpoint"] = NoFile, Active(m)', Versions(FALSE)'
    PROVE  RecoveryInv' /\ Reopened
<1> USE DEF Opened, rest, bounds
<1>1. ScalarTypes /\ Iterations /\ Numbered /\ DownFiles
  BY DEF RecoveryInv, ReplayModes
<1>2. /\ UNCHANGED <<file, wal_lock, iteration_count, checkpoint, commits, checkpoints, behaviours>>
      /\ wal' = w /\ committed' = log /\ acknowledged' = log /\ commit' = NoCommitUnderway /\ phase' = "open"
  OBVIOUS
<1>3. commit'.pc = "idle" /\ commit'.id = NoCommit
      /\ commit' \in [id : Commits \cup {NoCommit}, pc : CommitPCs, initial_wal_size : Nat]
  BY <1>2 DEF NoCommitUnderway, CommitPCs
<1>4. /\ phase \notin {"down", "failed", "open"} /\ wal_lock = "free" /\ checkpoint = NoCheckpoint
      /\ checkpoint.pc = "idle" /\ ~checkpoint.holds_lock /\ ~checkpoint.has_wal
  BY <1>1 DEF DownFiles, ReplayModes, NoCheckpoint
<1>5. log \in Logs
  BY <1>1, LogConcat DEF ScalarTypes
<1>6. ScalarTypes'
  BY <1>1, <1>2, <1>3, <1>5 DEF ScalarTypes, Phases
<1>7. Iterations'
  BY <1>1, <1>2, <1>4 DEF Iterations, ScalarTypes
<1>8. Numbered'
  <2>1. CASE log = acknowledged
    BY <1>1, <1>2, <1>3, <2>1 DEF Numbered
  <2>2. CASE commit.id # NoCommit /\ log = Append(acknowledged, commit.id)
    <3>1. commit.id \in Commits /\ commit.id <= commits
      BY <1>1, <2>2 DEF Numbered, ScalarTypes
    <3>2. /\ Len(log) = Len(acknowledged) + 1 /\ Len(acknowledged) \in Nat
          /\ \A i \in 1 .. Len(acknowledged) : log[i] = acknowledged[i]
          /\ log[Len(acknowledged) + 1] = commit.id
      BY <1>1, <2>2, <3>1 DEF ScalarTypes, Logs
    <3>3. \A i \in 1 .. Len(acknowledged) + 1 : i \in 1 .. Len(acknowledged) \/ i = Len(acknowledged) + 1
      BY <3>2
    <3>4. \A i \in 1 .. Len(acknowledged) : acknowledged[i] <= commits
      BY <1>1 DEF Numbered
    <3>5. \A i \in 1 .. Len(log) : log[i] <= commits
      BY <3>1, <3>2, <3>3, <3>4
    <3> QED
      BY <1>2, <1>3, <3>5 DEF Numbered
  <2> QED
    BY <2>1, <2>2 DEF Outcome
<1>9. Locks'
  BY <1>2, <1>3, <1>4 DEF Locks, Writing
<1>10. OpenFiles'
  <2>1. OneWAL(m)'
    BY <1>2, <1>4 DEF OneWAL, Seen
  <2> QED
    BY <1>2, <1>4, <2>1 DEF OpenFiles
<1>11. OpenVersions'
  BY <1>2, <1>4 DEF OpenVersions, Versions
<1>12. Reopened
  BY <1>2, <1>3 DEF Reopened, Outcome
<1> QED
  BY <1>2, <1>6, <1>7, <1>8, <1>9, <1>10, <1>11, <1>12 DEF RecoveryInv

\* A WAL without a marker is removed if it is empty, and replayed otherwise.
LEMMA CommitsDecision ==
    ASSUME ScalarTypes, NEW mode \in ReplayModes, NEW m \in Logs, LeftCommits(m)
    PROVE  /\ disk["wal"] \in Files /\ disk["wal"] # NoFile
           /\ ReplayDecision(disk["wal"], mode) \in {"remove", "error", "replay"}
           /\ ReplayDecision(disk["wal"], mode) = "remove" => m = <<>>
           /\ ReplayDecision(disk["wal"], mode) = "error" => MayBeRefused
<1>1. PICK es \in Files : es = disk["wal"] /\ es # NoFile /\ Dead(es, m)
  BY NoFileIsNoFile DEF LeftCommits
<1>2. /\ ReplayDecision(es, mode) \in {"remove", "error", "replay"}
      /\ ReplayDecision(es, mode) = "remove" <=> es = <<>>
      /\ ReplayDecision(es, mode) = "error" => es # <<>> /\ ReplayVersion(es, mode) # "match"
  BY <1>1, DecideDead
<1>3. ReplayDecision(es, mode) = "error" => MayBeRefused
  <2> SUFFICES ASSUME ~MayBeRefused, ReplayDecision(es, mode) = "error" PROVE FALSE
    OBVIOUS
  <2>1. HasVersion(es, file.iteration) /\ es # <<>> /\ ReplayVersion(es, mode) # "match"
    BY <1>1, <1>2 DEF LeftCommits, Versions, VersionIs
  <2>2. file.iteration \in Nat
    BY DEF ScalarTypes
  <2> QED
    BY <2>1, <2>2 DEF HasVersion, ReplayVersion
<1>4. es = <<>> => m = <<>>
  <2> HAVE es = <<>>
  <2>1. m = <<>> \/ Holds(<<>>, m)
    BY <1>1 DEF Dead
  <2>2. End(m) \in Nat /\ End(m) >= 1
    BY LogFacts
  <2> QED
    BY <2>1, <2>2, EmptyFile DEF Holds
<1> QED
  BY <1>1, <1>2, <1>3, <1>4

\* A WAL with a marker is removed or moved away if the checkpoint was complete, and merged or
\* truncated otherwise.
LEMMA MarkerDecision ==
    ASSUME ScalarTypes, NEW m \in Logs, NEW r \in Roots, disk["wal"] \in Files, Marked(disk["wal"], m, r),
           Versions(r = file.root)
    PROVE  /\ disk["wal"] # NoFile
           /\ ReplayDecision(disk["wal"], "main_wal") \in
                {"error", IF r = file.root THEN IF disk["checkpoint"] = NoFile THEN "remove" ELSE "move"
                          ELSE IF disk["checkpoint"] = NoFile THEN "truncate" ELSE "merge"}
           /\ ReplayDecision(disk["wal"], "main_wal") = "error" => MayBeRefused
<1>1. PICK es \in Files : es = disk["wal"] /\ es # NoFile /\ Marked(es, m, r)
  BY NoFileIsNoFile
<1>2. /\ ReplayDecision(es, "main_wal") \in
              {"error", IF r = file.root THEN IF disk["checkpoint"] = NoFile THEN "remove" ELSE "move"
                        ELSE IF disk["checkpoint"] = NoFile THEN "truncate" ELSE "merge"}
      /\ ReplayDecision(es, "main_wal") = "error" =>
              \/ ReplayVersion(es, "main_wal") \notin {"match", "expects_checkpoint"}
              \/ ReplayVersion(es, "main_wal") = "expects_checkpoint" /\ r # file.root
  BY <1>1, DecideMarked
<1>3. ReplayDecision(es, "main_wal") = "error" => MayBeRefused
  <2> SUFFICES ASSUME ~MayBeRefused, ReplayDecision(es, "main_wal") = "error" PROVE FALSE
    OBVIOUS
  <2>1. es # <<>>
    <3>1. Len(es) \in Nat /\ End(m) \in Nat /\ Len(es) >= End(m) /\ End(m) >= 1
      BY <1>1, FileFacts, LogFacts DEF Marked, Holds
    <3> QED
      BY <3>1, EmptyFile
  <2>2. HasVersion(es, IF r = file.root THEN file.iteration - 1 ELSE file.iteration) /\ file.iteration \in Nat
    BY <1>1 DEF Versions, VersionIs, ScalarTypes
  <2>3. CASE r = file.root
    <3>1. ReplayVersion(es, "main_wal") \in {"match", "expects_checkpoint"}
      BY <2>1, <2>2, <2>3 DEF HasVersion, ReplayVersion
    <3> QED
      BY <1>2, <2>3, <3>1
  <2>4. CASE r # file.root
    <3>1. ReplayVersion(es, "main_wal") = "match"
      BY <2>1, <2>2, <2>4 DEF HasVersion, ReplayVersion
    <3> QED
      BY <1>2, <2>4, <3>1
  <2> QED
    BY <2>3, <2>4
<1> QED
  BY <1>1, <1>2, <1>3

\* What the files are when the replay decides, and what it decides.
LEMMA DecidedFiles ==
    ASSUME RecoveryInv, phase \in ReplayModes
    PROVE  /\ disk["wal"] = NoFile => disk["checkpoint"] = NoFile /\ Outcome(file.log)
           /\ Decided("remove") => disk["checkpoint"] = NoFile /\ Outcome(file.log)
           /\ Decided("replay") => \E m \in Logs : LeftCommits(m)
           /\ Decided("truncate") => \E m \in Logs, r \in Roots : LeftMarker(m, r) /\ r # file.root
           /\ Decided("move") => \E m, c \in Logs, r \in Roots : LeftBoth(m, c, r) /\ r = file.root
           /\ Decided("merge") => \E m, c \in Logs, r \in Roots : LeftBoth(m, c, r) /\ r # file.root
           /\ Decided("error") => MayBeRefused
<1>1. ScalarTypes /\ DownFiles
  BY DEF RecoveryInv, ReplayModes
<1>2. /\ phase \in {"main_wal", "checkpoint_wal"}
      /\ phase = "main_wal" => Left
      /\ phase = "checkpoint_wal" => \E m \in Logs : LeftCommits(m)
  BY <1>1 DEF DownFiles, ReplayModes
<1>3. file.log \o <<>> = file.log
  BY <1>1, LogConcat DEF ScalarTypes
<1> DEFINE Goal == /\ disk["wal"] = NoFile => disk["checkpoint"] = NoFile /\ Outcome(file.log)
                   /\ Decided("remove") => disk["checkpoint"] = NoFile /\ Outcome(file.log)
                   /\ Decided("replay") => \E m \in Logs : LeftCommits(m)
                   /\ Decided("truncate") => \E m \in Logs, r \in Roots : LeftMarker(m, r) /\ r # file.root
                   /\ Decided("move") => \E m, c \in Logs, r \in Roots : LeftBoth(m, c, r) /\ r = file.root
                   /\ Decided("merge") => \E m, c \in Logs, r \in Roots : LeftBoth(m, c, r) /\ r # file.root
                   /\ Decided("error") => MayBeRefused
<1>4. ASSUME LeftNothing PROVE Goal
  BY <1>4 DEF LeftNothing, Decided
<1>5. ASSUME NEW m \in Logs, LeftCommits(m) PROVE Goal
  <2>1. /\ disk["wal"] # NoFile
        /\ ReplayDecision(disk["wal"], phase) \in {"remove", "error", "replay"}
        /\ ReplayDecision(disk["wal"], phase) = "remove" => m = <<>>
        /\ ReplayDecision(disk["wal"], phase) = "error" => MayBeRefused
    BY <1>1, <1>5, CommitsDecision
  <2>2. disk["checkpoint"] = NoFile /\ (m = <<>> => Outcome(file.log))
    BY <1>3, <1>5 DEF LeftCommits
  <2> QED
    BY <1>5, <2>1, <2>2 DEF Decided
<1>6. ASSUME phase = "main_wal", NEW m \in Logs, NEW r \in Roots, LeftMarker(m, r) PROVE Goal
  <2>1. /\ disk["wal"] # NoFile /\ disk["checkpoint"] = NoFile
        /\ ReplayDecision(disk["wal"], phase) \in {"error", IF r = file.root THEN "remove" ELSE "truncate"}
        /\ ReplayDecision(disk["wal"], phase) = "error" => MayBeRefused
    BY <1>1, <1>6, MarkerDecision DEF LeftMarker
  <2>2. r = file.root => Outcome(file.log)
    BY <1>6 DEF LeftMarker
  <2> QED
    BY <1>6, <2>1, <2>2 DEF Decided
<1>7. ASSUME phase = "main_wal", NEW m \in Logs, NEW c \in Logs, NEW r \in Roots, LeftBoth(m, c, r) PROVE Goal
  <2>1. /\ disk["wal"] \in Files /\ disk["checkpoint"] # NoFile
        /\ Marked(disk["wal"], m, r) /\ Versions(r = file.root)
    BY <1>7, NoFileIsNoFile DEF LeftBoth, Closed
  <2>2. /\ disk["wal"] # NoFile
        /\ ReplayDecision(disk["wal"], phase) \in {"error", IF r = file.root THEN "move" ELSE "merge"}
        /\ ReplayDecision(disk["wal"], phase) = "error" => MayBeRefused
    BY <1>1, <1>7, <2>1, MarkerDecision
  <2> QED
    BY <1>7, <2>2 DEF Decided
<1>8. Goal
  BY <1>2, <1>4, <1>5, <1>6, <1>7 DEF Left
<1> QED
  BY <1>8

\* A WAL that is not needed is removed.
LEMMA ReplayRemoveStep ==
    ASSUME RecoveryInv, ReplayRemove
    PROVE  RecoveryInv' /\ Reopened
<1> USE DEF ReplayRemove
<1>1. ScalarTypes /\ DiskTypes /\ DownFiles /\ phase \in ReplayModes /\ committed = file.log
  BY DEF RecoveryInv, Decided, ReplayModes, DownFiles
<1>2. disk["checkpoint"] = NoFile /\ Outcome(file.log)
  BY <1>1, DecidedFiles
<1>3. DOMAIN disk = Paths /\ DOMAIN synced = Paths /\ "wal" \in Paths /\ "checkpoint" \in Paths
  BY <1>1 DEF DiskTypes, Paths
<1>4. /\ disk'["wal"] = NoFile /\ synced'["wal"] = 0
      /\ \A p \in Paths : p # "wal" => disk'[p] = disk[p] /\ synced'[p] = synced[p]
  BY <1>3
<1>5. PICK w : w = NewWAL("wal") /\ w.path = "wal" /\ w.init_state = "no_wal" /\ w.size = 0 /\ w.iteration = 0
                /\ w \in [path : {"wal", "checkpoint"}, iteration : Nat, size : Nat,
                          init_state : {"no_wal", "uninitialized", "requires_truncate", "initialized"}]
  BY DEF NewWAL
<1>6. PICK m \in Logs : m = <<>> /\ Size(m) = 0
  BY EmptyFile
<1>7. file.log \o m = committed
  BY <1>1, <1>6, LogConcat DEF ScalarTypes
<1>8. wal' = w /\ Opened(w, committed) /\ commit'.pc = "idle"
  BY <1>5 DEF Opened, NoCommitUnderway
<1>9. Contents("wal")' = <<>> /\ Contents(wal.path)' = <<>>
  BY <1>4, <1>5, <1>8 DEF Contents
<1>10. DiskTypes'
  <2>1. disk' \in [Paths -> Files \cup {NoFile}]
    BY <1>1 DEF DiskTypes
  <2>2. synced' \in [Paths -> Nat]
    BY <1>1 DEF DiskTypes
  <2>3. \A p \in Paths : synced'[p] <= Len(Contents(p)')
    <3>1. synced'["wal"] <= Len(Contents("wal")')
      BY <1>4, <1>9, EmptyFile
    <3>2. \A p \in Paths : p # "wal" => synced'[p] <= Len(Contents(p)')
      BY <1>1, <1>4 DEF DiskTypes, Contents
    <3> QED
      BY <3>1, <3>2
  <2>4. wal'.size <= Len(Contents(wal.path)')
    BY <1>5, <1>8, <1>9, EmptyFile
  <2> QED
    BY <2>1, <2>2, <2>3, <2>4 DEF DiskTypes
<1>11. Active(m)'
  <2>1. Clean(<<>>, m)
    BY <1>6, EmptyFile DEF Clean
  <2> QED
    BY <1>4, <1>5, <1>6, <1>8, <1>9, <2>1 DEF Active, Writing
<1>12. disk'["checkpoint"] = NoFile /\ Versions(FALSE)'
  BY <1>2, <1>3, <1>4 DEF Versions, VersionIs
<1> QED
  BY <1>1, <1>2, <1>5, <1>7, <1>8, <1>10, <1>11, <1>12, OpenedAgain

\* The commits of the main WAL are replayed.
LEMMA ReplayEntriesStep ==
    ASSUME RecoveryInv, ReplayEntries
    PROVE  RecoveryInv' /\ Reopened
<1> USE DEF ReplayEntries
<1>1. ScalarTypes /\ DiskTypes /\ DownFiles /\ phase \in ReplayModes /\ committed = file.log
  BY DEF RecoveryInv, Decided, ReplayModes, DownFiles
<1>2. PICK m \in Logs : LeftCommits(m)
  BY <1>1, DecidedFiles
<1>3. PICK es \in Files : es = disk["wal"] /\ es # NoFile /\ es = Contents("wal") /\ Dead(es, m) /\ synced["wal"] = Len(es)
                          /\ Len(es) \in Nat
  <2>1. disk["wal"] \in Files /\ disk["wal"] # NoFile /\ Dead(disk["wal"], m)
    BY <1>2, NoFileIsNoFile DEF LeftCommits
  <2>2. Contents("wal") = disk["wal"]
    BY <2>1 DEF Contents
  <2>3. synced["wal"] = Len(disk["wal"])
    BY <1>1, <2>2 DEF DownFiles, ReplayModes
  <2> QED
    BY <2>1, <2>2, <2>3, FileFacts
<1>4. /\ LastFlush(es, Len(Readable(es))) = Size(m) /\ Replayed(es) = m /\ (m = <<>> \/ Holds(es, m))
      /\ Size(m) <= Len(es) /\ Size(m) \in Nat
  BY <1>3, ReplayDead, LogFacts
<1>5. PICK w : /\ w = [NewWAL("wal") EXCEPT !.size = Size(m),
                                            !.init_state = IF Size(m) = Len(es) THEN "uninitialized"
                                                                                ELSE "requires_truncate"]
  OBVIOUS
<1>6. /\ w.path = "wal" /\ w.size = Size(m) /\ w.iteration = 0
      /\ w.init_state = IF Size(m) = Len(es) THEN "uninitialized" ELSE "requires_truncate"
      /\ w \in [path : {"wal", "checkpoint"}, iteration : Nat, size : Nat,
                init_state : {"no_wal", "uninitialized", "requires_truncate", "initialized"}]
  BY <1>4, <1>5 DEF NewWAL
<1>7. Opened(w, file.log \o m) /\ UNCHANGED <<disk, synced>>
  BY <1>1, <1>3, <1>4, <1>5
<1>8. /\ wal' = w /\ commit'.pc = "idle" /\ UNCHANGED <<file, behaviours>>
  BY <1>7 DEF Opened, NoCommitUnderway, rest
<1>9. Contents(wal.path)' = es
  BY <1>3, <1>6, <1>7, <1>8 DEF Contents
<1>10. DiskTypes'
  <2>1. \A p \in Paths : Contents(p)' = Contents(p)
    BY <1>7 DEF Contents
  <2>2. wal'.size <= Len(Contents(wal.path)')
    BY <1>4, <1>6, <1>8, <1>9
  <2> QED
    BY <1>1, <1>7, <2>1, <2>2 DEF DiskTypes
<1>11. Active(m)'
  <2>1. Size(m) = Len(es) => Clean(es, m)
    BY <1>4 DEF Clean
  <2>2. synced'["wal"] >= Size(m)
    BY <1>3, <1>4, <1>7
  <2> QED
    BY <1>3, <1>6, <1>8, <1>9, <2>1, <2>2 DEF Active, Writing
<1>12. disk'["checkpoint"] = NoFile /\ Versions(FALSE)'
  BY <1>2, <1>7, <1>8 DEF LeftCommits, Versions, VersionIs, HasVersion, MayBeRefused
<1>13. PICK log : log = file.log \o m /\ Outcome(log)
  BY <1>2 DEF LeftCommits
<1> QED
  BY <1>1, <1>6, <1>7, <1>10, <1>11, <1>12, <1>13, OpenedAgain

\* The marker of a checkpoint that did not finish is removed.
LEMMA ReplayTruncateStep ==
    ASSUME RecoveryInv, ReplayTruncate
    PROVE  RecoveryInv' /\ Reopened
<1>1. ScalarTypes /\ DiskTypes /\ DownFiles /\ phase \in ReplayModes /\ committed = file.log
  BY DEF RecoveryInv, Decided, ReplayModes, DownFiles, ReplayTruncate
<1>2. PICK m \in Logs, r \in Roots : LeftMarker(m, r) /\ r # file.root
  BY <1>1, DecidedFiles DEF ReplayTruncate
<1>3. PICK es \in Files : es = disk["wal"] /\ es # NoFile /\ Marked(es, m, r) /\ Holds(es, m) /\ m # <<>>
  BY <1>2, NoFileIsNoFile DEF LeftMarker, Marked
<1>4. Positions(es, "checkpoint") = {End(m) + 1} /\ LastFlush(es, End(m) + 1) = End(m) /\ Size(m) = End(m)
  BY <1>3, ReplayMarked DEF Size
<1>5. (CHOOSE i \in Positions(es, "checkpoint") : TRUE) = End(m) + 1
  BY <1>4
<1>6. PICK g \in Files : g = SubSeq(es, 1, End(m)) /\ Clean(g, m) /\ g[1] = es[1] /\ g # <<>> /\ Len(g) = Size(m) /\ g # NoFile
                          /\ Replayed(g) = m /\ Len(g) \in Nat
  <2>1. PICK g : g = SubSeq(es, 1, Size(m))
    OBVIOUS
  <2>2. g \in Files /\ Clean(g, m) /\ g[1] = es[1] /\ Len(g) = Size(m)
    BY <1>3, <2>1, Truncation
  <2>3. g # <<>> /\ Dead(g, m)
    BY <1>3, <2>2, CleanFile
  <2>4. Replayed(g) = m
    BY <2>2, <2>3, ReplayDead
  <2> QED
    BY <1>4, <2>1, <2>2, <2>3, <2>4, NoFileIsNoFile, FileFacts
<1>7. /\ disk' = [disk EXCEPT !["wal"] = g] /\ synced' = [synced EXCEPT !["wal"] = Len(g)]
      /\ Opened([NewWAL("wal") EXCEPT !.init_state = "uninitialized", !.size = Len(g)], committed \o Replayed(g))
  BY <1>3, <1>4, <1>5, <1>6 DEF ReplayTruncate
<1>8. PICK w : w = [NewWAL("wal") EXCEPT !.init_state = "uninitialized", !.size = Len(g)]
  OBVIOUS
<1>9. /\ w.path = "wal" /\ w.size = Size(m) /\ w.iteration = 0 /\ w.init_state = "uninitialized"
      /\ w \in [path : {"wal", "checkpoint"}, iteration : Nat, size : Nat,
                init_state : {"no_wal", "uninitialized", "requires_truncate", "initialized"}]
  BY <1>6, <1>8 DEF NewWAL
<1>10. Opened(w, file.log \o m)
  BY <1>1, <1>6, <1>7, <1>8
<1>11. wal' = w /\ commit'.pc = "idle" /\ UNCHANGED <<file, behaviours>>
  BY <1>10 DEF Opened, NoCommitUnderway, rest
<1>12. DOMAIN disk = Paths /\ DOMAIN synced = Paths /\ "wal" \in Paths /\ "checkpoint" \in Paths
  BY <1>1 DEF DiskTypes, Paths
<1>13. /\ disk'["wal"] = g /\ synced'["wal"] = Len(g) /\ Contents(wal.path)' = g /\ Contents("wal")' = g
       /\ \A p \in Paths : p # "wal" => disk'[p] = disk[p] /\ synced'[p] = synced[p]
  <2>1. disk'["wal"] = g /\ synced'["wal"] = Len(g) /\ \A p \in Paths : p # "wal" => disk'[p] = disk[p] /\ synced'[p] = synced[p]
    BY <1>7, <1>12
  <2> QED
    BY <1>6, <1>9, <1>11, <2>1 DEF Contents
<1>14. PICK n \in Nat : n = Len(g) /\ n = Size(m) /\ n <= n /\ n >= n
  <2>1. Len(g) \in Nat /\ Len(g) = Size(m)
    BY <1>6
  <2> QED
    BY <2>1
<1>15. /\ Len(Contents("wal")') = n /\ Len(Contents(wal.path)') = n /\ synced'["wal"] = n /\ synced'[wal'.path] = n
       /\ wal'.size = n
  BY <1>9, <1>11, <1>13, <1>14
<1>16. DiskTypes'
  <2>1. disk \in [Paths -> Files \cup {NoFile}] /\ synced \in [Paths -> Nat]
    BY <1>1 DEF DiskTypes
  <2>2. disk' \in [Paths -> Files \cup {NoFile}]
    BY <1>7, <2>1
  <2>3. synced' \in [Paths -> Nat]
    BY <1>6, <1>7, <2>1
  <2>4. \A p \in Paths : synced'[p] <= Len(Contents(p)')
    <3>1. synced'["wal"] <= Len(Contents("wal")')
      BY <1>14, <1>15
    <3>2. \A p \in Paths : p # "wal" => synced'[p] <= Len(Contents(p)')
      BY <1>1, <1>13 DEF DiskTypes, Contents
    <3> QED
      BY <3>1, <3>2
  <2>5. wal'.size <= Len(Contents(wal.path)')
    BY <1>14, <1>15
  <2> QED
    BY <2>2, <2>3, <2>4, <2>5 DEF DiskTypes
<1>17. Active(m)'
  <2>1. synced'[wal'.path] >= Size(m)
    BY <1>14, <1>15
  <2> QED
    BY <1>6, <1>9, <1>11, <1>13, <2>1 DEF Active, Writing
<1>18. disk'["checkpoint"] = NoFile /\ Versions(FALSE)'
  <2>1. Versions(FALSE) /\ disk["checkpoint"] = NoFile
    BY <1>2 DEF LeftMarker
  <2>2. es # <<>>
    <3>1. Len(es) \in Nat /\ End(m) \in Nat /\ Len(es) >= End(m) /\ End(m) >= 1
      BY <1>3, FileFacts, LogFacts DEF Holds
    <3> QED
      BY <3>1, EmptyFile
  <2>3. \A p \in {"wal", "checkpoint"} :
              \/ disk'[p] = NoFile \/ disk'[p] = <<>>
              \/ disk[p] # NoFile /\ disk[p] # <<>> /\ disk'[p][1] = disk[p][1]
    BY <1>3, <1>6, <1>12, <1>13, <2>1, <2>2
  <2> QED
    BY <1>11, <1>12, <1>13, <2>1, <2>3, KeptVersions
<1>19. PICK log : log = file.log \o m /\ Outcome(log)
  BY <1>2 DEF LeftMarker
<1> QED
  BY <1>1, <1>9, <1>10, <1>16, <1>17, <1>18, <1>19, OpenedAgain

\* While the database is being opened only the phase and the files change.
LEMMA StillDown ==
    ASSUME RecoveryInv, phase \notin {"open", "down", "failed"}, phase' \in Phases \ {"open", "down"},
           UNCHANGED <<file, wal, wal_lock, iteration_count, committed, acknowledged, commit, checkpoint, rest>>
    PROVE  /\ ScalarTypes' /\ Iterations' /\ Numbered'
           /\ commit'.pc = "crashed" /\ wal_lock' = "free" /\ checkpoint' = NoCheckpoint /\ committed' = file'.log
           /\ wal.size = 0 /\ wal'.size = 0
<1> USE DEF rest, bounds
<1>1. ScalarTypes /\ Iterations /\ Numbered /\ DownFiles
  BY DEF RecoveryInv
<1>2. ScalarTypes' /\ Iterations' /\ Numbered'
  BY <1>1 DEF ScalarTypes, Iterations, Numbered
<1>3. /\ commit.pc = "crashed" /\ wal_lock = "free" /\ checkpoint = NoCheckpoint /\ committed = file.log
      /\ wal.size = 0
  BY <1>1 DEF DownFiles
<1> QED
  BY <1>2, <1>3

\* When the database is down, nothing has been written to a WAL.
LEMMA DownWAL ==
    ASSUME ScalarTypes, disk' \in [Paths -> Files \cup {NoFile}], synced' \in [Paths -> Nat],
           wal.size = 0, wal' = wal, \A p \in Paths : synced'[p] <= Len(Contents(p)')
    PROVE  DiskTypes'
<1>1. wal.path \in Paths /\ Contents(wal.path)' \in Files
  <2>1. wal.path \in Paths /\ disk'[wal.path] \in Files \cup {NoFile}
    BY DEF ScalarTypes, Paths
  <2> QED
    BY <2>1, EmptyFile DEF Contents
<1>2. Len(Contents(wal.path)') \in Nat
  BY <1>1, FileFacts
<1> QED
  BY <1>2 DEF DiskTypes

\* The database file is loaded.
LEMMA LoadDatabaseStep ==
    ASSUME RecoveryInv, LoadDatabase
    PROVE  RecoveryInv'
<1> USE DEF LoadDatabase, rest, bounds
<1>1. ScalarTypes /\ Iterations /\ Numbered /\ DiskTypes /\ DownFiles /\ phase = "down"
  BY DEF RecoveryInv
<1>2. /\ commit.pc = "crashed" /\ wal_lock = "free" /\ checkpoint = NoCheckpoint /\ Left /\ checkpoint.pc = "idle"
      /\ wal.size = 0
      /\ \A p \in {"wal", "checkpoint"} : synced[p] = Len(Contents(p))
  BY <1>1 DEF DownFiles, NoCheckpoint
<1>3. ScalarTypes'
  BY <1>1 DEF ScalarTypes, Phases
<1>4. Iterations'
  BY <1>1, <1>2 DEF Iterations, ScalarTypes
<1>5. Numbered' /\ DiskTypes'
  BY <1>1 DEF Numbered, DiskTypes, Contents
<1>6. Left'
  BY <1>2, LeftKept
<1>7. DownFiles'
  <2>1. \A p \in {"wal", "checkpoint"} : Contents(p)' = Contents(p)
    BY DEF Contents
  <2> QED
    BY <1>1, <1>2, <1>6, <2>1 DEF DownFiles
<1> QED
  BY <1>3, <1>4, <1>5, <1>7 DEF RecoveryInv

\* A WAL is refused only where that is possible.
LEMMA ReplayErrorStep ==
    ASSUME RecoveryInv, ReplayError
    PROVE  RecoveryInv'
<1> USE DEF ReplayError
<1>1. DiskTypes /\ phase \in ReplayModes /\ phase' = "failed" /\ UNCHANGED <<disk, synced, wal, behaviours>>
  BY DEF RecoveryInv, Decided, rest
<1>2. ScalarTypes' /\ Iterations' /\ Numbered'
  BY <1>1, StillDown DEF ReplayModes, Phases
<1>3. DiskTypes'
  BY <1>1 DEF DiskTypes, Contents
<1>4. MayBeRefused'
  BY <1>1, DecidedFiles DEF MayBeRefused
<1>5. DownFiles'
  BY <1>1, <1>4 DEF DownFiles
<1> QED
  BY <1>1, <1>2, <1>3, <1>5 DEF RecoveryInv

\* The checkpoint WAL of a checkpoint that did finish replaces the main WAL.
LEMMA MoveCheckpointWALStep ==
    ASSUME RecoveryInv, MoveCheckpointWAL
    PROVE  RecoveryInv'
<1>1. ScalarTypes /\ DiskTypes /\ DownFiles /\ phase \in ReplayModes /\ phase' = "checkpoint_wal"
      /\ UNCHANGED <<file, wal, behaviours, acknowledged, commit>>
  BY DEF RecoveryInv, Decided, rest, ReplayModes, MoveCheckpointWAL
<1>2. /\ ScalarTypes' /\ Iterations' /\ Numbered'
      /\ commit'.pc = "crashed" /\ wal_lock' = "free" /\ checkpoint' = NoCheckpoint /\ committed' = file'.log
      /\ wal.size = 0 /\ wal'.size = 0
  BY <1>1, StillDown DEF ReplayModes, Phases, MoveCheckpointWAL
<1>3. PICK m \in Logs, c \in Logs, r \in Roots : LeftBoth(m, c, r) /\ r = file.root
  BY <1>1, DecidedFiles DEF MoveCheckpointWAL
<1>4. PICK cs \in Files : cs = disk["checkpoint"] /\ cs # NoFile /\ Dead(cs, c) /\ Contents("checkpoint") = cs
  <2>1. disk["checkpoint"] \in Files /\ disk["checkpoint"] # NoFile /\ Dead(disk["checkpoint"], c)
    BY <1>3, NoFileIsNoFile DEF LeftBoth
  <2> QED
    BY <2>1 DEF Contents
<1>5. PICK n \in Nat : n = Len(cs) /\ n = synced["checkpoint"] /\ n <= n
  <2>1. synced["checkpoint"] = Len(cs) /\ Len(cs) \in Nat
    BY <1>1, <1>4, FileFacts DEF DownFiles, ReplayModes
  <2> QED
    BY <2>1
<1>6. DOMAIN disk = Paths /\ DOMAIN synced = Paths /\ "wal" \in Paths /\ "checkpoint" \in Paths
  BY <1>1 DEF DiskTypes, Paths
<1>7. /\ disk' = [disk EXCEPT !["wal"] = cs, !["checkpoint"] = NoFile]
      /\ synced' = [synced EXCEPT !["wal"] = n, !["checkpoint"] = 0]
  BY <1>4, <1>5 DEF MoveCheckpointWAL
<1>8. /\ disk'["wal"] = cs /\ disk'["checkpoint"] = NoFile /\ synced'["wal"] = n /\ synced'["checkpoint"] = 0
      /\ \A p \in Paths : p \notin {"wal", "checkpoint"} => disk'[p] = disk[p] /\ synced'[p] = synced[p]
  BY <1>6, <1>7
<1>9. Contents("wal")' = cs /\ Contents("checkpoint")' = <<>>
  BY <1>4, <1>8 DEF Contents
<1>10. DiskTypes'
  <2>1. disk \in [Paths -> Files \cup {NoFile}] /\ synced \in [Paths -> Nat]
    BY <1>1 DEF DiskTypes
  <2>2. disk' \in [Paths -> Files \cup {NoFile}]
    BY <1>7, <2>1
  <2>3. synced' \in [Paths -> Nat]
    BY <1>7, <2>1
  <2>4. \A p \in Paths : synced'[p] <= Len(Contents(p)')
    <3>1. synced'["wal"] <= Len(Contents("wal")')
      BY <1>5, <1>8, <1>9
    <3>2. synced'["checkpoint"] <= Len(Contents("checkpoint")')
      BY <1>8, <1>9, EmptyFile
    <3>3. \A p \in Paths : p \notin {"wal", "checkpoint"} => synced'[p] <= Len(Contents(p)')
      BY <1>1, <1>8 DEF DiskTypes, Contents
    <3> QED
      BY <3>1, <3>2, <3>3
  <2> QED
    BY <1>1, <1>2, <2>2, <2>3, <2>4, DownWAL
<1>11. LeftCommits(c)'
  <2>1. Outcome(file.log \o c) /\ Versions(TRUE)
    BY <1>3 DEF LeftBoth
  <2>2. Versions(FALSE)'
    <3> SUFFICES ASSUME ~MayBeRefused PROVE Versions(FALSE)'
      BY <1>1 DEF Versions, MayBeRefused
    <3>1. HasVersion(cs, file.iteration)
      BY <1>4, <2>1 DEF Versions, VersionIs
    <3> QED
      BY <1>1, <1>8, <3>1 DEF Versions, VersionIs, HasVersion
  <2>3. \A log : Outcome(log) => Outcome(log)'
    BY <1>1 DEF Outcome
  <2> QED
    BY <1>1, <1>4, <1>8, <2>1, <2>2, <2>3 DEF LeftCommits
<1>12. DownFiles'
  <2>1. \A p \in {"wal", "checkpoint"} : synced'[p] = Len(Contents(p)')
    BY <1>5, <1>8, <1>9, EmptyFile
  <2> QED
    BY <1>1, <1>2, <1>11, <2>1 DEF DownFiles
<1> QED
  BY <1>1, <1>2, <1>10, <1>12 DEF RecoveryInv

\* The two WALs are merged; both are still there.
LEMMA MergeIntoRecoveryWALStep ==
    ASSUME RecoveryInv, MergeIntoRecoveryWAL
    PROVE  RecoveryInv'
<1>1. ScalarTypes /\ DiskTypes /\ DownFiles /\ phase \in ReplayModes /\ phase' \in {"failed", "sync_recovery"}
      /\ UNCHANGED <<file, wal, behaviours, acknowledged, commit>>
  BY DEF RecoveryInv, Decided, rest, ReplayModes, MergeIntoRecoveryWAL
<1>2. /\ ScalarTypes' /\ Iterations' /\ Numbered'
      /\ commit'.pc = "crashed" /\ wal_lock' = "free" /\ checkpoint' = NoCheckpoint /\ committed' = file'.log
      /\ wal.size = 0 /\ wal'.size = 0
  BY <1>1, StillDown DEF ReplayModes, Phases, MergeIntoRecoveryWAL
<1>3. PICK m \in Logs, c \in Logs, r \in Roots : LeftBoth(m, c, r) /\ r # file.root
  BY <1>1, DecidedFiles DEF MergeIntoRecoveryWAL
<1>4. PICK es \in Files : es = disk["wal"] /\ Closed(es, m, r) /\ Marked(es, m, r) /\ es # NoFile
  BY <1>3, NoFileIsNoFile DEF LeftBoth, Closed
<1>5. PICK cs \in Files : cs = disk["checkpoint"] /\ Dead(cs, c) /\ cs # NoFile
  BY <1>3, NoFileIsNoFile DEF LeftBoth
<1>6. /\ (CHOOSE i \in Positions(es, "checkpoint") : TRUE) = End(m) + 1 /\ (End(m) + 1) - 1 = End(m)
      /\ End(m) \in 0 .. Len(es) /\ es # <<>>
  <2>1. Positions(es, "checkpoint") = {End(m) + 1}
    BY <1>4, ReplayMarked
  <2>2. End(m) \in Nat /\ Len(es) \in Nat /\ Len(es) = End(m) + 2 /\ (es = <<>> <=> Len(es) = 0)
    BY <1>4, LogFacts, FileFacts DEF Closed
  <2> QED
    BY <2>1, <2>2
<1>7. PICK t : t = IF cs = <<>> THEN <<>> ELSE Tail(cs)
  OBVIOUS
<1>8. IF cs # <<>> /\ (cs[1].type = "torn" \/ ReplayVersion(cs, "checkpoint_wal") = "mismatch")
        THEN phase' = "failed" /\ disk' = [disk EXCEPT !["recovery"] = SubSeq(es, 1, End(m))]
        ELSE phase' = "sync_recovery" /\ disk' = [disk EXCEPT !["recovery"] = SubSeq(es, 1, End(m)) \o t]
  BY <1>4, <1>5, <1>6, <1>7 DEF MergeIntoRecoveryWAL
<1>9. synced' = [synced EXCEPT !["recovery"] = 0]
  BY DEF MergeIntoRecoveryWAL
<1>10. DOMAIN disk = Paths /\ DOMAIN synced = Paths /\ Paths = {"wal", "checkpoint", "recovery"}
  BY <1>1 DEF DiskTypes, Paths
<1>11. ASSUME NEW g \in Files, disk' = [disk EXCEPT !["recovery"] = g]
       PROVE  /\ DiskTypes' /\ disk'["recovery"] = g /\ disk'["wal"] = disk["wal"] /\ disk'["checkpoint"] = disk["checkpoint"]
              /\ synced'["wal"] = synced["wal"] /\ synced'["checkpoint"] = synced["checkpoint"]
  <2>1. disk \in [Paths -> Files \cup {NoFile}] /\ synced \in [Paths -> Nat]
    BY <1>1 DEF DiskTypes
  <2>2. /\ disk'["recovery"] = g /\ synced'["recovery"] = 0
        /\ \A p \in Paths : p # "recovery" => disk'[p] = disk[p] /\ synced'[p] = synced[p]
    BY <1>9, <1>10, <1>11
  <2>3. disk' \in [Paths -> Files \cup {NoFile}]
    BY <1>11, <2>1
  <2>4. synced' \in [Paths -> Nat]
    BY <1>9, <2>1
  <2>5. \A p \in Paths : synced'[p] <= Len(Contents(p)')
    <3>1. Contents("recovery")' = g /\ Len(g) \in Nat
      BY <2>2, NoFileIsNoFile, FileFacts DEF Contents
    <3>2. \A p \in Paths : p # "recovery" => synced'[p] <= Len(Contents(p)')
      BY <1>1, <2>2 DEF DiskTypes, Contents
    <3> QED
      BY <2>2, <3>1, <3>2
  <2> QED
    BY <1>1, <1>2, <1>10, <2>2, <2>3, <2>4, <2>5, DownWAL
<1>12. CASE cs # <<>> /\ (cs[1].type = "torn" \/ ReplayVersion(cs, "checkpoint_wal") = "mismatch")
  <2>1. phase' = "failed" /\ disk' = [disk EXCEPT !["recovery"] = SubSeq(es, 1, End(m))]
    BY <1>8, <1>12
  <2>2. SubSeq(es, 1, End(m)) \in Files
    BY <1>6, Prefix
  <2>3. DiskTypes'
    BY <1>11, <2>1, <2>2
  <2>4. MayBeRefused
    <3> SUFFICES ASSUME ~MayBeRefused PROVE FALSE
      OBVIOUS
    <3>1. HasVersion(cs, file.iteration + 1) /\ file.iteration \in Nat
      BY <1>1, <1>3, <1>5 DEF LeftBoth, Versions, VersionIs, ScalarTypes
    <3>2. cs[1].type = "version" /\ (cs[1].iteration = 0 \/ cs[1].iteration = file.iteration + 1)
      BY <1>12, <3>1 DEF HasVersion
    <3>3. ReplayVersion(cs, "checkpoint_wal") = "match"
      BY <3>1, <3>2 DEF ReplayVersion
    <3> QED
      BY <1>12, <3>2, <3>3
  <2>5. DownFiles'
    BY <1>1, <2>1, <2>4 DEF DownFiles, MayBeRefused
  <2> QED
    BY <1>2, <2>1, <2>3, <2>5 DEF RecoveryInv
<1>13. CASE ~(cs # <<>> /\ (cs[1].type = "torn" \/ ReplayVersion(cs, "checkpoint_wal") = "mismatch"))
  <2>1. phase' = "sync_recovery" /\ disk' = [disk EXCEPT !["recovery"] = SubSeq(es, 1, End(m)) \o t]
    BY <1>8, <1>13
  <2>2. PICK g \in Files : g = SubSeq(es, 1, End(m)) \o t /\ Dead(g, m \o c) /\ g[1] = es[1]
    <3>1. cs = <<>> \/ cs[1].type # "torn"
      BY <1>13
    <3>2. Mergeable(es, m, r, cs, c, t)
      BY <1>4, <1>5, <1>7, <3>1 DEF Mergeable
    <3>3. PICK g \in Files : g = MergedEntries(es, m, t) /\ Dead(g, m \o c) /\ g[1] = es[1]
      BY <3>2, Merge
    <3>4. g = SubSeq(es, 1, End(m)) \o t
      BY <3>3, Zenon DEF MergedEntries
    <3> QED
      BY <3>3, <3>4, Zenon
  <2>3. disk' = [disk EXCEPT !["recovery"] = g]
    BY <2>1, <2>2
  <2>4. /\ DiskTypes' /\ disk'["recovery"] = g /\ disk'["wal"] = disk["wal"] /\ disk'["checkpoint"] = disk["checkpoint"]
        /\ synced'["wal"] = synced["wal"] /\ synced'["checkpoint"] = synced["checkpoint"]
    BY <1>11, <2>3
  <2>5. LeftBoth(m, c, r)'
    <3>1. \A log : Outcome(log) => Outcome(log)'
      BY <1>1 DEF Outcome
    <3>2. \A done \in BOOLEAN : Versions(done) => Versions(done)'
      BY <1>1, <2>4 DEF Versions, VersionIs, HasVersion, MayBeRefused
    <3> QED
      BY <1>1, <1>3, <2>4, <3>1, <3>2 DEF LeftBoth
  <2>6. ~MayBeRefused' => VersionIs("recovery", file.iteration)'
    <3>1. ~MayBeRefused => HasVersion(es, file.iteration)
      BY <1>3, <1>4 DEF LeftBoth, Versions, VersionIs
    <3> QED
      BY <1>1, <1>6, <2>2, <2>4, <3>1 DEF MayBeRefused, VersionIs, HasVersion
  <2>7. Merged(m, c, r)'
    BY <1>1, <1>3, <2>2, <2>4, <2>5, <2>6 DEF Merged
  <2>8. DownFiles'
    <3>1. \A p \in {"wal", "checkpoint"} : synced'[p] = Len(Contents(p)')
      BY <1>1, <2>4 DEF DownFiles, ReplayModes, Contents
    <3> QED
      BY <1>2, <2>1, <2>7, <3>1 DEF DownFiles
  <2> QED
    BY <1>2, <2>1, <2>4, <2>8 DEF RecoveryInv
<1> QED
  BY <1>12, <1>13

\* The recovery WAL is synced.
LEMMA SyncRecoveryWALStep ==
    ASSUME RecoveryInv, SyncRecoveryWAL
    PROVE  RecoveryInv'
<1>1. /\ ScalarTypes /\ DiskTypes /\ DownFiles /\ phase = "sync_recovery" /\ phase' = "move_recovery"
      /\ UNCHANGED <<file, disk, wal, behaviours, acknowledged, commit>>
      /\ synced' = [synced EXCEPT !["recovery"] = Len(disk["recovery"])]
  BY DEF RecoveryInv, rest, SyncRecoveryWAL
<1>2. /\ ScalarTypes' /\ Iterations' /\ Numbered'
      /\ commit'.pc = "crashed" /\ wal_lock' = "free" /\ checkpoint' = NoCheckpoint /\ committed' = file'.log
      /\ wal.size = 0 /\ wal'.size = 0
  BY <1>1, StillDown DEF Phases, SyncRecoveryWAL
<1>3. PICK m \in Logs, c \in Logs, r \in Roots : Merged(m, c, r)
  BY <1>1 DEF DownFiles
<1>4. PICK g \in Files : g = disk["recovery"] /\ g # NoFile /\ Contents("recovery") = g
  <2>1. disk["recovery"] \in Files /\ disk["recovery"] # NoFile
    BY <1>3, NoFileIsNoFile DEF Merged
  <2> QED
    BY <2>1 DEF Contents
<1>5. PICK n \in Nat : n = Len(g) /\ n <= n
  BY FileFacts
<1>6. /\ synced'["recovery"] = n /\ \A p \in Paths : p # "recovery" => synced'[p] = synced[p]
      /\ \A p \in Paths : Contents(p)' = Contents(p)
  BY <1>1, <1>4, <1>5 DEF DiskTypes, Paths, Contents
<1>7. DiskTypes'
  <2>1. synced \in [Paths -> Nat] /\ disk' \in [Paths -> Files \cup {NoFile}]
    BY <1>1 DEF DiskTypes
  <2>2. synced' \in [Paths -> Nat]
    BY <1>1, <1>4, <1>5, <2>1
  <2>3. \A p \in Paths : synced'[p] <= Len(Contents(p)')
    BY <1>1, <1>4, <1>5, <1>6 DEF DiskTypes
  <2> QED
    BY <1>1, <1>2, <2>1, <2>2, <2>3, DownWAL
<1>8. Merged(m, c, r)'
  <2>1. \A log : Outcome(log) => Outcome(log)'
    BY <1>1 DEF Outcome
  <2>2. \A done \in BOOLEAN : Versions(done) => Versions(done)'
    BY <1>1 DEF Versions, VersionIs, HasVersion, MayBeRefused
  <2>3. LeftBoth(m, c, r)'
    BY <1>1, <1>3, <2>1, <2>2 DEF LeftBoth, Merged
  <2> QED
    BY <1>1, <1>3, <2>3 DEF Merged, VersionIs, HasVersion, MayBeRefused
<1>9. DownFiles'
  <2>1. \A p \in {"wal", "checkpoint"} : synced'[p] = Len(Contents(p)')
    BY <1>1, <1>6 DEF DownFiles, Paths
  <2>2. synced'["recovery"] = Len(disk'["recovery"])
    BY <1>1, <1>4, <1>5, <1>6
  <2> QED
    BY <1>1, <1>2, <1>8, <2>1, <2>2 DEF DownFiles
<1> QED
  BY <1>1, <1>2, <1>7, <1>9 DEF RecoveryInv

\* The recovery WAL replaces the main WAL.
LEMMA MoveRecoveryWALStep ==
    ASSUME RecoveryInv, MoveRecoveryWAL
    PROVE  RecoveryInv'
<1>1. /\ ScalarTypes /\ DiskTypes /\ DownFiles /\ phase = "move_recovery" /\ phase' = "remove_checkpoint"
      /\ UNCHANGED <<file, wal, behaviours, acknowledged, commit>>
  BY DEF RecoveryInv, rest, MoveRecoveryWAL
<1>2. /\ ScalarTypes' /\ Iterations' /\ Numbered'
      /\ commit'.pc = "crashed" /\ wal_lock' = "free" /\ checkpoint' = NoCheckpoint /\ committed' = file'.log
      /\ wal.size = 0 /\ wal'.size = 0
  BY <1>1, StillDown DEF Phases, MoveRecoveryWAL
<1>3. PICK m \in Logs, c \in Logs, r \in Roots : Merged(m, c, r)
  BY <1>1 DEF DownFiles
<1>4. PICK g \in Files : g = disk["recovery"] /\ g # NoFile /\ Dead(g, m \o c)
  BY <1>3, NoFileIsNoFile DEF Merged
<1>5. PICK n \in Nat : n = Len(g) /\ n = synced["recovery"] /\ n <= n
  <2>1. synced["recovery"] = Len(g) /\ Len(g) \in Nat
    BY <1>1, <1>4, FileFacts DEF DownFiles
  <2> QED
    BY <2>1
<1>6. /\ disk' = [disk EXCEPT !["wal"] = g, !["recovery"] = NoFile]
      /\ synced' = [synced EXCEPT !["wal"] = n, !["recovery"] = 0]
  BY <1>4, <1>5 DEF MoveRecoveryWAL
<1>7. DOMAIN disk = Paths /\ DOMAIN synced = Paths /\ Paths = {"wal", "checkpoint", "recovery"}
  BY <1>1 DEF DiskTypes, Paths
<1>8. /\ disk'["wal"] = g /\ disk'["recovery"] = NoFile /\ synced'["wal"] = n /\ synced'["recovery"] = 0
      /\ disk'["checkpoint"] = disk["checkpoint"] /\ synced'["checkpoint"] = synced["checkpoint"]
  BY <1>6, <1>7
<1>9. /\ Contents("wal")' = g /\ Contents("recovery")' = <<>> /\ Contents("checkpoint")' = Contents("checkpoint")
  BY <1>4, <1>8 DEF Contents
<1>10. DiskTypes'
  <2>1. disk \in [Paths -> Files \cup {NoFile}] /\ synced \in [Paths -> Nat]
    BY <1>1 DEF DiskTypes
  <2>2. disk' \in [Paths -> Files \cup {NoFile}]
    BY <1>6, <2>1
  <2>3. synced' \in [Paths -> Nat]
    BY <1>6, <2>1
  <2>4. \A p \in Paths : synced'[p] <= Len(Contents(p)')
    <3>1. synced'["wal"] <= Len(Contents("wal")')
      BY <1>5, <1>8, <1>9
    <3>2. synced'["recovery"] <= Len(Contents("recovery")')
      BY <1>8, <1>9, EmptyFile
    <3>3. synced'["checkpoint"] <= Len(Contents("checkpoint")')
      BY <1>1, <1>7, <1>8, <1>9 DEF DiskTypes
    <3> QED
      BY <1>7, <3>1, <3>2, <3>3
  <2> QED
    BY <1>1, <1>2, <2>2, <2>3, <2>4, DownWAL
<1>11. PICK q \in Logs : q = m \o c
  BY LogConcat
<1>12. Moved(q)'
  <2>1. Outcome(file.log \o q)
    <3>1. Outcome((file.log \o m) \o c)
      BY <1>3 DEF Merged, LeftBoth
    <3>2. (file.log \o m) \o c = file.log \o q
      <4>1. file.log \in Logs
        BY <1>1 DEF ScalarTypes
      <4>2. (file.log \o m) \o c = file.log \o (m \o c)
        BY <4>1, LogAssociative
      <4> QED
        BY <1>11, <4>2
    <3> QED
      BY <3>1, <3>2
  <2>2. \A log : Outcome(log) => Outcome(log)'
    BY <1>1 DEF Outcome
  <2>3. ~MayBeRefused' => VersionIs("wal", file.iteration)'
    BY <1>1, <1>3, <1>4, <1>8 DEF Merged, VersionIs, HasVersion, MayBeRefused
  <2> QED
    BY <1>1, <1>4, <1>8, <1>11, <2>1, <2>2, <2>3 DEF Moved
<1>13. DownFiles'
  <2>1. \A p \in {"wal", "checkpoint"} : synced'[p] = Len(Contents(p)')
    BY <1>1, <1>5, <1>8, <1>9 DEF DownFiles
  <2> QED
    BY <1>1, <1>2, <1>12, <2>1 DEF DownFiles
<1> QED
  BY <1>1, <1>2, <1>10, <1>13 DEF RecoveryInv

\* The checkpoint WAL has been merged and is removed.
LEMMA RemoveCheckpointWALStep ==
    ASSUME RecoveryInv, RemoveCheckpointWAL
    PROVE  RecoveryInv'
<1>1. /\ ScalarTypes /\ DiskTypes /\ DownFiles /\ phase = "remove_checkpoint" /\ phase' = "checkpoint_wal"
      /\ UNCHANGED <<file, wal, behaviours, acknowledged, commit>>
      /\ disk' = [disk EXCEPT !["checkpoint"] = NoFile] /\ synced' = [synced EXCEPT !["checkpoint"] = 0]
  BY DEF RecoveryInv, rest, RemoveCheckpointWAL
<1>2. /\ ScalarTypes' /\ Iterations' /\ Numbered'
      /\ commit'.pc = "crashed" /\ wal_lock' = "free" /\ checkpoint' = NoCheckpoint /\ committed' = file'.log
      /\ wal.size = 0 /\ wal'.size = 0
  BY <1>1, StillDown DEF Phases, RemoveCheckpointWAL
<1>3. PICK m \in Logs : Moved(m)
  BY <1>1 DEF DownFiles
<1>4. /\ disk'["checkpoint"] = NoFile /\ synced'["checkpoint"] = 0 /\ Contents("checkpoint")' = <<>>
      /\ \A p \in Paths : p # "checkpoint" => disk'[p] = disk[p] /\ synced'[p] = synced[p] /\ Contents(p)' = Contents(p)
      /\ disk'["wal"] = disk["wal"] /\ synced'["wal"] = synced["wal"]
  BY <1>1 DEF DiskTypes, Paths, Contents
<1>5. DiskTypes'
  <2>1. disk \in [Paths -> Files \cup {NoFile}] /\ synced \in [Paths -> Nat]
    BY <1>1 DEF DiskTypes
  <2>2. disk' \in [Paths -> Files \cup {NoFile}]
    BY <1>1, <2>1
  <2>3. synced' \in [Paths -> Nat]
    BY <1>1, <2>1
  <2>4. \A p \in Paths : synced'[p] <= Len(Contents(p)')
    <3>1. \A p \in Paths : p # "checkpoint" => synced'[p] <= Len(Contents(p)')
      BY <1>1, <1>4 DEF DiskTypes
    <3>2. synced'["checkpoint"] <= Len(Contents("checkpoint")')
      BY <1>4, EmptyFile
    <3> QED
      BY <3>1, <3>2
  <2> QED
    BY <1>1, <1>2, <2>2, <2>3, <2>4, DownWAL
<1>6. LeftCommits(m)'
  <2>1. \A log : Outcome(log) => Outcome(log)'
    BY <1>1 DEF Outcome
  <2>2. Versions(FALSE)'
    BY <1>1, <1>3, <1>4 DEF Moved, Versions, VersionIs, HasVersion, MayBeRefused
  <2> QED
    BY <1>1, <1>3, <1>4, <2>1, <2>2 DEF LeftCommits, Moved
<1>7. DownFiles'
  <2>1. \A p \in {"wal", "checkpoint"} : synced'[p] = Len(Contents(p)')
    BY <1>1, <1>4, EmptyFile DEF DownFiles, Paths
  <2> QED
    BY <1>1, <1>2, <1>6, <2>1 DEF DownFiles
<1> QED
  BY <1>1, <1>2, <1>5, <1>7 DEF RecoveryInv

\* The types that the runs check follow from the invariant.
LEMMA RecoveryTypes ==
    ASSUME RecoveryInv
    PROVE  TypeOK
<1>1. ScalarTypes /\ DiskTypes
  BY DEF RecoveryInv
<1>2. \A log \in Logs : Range(log) \subseteq Commits
  <2> TAKE log \in Logs
  <2>1. DOMAIN log = 1 .. Len(log) /\ \A i \in 1 .. Len(log) : log[i] \in Commits
    BY LogFacts DEF Logs
  <2> QED
    BY <2>1 DEF Range
<1>3. \A es \in Files : Range(es) \subseteq Entries /\ \A i \in Positions(es, "torn") : i = Len(es)
  <2> TAKE es \in Files
  <2>1. DOMAIN es = 1 .. Len(es) /\ \A i \in 1 .. Len(es) : es[i] \in Entries /\ (es[i].type = "torn" => i = Len(es))
    BY FileFacts
  <2> QED
    BY <2>1 DEF Range, Positions
<1>4. \A p \in Paths : /\ disk[p] = NoFile \/ Range(disk[p]) \subseteq Entries
                       /\ synced[p] \in 0 .. Len(Contents(p))
                       /\ \A i \in Positions(Contents(p), "torn") : i = Len(Contents(p))
  <2> TAKE p \in Paths
  <2>1. /\ Contents(p) \in Files /\ (disk[p] # NoFile => disk[p] \in Files)
        /\ synced[p] \in 0 .. Len(Contents(p))
    BY <1>1, ContentsFacts
  <2> QED
    BY <1>3, <2>1
<1>5. wal.size \in 0 .. Len(Contents(wal.path))
  <2>1. wal.path \in Paths /\ wal.size \in Nat /\ wal.size <= Len(Contents(wal.path))
    BY <1>1 DEF ScalarTypes, DiskTypes, Paths
  <2>2. Len(Contents(wal.path)) \in Nat
    BY <1>1, <2>1, ContentsFacts
  <2> QED
    BY <2>1, <2>2
<1> QED
  BY <1>1, <1>2, <1>4, <1>5 DEF ScalarTypes, TypeOK

\* A read-only connection replays what the database would open with.
LEMMA ReadOnlyOutcome ==
    ASSUME RecoveryInv
    PROVE  ReadOnlySeesAcknowledged
<1> SUFFICES ASSUME phase = "down", ~MayBeRefused
             PROVE  ReadOnlyReplay \in {acknowledged, Append(acknowledged, commit.id)}
  BY DEF ReadOnlySeesAcknowledged
<1>1. ScalarTypes /\ Left
  BY DEF RecoveryInv, DownFiles
<1>2. SUFFICES Outcome(ReadOnlyReplay)
  BY <1>2 DEF Outcome
<1>3. file.log \o <<>> = file.log
  BY <1>1, LogConcat DEF ScalarTypes
<1>4. CASE LeftNothing
  BY <1>4 DEF LeftNothing, ReadOnlyReplay
<1>5. ASSUME NEW m \in Logs, LeftCommits(m) PROVE Outcome(ReadOnlyReplay)
  <2>1. /\ disk["wal"] # NoFile /\ disk["wal"] \in Files
        /\ ReplayDecision(disk["wal"], "main_wal") \in {"remove", "replay"}
        /\ ReplayDecision(disk["wal"], "main_wal") = "remove" => m = <<>>
    BY <1>1, <1>5, CommitsDecision DEF ReplayModes
  <2>2. Replayed(disk["wal"]) = m /\ Outcome(file.log \o m)
    BY <1>5, <2>1, ReplayDead DEF LeftCommits
  <2>3. ReadOnlyReplay = file.log \o m
    BY <1>3, <2>1, <2>2 DEF ReadOnlyReplay
  <2> QED
    BY <2>2, <2>3
<1>6. ASSUME NEW m \in Logs, NEW r \in Roots, LeftMarker(m, r) PROVE Outcome(ReadOnlyReplay)
  <2>1. /\ disk["wal"] # NoFile /\ disk["wal"] \in Files
        /\ ReplayDecision(disk["wal"], "main_wal") = IF r = file.root THEN "remove" ELSE "truncate"
    BY <1>1, <1>6, MarkerDecision DEF LeftMarker
  <2>2. Replayed(disk["wal"]) = m /\ Outcome(IF r = file.root THEN file.log ELSE file.log \o m)
    BY <1>6, <2>1, ReplayMarked DEF LeftMarker
  <2>3. ReadOnlyReplay = IF r = file.root THEN file.log ELSE file.log \o m
    BY <2>1, <2>2 DEF ReadOnlyReplay
  <2> QED
    BY <2>2, <2>3
<1>7. ASSUME NEW m \in Logs, NEW c \in Logs, NEW r \in Roots, LeftBoth(m, c, r) PROVE Outcome(ReadOnlyReplay)
  <2>1. /\ disk["wal"] \in Files /\ Closed(disk["wal"], m, r) /\ Marked(disk["wal"], m, r)
        /\ disk["checkpoint"] \in Files /\ disk["checkpoint"] # NoFile /\ Contents("checkpoint") = disk["checkpoint"]
        /\ Dead(disk["checkpoint"], c) /\ Versions(r = file.root)
    BY <1>7, NoFileIsNoFile DEF LeftBoth, Closed, Contents
  <2>2. /\ disk["wal"] # NoFile
        /\ ReplayDecision(disk["wal"], "main_wal") = IF r = file.root THEN "move" ELSE "merge"
    BY <1>1, <2>1, MarkerDecision
  <2>3. /\ Replayed(disk["wal"]) = m /\ AllReplayed(disk["wal"]) /\ Replayed(Contents("checkpoint")) = c
    BY <2>1, ReplayMarked, ReplayDead DEF AllReplayed
  <2>4. ReadOnlyReplay = IF r = file.root THEN file.log \o c ELSE (file.log \o m) \o c
    BY <2>2, <2>3 DEF ReadOnlyReplay
  <2> QED
    BY <1>7, <2>4 DEF LeftBoth
<1> QED
  BY <1>1, <1>4, <1>5, <1>6, <1>7 DEF Left

\* Every step keeps the invariant.
LEMMA NextRecoveryInv ==
    ASSUME RecoveryInv, [Next]_vars
    PROVE  RecoveryInv'
<1>1. CASE \E c \in Commits : WriteToWAL(c) \/ SkipWALWrite(c)
  BY <1>1, WriteToWALStep, SkipWALWriteStep
<1>2. CASE FlushCommit \/ EndCommit \/ RevertCommit
  BY <1>2, FlushCommitStep, EndCommitStep, RevertCommitStep
<1>3. CASE CreateCheckpoint \/ WALStartCheckpoint \/ FlushMarker \/ SwitchWAL
  BY <1>3, CreateCheckpointStep, WALStartCheckpointStep, FlushMarkerStep, SwitchWALStep
<1>4. CASE IncrementIteration \/ WriteHeader \/ WALFinishCheckpoint \/ EndCheckpoint
  BY <1>4, IncrementIterationStep, WriteHeaderStep, WALFinishCheckpointStep, EndCheckpointStep
<1>5. CASE Crash
  BY <1>5, CrashStep
<1>6. CASE LoadDatabase \/ ReplayRemove \/ ReplayEntries \/ ReplayTruncate
  BY <1>6, LoadDatabaseStep, ReplayRemoveStep, ReplayEntriesStep, ReplayTruncateStep
<1>7. CASE MoveCheckpointWAL \/ MergeIntoRecoveryWAL \/ SyncRecoveryWAL
  BY <1>7, MoveCheckpointWALStep, MergeIntoRecoveryWALStep, SyncRecoveryWALStep
<1>8. CASE MoveRecoveryWAL \/ RemoveCheckpointWAL \/ ReplayError
  BY <1>8, MoveRecoveryWALStep, RemoveCheckpointWALStep, ReplayErrorStep
<1>9. CASE UNCHANGED vars
  <2>1. UNCHANGED <<file, disk, synced, wal, wal_lock, iteration_count, committed, acknowledged,
                    commit, checkpoint, phase, commits, checkpoints, behaviours>>
    BY <1>9 DEF vars
  <2>2. ScalarTypes' = ScalarTypes /\ Iterations' = Iterations /\ Numbered' = Numbered /\ Locks' = Locks
    BY <2>1 DEF ScalarTypes, Iterations, Numbered, Locks, Writing
  <2>3. \A p \in Paths : Contents(p)' = Contents(p)
    BY <2>1 DEF Contents
  <2>4. DiskTypes' = DiskTypes
    BY <2>1 DEF DiskTypes, Contents
  <2>5. \A m : Active(m)' = Active(m)
    BY <2>1 DEF Active, Contents, Writing
  <2>6. OpenFiles' = OpenFiles
    BY <2>1, <2>5 DEF OpenFiles, OneWAL, MarkerWritten, TwoWALs, Seen
  <2>7. \A done \in BOOLEAN : Versions(done)' = Versions(done)
    BY <2>1 DEF Versions, VersionIs, HasVersion, MayBeRefused
  <2>8. OpenVersions' = OpenVersions
    BY <2>1 DEF OpenVersions, Versions, VersionIs, HasVersion, MayBeRefused
  <2>9. phase # "open" => DownFiles'
    <3> HAVE phase # "open"
    <3>1. DownFiles
      BY DEF RecoveryInv
    <3>2. \A log : Outcome(log)' = Outcome(log)
      BY <2>1 DEF Outcome
    <3>3. MayBeRefused' = MayBeRefused
      BY <2>1 DEF MayBeRefused
    <3>4. \A p \in Paths : VersionIs(p, file.iteration)' = VersionIs(p, file.iteration)
      BY <2>1 DEF VersionIs, HasVersion
    <3>5. \A m : LeftCommits(m)' = LeftCommits(m)
      BY <2>1, <2>7, <3>2 DEF LeftCommits
    <3>6. \A m, c, r : LeftBoth(m, c, r)' = LeftBoth(m, c, r)
      BY <2>1, <2>7, <3>2 DEF LeftBoth
    <3>7. \A m, c, r : Merged(m, c, r)' = Merged(m, c, r)
      BY <2>1, <3>3, <3>4, <3>6 DEF Merged, Paths
    <3>8. \A m : Moved(m)' = Moved(m)
      BY <2>1, <3>2, <3>3, <3>4 DEF Moved, Paths
    <3>9. phase \in {"down", "main_wal"} => Left'
      BY <2>1, <3>1, LeftKept DEF DownFiles
    <3>10. phase # "failed" => \A p \in {"wal", "checkpoint"} : synced'[p] = Len(Contents(p)')
      BY <2>1, <2>3, <3>1 DEF DownFiles, Paths
    <3> QED
      BY <2>1, <3>1, <3>3, <3>5, <3>7, <3>8, <3>9, <3>10 DEF DownFiles
  <2> QED
    BY <2>1, <2>2, <2>4, <2>6, <2>8, <2>9 DEF RecoveryInv
<1> QED
  BY <1>1, <1>2, <1>3, <1>4, <1>5, <1>6, <1>7, <1>8, <1>9 DEF Next

-----------------------------------------------------------------------------
\* Every step is a step of the durable log, or one that it does not see.
LEMMA StepOfDurableLog ==
    ASSUME RecoveryInv, [Next]_vars
    PROVE  [Promise!Next]_(Promise!vars)
<1> DEFINE Same == /\ acknowledged' = acknowledged /\ commit'.id = commit.id
                   /\ (phase' = "open") = (phase = "open")
<1>1. ScalarTypes /\ Numbered /\ (phase = "open" => Locks)
  BY DEF RecoveryInv
<1>2. SUFFICES Same \/ Promise!Next
  BY <1>2 DEF Promise!vars
<1>3. ASSUME NEW c \in Commits, WriteToWAL(c) \/ SkipWALWrite(c) PROVE Promise!Next
  <2>1. /\ phase = "open" /\ wal_lock = "free" /\ c = commits + 1 /\ commit'.id = c
        /\ UNCHANGED <<acknowledged, phase>>
    BY <1>3 DEF WriteToWAL, SkipWALWrite
  <2>2. commit.id = NoCommit
    <3>1. ~Writing /\ commit.pc # "checkpoint" /\ commit.pc # "crashed"
      BY <1>1, <2>1 DEF Locks
    <3> QED
      BY <1>1, <2>1, <3>1 DEF Locks, Writing, ScalarTypes, CommitPCs
  <2>3. \A i \in DOMAIN acknowledged : acknowledged[i] # c
    <3>1. DOMAIN acknowledged = 1 .. Len(acknowledged) /\ commits \in Nat
      BY <1>1, LogFacts DEF ScalarTypes
    <3>2. \A i \in 1 .. Len(acknowledged) : acknowledged[i] \in Nat /\ acknowledged[i] <= commits
      BY <1>1, <3>1, LogFacts, CommitFacts DEF Numbered, ScalarTypes
    <3> QED
      BY <2>1, <3>1, <3>2
  <2> QED
    BY <2>1, <2>2, <2>3 DEF Promise!Next, Promise!Begin
<1>4. ASSUME FlushCommit PROVE Same
  BY <1>4 DEF FlushCommit
<1>5. ASSUME EndCommit PROVE Promise!Next
  <2>1. commit.id # NoCommit
    BY <1>1, <1>5 DEF EndCommit, Locks
  <2> QED
    BY <1>5, <2>1 DEF EndCommit, NoCommitUnderway, Promise!Next, Promise!Report
<1>6. ASSUME RevertCommit PROVE Promise!Next
  <2>1. commit.id # NoCommit
    BY <1>1, <1>6 DEF RevertCommit, Locks
  <2> QED
    BY <1>6, <2>1 DEF RevertCommit, NoCommitUnderway, Promise!Next, Promise!Fail
<1>7. ASSUME CreateCheckpoint \/ WALStartCheckpoint \/ FlushMarker \/ SwitchWAL PROVE Same
  BY <1>7 DEF CreateCheckpoint, WALStartCheckpoint, FlushMarker, SwitchWAL
<1>8. ASSUME IncrementIteration \/ WriteHeader \/ WALFinishCheckpoint PROVE Same
  BY <1>8 DEF IncrementIteration, WriteHeader, WALFinishCheckpoint
<1>9. ASSUME EndCheckpoint PROVE Same \/ Promise!Next
  <2>1. CASE checkpoint.holds_lock
    <3>1. commit.id # NoCommit
      BY <1>1, <1>9, <2>1 DEF EndCheckpoint, Locks
    <3> QED
      BY <1>9, <2>1, <3>1 DEF EndCheckpoint, NoCommitUnderway, Promise!Next, Promise!Report
  <2>2. CASE ~checkpoint.holds_lock
    BY <1>9, <2>2 DEF EndCheckpoint
  <2> QED
    BY <2>1, <2>2
<1>10. ASSUME Crash PROVE Same \/ Promise!Next
  <2>1. acknowledged' = acknowledged /\ commit'.id = commit.id /\ phase' = "down"
    BY <1>1, <1>10 DEF Crash, ScalarTypes
  <2> QED
    BY <2>1 DEF Promise!Next, Promise!Crash
<1>11. ASSUME ReplayRemove \/ ReplayEntries \/ ReplayTruncate PROVE Promise!Next
  <2>1. Reopened
    BY <1>11, ReplayRemoveStep, ReplayEntriesStep, ReplayTruncateStep
  <2>2. phase # "open"
    BY <1>11 DEF ReplayRemove, ReplayEntries, ReplayTruncate, Decided, ReplayModes
  <2> QED
    BY <2>1, <2>2 DEF Reopened, Promise!Next, Promise!Reopen
<1>12. ASSUME LoadDatabase \/ ReplayError \/ MoveCheckpointWAL \/ MergeIntoRecoveryWAL PROVE Same
  BY <1>12 DEF LoadDatabase, ReplayError, MoveCheckpointWAL, MergeIntoRecoveryWAL, Decided, ReplayModes
<1>13. ASSUME SyncRecoveryWAL \/ MoveRecoveryWAL \/ RemoveCheckpointWAL PROVE Same
  BY <1>13 DEF SyncRecoveryWAL, MoveRecoveryWAL, RemoveCheckpointWAL
<1>14. ASSUME UNCHANGED vars PROVE Same
  BY <1>14 DEF vars
<1> HIDE DEF Same
<1> QED
  BY <1>3, <1>4, <1>5, <1>6, <1>7, <1>8, <1>9, <1>10, <1>11, <1>12, <1>13, <1>14 DEF Next

\* The assumption on the behaviours of a run: no crash comes between the move of the recovery
\* WAL and the removal of the checkpoint WAL that it holds.
NoCrashBeforeRemove == "crash_before_remove" \notin behaviours

\* RecoveryInv holds in every state.
THEOREM RecoveryInvariant == Spec /\ NoCrashBeforeRemove => []RecoveryInv
<1>1. Init /\ NoCrashBeforeRemove => RecoveryInv
  BY InitRecoveryInv DEF NoCrashBeforeRemove
<1>2. RecoveryInv /\ [Next]_vars => RecoveryInv'
  BY NextRecoveryInv
<1> QED
  BY <1>1, <1>2, PTL DEF Spec

\* Types hold and, whatever a crash leaves behind, the replay accepts the files and the database
\* opens, unless one of the two known ways to a WAL that is refused is in play.
THEOREM AnyCrashIsRecoverable == Spec /\ NoCrashBeforeRemove => []DatabaseOpens
<1>1. RecoveryInv => DatabaseOpens
  BY RecoveryTypes DEF RecoveryInv, DownFiles, DatabaseOpens
<1> QED
  BY <1>1, RecoveryInvariant, PTL

\* A read-only connection to what a crash left sees every acknowledged commit, and at most the
\* interrupted one more.
THEOREM ReadOnlyIsComplete == Spec /\ NoCrashBeforeRemove => []ReadOnlySeesAcknowledged
<1>1. RecoveryInv => ReadOnlySeesAcknowledged
  BY ReadOnlyOutcome
<1> QED
  BY <1>1, RecoveryInvariant, PTL

\* Storage implements the durable log: however commits, checkpoints, crashes and replays
\* interleave, a commit that was reported keeps its place, and only the one under way at a
\* crash may be kept or lost.
THEOREM StorageIsDurable == Spec /\ NoCrashBeforeRemove => ImplementsDurableLog
<1>1. Init => Promise!Init
  BY DEF Init, NoCommitUnderway, Promise!Init
<1>2. RecoveryInv /\ [Next]_vars => [Promise!Next]_(Promise!vars)
  BY StepOfDurableLog
<1> QED
  BY <1>1, <1>2, RecoveryInvariant, PTL DEF Spec, ImplementsDurableLog, Promise!Spec
=============================================================================
