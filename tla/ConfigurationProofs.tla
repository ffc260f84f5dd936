------------------------ MODULE ConfigurationProofs ------------------------
(***************************************************************************)
(* Proofs about Configuration, for every set of files and every clock.     *)
(*                                                                         *)
(* The argument: from Load on the configuration is a parsed file that      *)
(* passed validate and never changes.  Both intervals are then positive    *)
(* and the one divides the other, so every segment starts on a boundary of *)
(* the updates interval (Multiples).  Where that is a minute or more, day  *)
(* and minute of its start tell a segment of a stream from every other     *)
(* (PathIsOwn), a replica writes to places of its own (TargetsApart), and  *)
(* so what is once in the archive or at a replica is written over by       *)
(* nothing but itself.                                                     *)
(***************************************************************************)
EXTENDS Configuration, TLAPS, WellFoundedInduction

\* A parsed archive section.
TypedArchive(archive) ==
  /\ archive.updates_interval_secs \in Nat
  /\ archive.ribs_interval_secs \in Nat
  /\ archive.layout_profile \in {"routeviews", "ris", "custom"}
  /\ archive.destinations
       \in Seq({archive.destinations[i] : i \in DOMAIN archive.destinations})
  /\ \A i \in DOMAIN archive.destinations :
       archive.destinations[i].type \in {"local", "s3"}

\* start begins an interval of the stream.
Begins(archive, stream, start) ==
  AlignedEpoch(start, IntervalSecs(archive, stream)) = start

\* A segment as publishing makes it.
SegmentOf(archive, s) ==
  /\ s.stream \in Streams /\ s.start \in Nat
  /\ Begins(archive, s.stream, s.start)
  /\ s = [stream |-> s.stream, start |-> s.start,
          relative |-> RelativePath(archive, s.stream, s.start)]

\* From Load on the configuration is typed and has passed validate.
LoadedIsValid ==
  /\ phase = "reading" => cfg \in Files
  /\ phase \notin {"reading", "refused"} =>
       TypedArchive(cfg.archive) /\ Valid(cfg)

\* Segments and jobs appear when the archive is at work.
AtWork ==
  /\ clock \in Nat
  /\ published # {} =>
       phase \notin {"reading", "refused", "loaded"} /\ cfg.archive.enabled
  /\ jobs # {} => published # {}
  /\ AcceptedStarts
  /\ Archiving =>
       /\ open \in Nat /\ Begins(cfg.archive, "updates", open)
       /\ destinations = DestinationMap(cfg.archive.destinations)

\* A published segment begins an interval of its stream.
PublishedBegin == \A s \in published : SegmentOf(cfg.archive, s)

\* A job is that of a published segment and an async replica.
JobsPublished ==
  \A job \in jobs :
    \E s \in published, key \in DOMAIN destinations :
      /\ destinations[key].mode = "async_replica"
      /\ job = [relative |-> s.relative, key |-> key]

ConfigInv == LoadedIsValid /\ AtWork /\ PublishedBegin /\ JobsPublished

\* ArchiveIntact and ReplicasServed, with the domain of the store.
InStore ==
  phase \in {"archiving", "running"} /\ OneSegmentPerPath(cfg.archive) =>
    \A s \in published :
      LET path == Join(cfg.archive.root, s.relative)
      IN  path \in DOMAIN store /\ store[path] = s

PlacesInv == ConfigInv /\ InStore /\ ReplicasServed

-----------------------------------------------------------------------------
(* Arithmetic.                                                             *)

\* A multiple has no remainder, and what has none is a multiple.
LEMMA Remainder ==
  ASSUME NEW u \in Nat, u # 0, NEW m \in Nat
  PROVE  (u * m) % u = 0
<1> DEFINE x == u * m
           q == x \div u
           t == x % u
<1>1. x \in Nat OBVIOUS
<1> HIDE DEF x
<1>2. q \in Nat /\ t \in Nat /\ t < u /\ x = u * q + t
  BY <1>1
<1> HIDE DEF q, t
<1>3. u * (m - q) = t
  BY <1>2 DEF x
<1>4. CASE m - q >= 1
  <2>1. u * (m - q) >= u
    BY <1>4, <1>2
  <2> QED BY <2>1, <1>3, <1>2
<1>5. CASE m - q <= -1
  <2>1. u * (m - q) <= -u
    BY <1>5, <1>2
  <2> QED BY <2>1, <1>3, <1>2
<1>6. CASE m - q = 0
  BY <1>6, <1>3, <1>2 DEF t, x
<1> QED BY <1>4, <1>5, <1>6, <1>2

\* The start of an interval begins an interval.
LEMMA AlignedBegins ==
  ASSUME NEW c \in Nat, NEW u \in Nat, u # 0
  PROVE  /\ AlignedEpoch(c, u) \in Nat
         /\ AlignedEpoch(AlignedEpoch(c, u), u) = AlignedEpoch(c, u)
<1> DEFINE q == c \div u
<1>1. q \in Nat /\ c % u \in Nat /\ c = (u * q) + (c % u)
  OBVIOUS
<1>2. AlignedEpoch(c, u) = u * q
  BY <1>1 DEF AlignedEpoch
<1>3. u * q \in Nat /\ (u * q) % u = 0
  BY <1>1, Remainder
<1> HIDE DEF q
<1> QED BY <1>2, <1>3 DEF AlignedEpoch

\* Boundaries of the RIB interval are boundaries of the updates interval.
LEMMA Multiples ==
  ASSUME NEW u \in Nat, u # 0, NEW r \in Nat, r # 0, r % u = 0,
         NEW a \in Nat, AlignedEpoch(a, r) = a
  PROVE  AlignedEpoch(a, u) = a
<1> DEFINE k == r \div u
           q == a \div r
<1>1. k \in Nat /\ r = u * k
  OBVIOUS
<1>2. a % r = 0 /\ q \in Nat /\ a = r * q
  BY DEF AlignedEpoch
<1> HIDE DEF k, q
<1>3. k * q \in Nat /\ a = u * (k * q)
  BY <1>1, <1>2
<1>4. a % u = 0
  BY <1>3, Remainder
<1> QED BY <1>4 DEF AlignedEpoch

\* Two boundaries of a minute or more apart differ in day or minute.
LEMMA MinutesApart ==
  ASSUME NEW u \in Nat, u >= 60,
         NEW a \in Nat, AlignedEpoch(a, u) = a,
         NEW b \in Nat, AlignedEpoch(b, u) = b,
         Yyyymmdd(a) = Yyyymmdd(b), Hhmm(a) = Hhmm(b)
  PROVE  a = b
<1>1. a - b < 60 /\ b - a < 60
  BY DEF Yyyymmdd, Hhmm
<1> DEFINE k == a \div u
           l == b \div u
<1>2. k \in Nat /\ a = u * k
  BY DEF AlignedEpoch
<1>3. l \in Nat /\ b = u * l
  BY DEF AlignedEpoch
<1> HIDE DEF k, l
<1>4. u * (k - l) = a - b
  BY <1>2, <1>3
<1>5. CASE k - l >= 1
  <2>1. u * (k - l) >= u
    BY <1>5, <1>2, <1>3
  <2> QED BY <2>1, <1>1, <1>4
<1>6. CASE k - l <= -1
  <2>1. u * (k - l) <= -u
    BY <1>6, <1>2, <1>3
  <2> QED BY <2>1, <1>1, <1>4
<1>7. CASE k - l = 0
  BY <1>7, <1>2, <1>3
<1> QED BY <1>5, <1>6, <1>7, <1>2, <1>3

-----------------------------------------------------------------------------
(* Paths.                                                                  *)

LEMMA PathFields ==
  ASSUME NEW archive, NEW stream, NEW start, Begins(archive, stream, start)
  PROVE  /\ RelativePath(archive, stream, start).yyyymmdd = Yyyymmdd(start)
         /\ RelativePath(archive, stream, start).hhmm = Hhmm(start)
<1>1. CASE archive.layout_profile = "custom"
  BY <1>1 DEF Begins, RelativePath, BuildCustomRelativePath
<1>2. CASE archive.layout_profile # "custom"
  BY <1>2 DEF Begins, RelativePath, BuiltinRelativePath
<1> QED BY <1>1, <1>2

\* Whether a path is absolute is said by the template, whatever the time.
LEMMA AbsoluteByTemplate ==
  ASSUME NEW archive, NEW stream, NEW a, NEW b
  PROVE  RelativePath(archive, stream, a).absolute
           = RelativePath(archive, stream, b).absolute
<1>1. CASE archive.layout_profile = "custom"
  BY <1>1 DEF RelativePath, BuildCustomRelativePath
<1>2. CASE archive.layout_profile # "custom"
  BY <1>2 DEF RelativePath, BuiltinRelativePath
<1> QED BY <1>1, <1>2

\* The paths of the two streams differ, in more than being hidden.
LEMMA StreamsApart ==
  ASSUME NEW archive, TypedArchive(archive), TemplatesApart(archive),
         NEW a, NEW b
  PROVE  LET p == RelativePath(archive, "updates", a)
             q == RelativePath(archive, "ribs", b)
         IN  p.name # q.name \/ p.absolute # q.absolute
<1>1. CASE archive.layout_profile = "custom"
  BY <1>1 DEF RelativePath, BuildCustomRelativePath, TemplatesApart
<1>2. CASE archive.layout_profile = "routeviews"
  BY <1>2 DEF RelativePath, BuiltinRelativePath, ProfileName
<1>3. CASE archive.layout_profile = "ris"
  BY <1>3 DEF RelativePath, BuiltinRelativePath, ProfileName
<1> QED BY <1>1, <1>2, <1>3 DEF TypedArchive

\* Every start is a boundary of the updates interval.
LEMMA OnBoundary ==
  ASSUME NEW archive, TypedArchive(archive), IntervalsValid(archive),
         NEW stream \in Streams, NEW start \in Nat,
         Begins(archive, stream, start)
  PROVE  AlignedEpoch(start, archive.updates_interval_secs) = start
<1>1. CASE stream = "updates"
  BY <1>1 DEF Begins, IntervalSecs
<1>2. CASE stream = "ribs"
  <2>1. AlignedEpoch(start, archive.ribs_interval_secs) = start
    BY <1>2 DEF Begins, IntervalSecs
  <2> QED BY <2>1, Multiples DEF TypedArchive, IntervalsValid
<1> QED BY <1>1, <1>2 DEF Streams

\* Where intervals are a minute or more and the streams have different
\* templates, a path belongs to one segment.
LEMMA PathIsOwn ==
  ASSUME NEW archive, TypedArchive(archive), IntervalsValid(archive),
         OneSegmentPerPath(archive),
         NEW stream \in Streams, NEW start \in Nat,
         Begins(archive, stream, start),
         NEW other \in Streams, NEW begin \in Nat,
         Begins(archive, other, begin),
         RelativePath(archive, stream, start)
           = RelativePath(archive, other, begin)
  PROVE  stream = other /\ start = begin
<1>1. stream = other
  BY StreamsApart DEF OneSegmentPerPath, Streams
<1>2. /\ Yyyymmdd(start) = Yyyymmdd(begin)
      /\ Hhmm(start) = Hhmm(begin)
  BY PathFields
<1>3. /\ AlignedEpoch(start, archive.updates_interval_secs) = start
      /\ AlignedEpoch(begin, archive.updates_interval_secs) = begin
  BY OnBoundary
<1>4. start = begin
  BY <1>2, <1>3, MinutesApart DEF OneSegmentPerPath, TypedArchive
<1> QED BY <1>1, <1>4

-----------------------------------------------------------------------------
(* Destinations and their targets.                                         *)

\* Every key of the map has a last destination.
LEMMA LastOfKey ==
  ASSUME NEW S, NEW seq \in Seq(S), NEW i \in DOMAIN seq
  PROVE  \E k \in DOMAIN seq :
           /\ DestinationKey(seq[k]) = DestinationKey(seq[i])
           /\ \A j \in DOMAIN seq :
                DestinationKey(seq[j]) = DestinationKey(seq[i]) => j <= k
<1> DEFINE Same(j) == j \in DOMAIN seq
                        /\ DestinationKey(seq[j]) = DestinationKey(seq[i])
           Left == {n \in Nat : Same(Len(seq) - n)}
<1>1. Len(seq) \in Nat /\ \A j \in DOMAIN seq : j \in Nat /\ j <= Len(seq)
  OBVIOUS
<1>2. \A j \in Nat : Same(j) => Len(seq) - j \in Left
  <2> SUFFICES ASSUME NEW j \in Nat, Same(j) PROVE Len(seq) - j \in Left
    OBVIOUS
  <2>1. Len(seq) - j \in Nat /\ Len(seq) - (Len(seq) - j) = j
    BY <1>1
  <2> QED BY <2>1
<1>3. Left # {}
  BY <1>1, <1>2
<1>4. PICK n \in Left : \A m \in Left : <<m, n>> \notin OpToRel(<, Nat)
  BY <1>3, WFMin, NatLessThanWellFounded, Zenon
<1>5. \A m \in Left : ~ (m < n)
  BY <1>4, Zenon DEF OpToRel
<1>6. n \in Nat /\ Same(Len(seq) - n)
  OBVIOUS
<1>7. \A j \in DOMAIN seq :
        DestinationKey(seq[j]) = DestinationKey(seq[i]) => j <= Len(seq) - n
  <2> SUFFICES ASSUME NEW j \in DOMAIN seq,
                      DestinationKey(seq[j]) = DestinationKey(seq[i])
               PROVE  j <= Len(seq) - n
    OBVIOUS
  <2>1. j \in Nat /\ Len(seq) - j \in Left
    BY <1>1, <1>2
  <2>2. Len(seq) - j \in Nat /\ ~ (Len(seq) - j < n)
    BY <2>1, <1>5, <1>1
  <2> QED BY <2>1, <2>2, <1>1, <1>6
<1> QED BY <1>6, <1>7

\* The map holds, under a key, a destination of that key.
LEMMA MapHolds ==
  ASSUME NEW S, NEW seq \in Seq(S), NEW key \in DOMAIN DestinationMap(seq)
  PROVE  \E i \in DOMAIN seq :
           /\ DestinationKey(seq[i]) = key
           /\ DestinationMap(seq)[key] = seq[i]
<1>1. key \in {DestinationKey(seq[i]) : i \in DOMAIN seq}
  BY DEF DestinationMap
<1>2. PICK i \in DOMAIN seq : DestinationKey(seq[i]) = key
  BY <1>1
<1> DEFINE Last(k) ==
             /\ DestinationKey(seq[k]) = key
             /\ \A j \in DOMAIN seq : DestinationKey(seq[j]) = key => j <= k
<1>3. \E k \in DOMAIN seq : Last(k)
  BY <1>2, LastOfKey
<1>4. DestinationMap(seq)[key] = seq[CHOOSE k \in DOMAIN seq : Last(k)]
  BY <1>1 DEF DestinationMap
<1>5. (CHOOSE k \in DOMAIN seq : Last(k)) \in DOMAIN seq
        /\ Last(CHOOSE k \in DOMAIN seq : Last(k))
  <2> HIDE DEF Last
  <2> QED BY <1>3
<1> QED BY <1>4, <1>5

\* A destination alone at its place is in the map.
LEMMA OwnPlaceMapped ==
  ASSUME NEW archive, TypedArchive(archive),
         NEW i \in DOMAIN archive.destinations, OwnPlace(archive, i)
  PROVE  LET seq == archive.destinations
             key == DestinationKey(seq[i])
         IN  /\ key \in DOMAIN DestinationMap(seq)
             /\ DestinationMap(seq)[key] = seq[i]
             /\ \A j \in DOMAIN seq : DestinationKey(seq[j]) = key => j = i
<1> DEFINE seq == archive.destinations
           key == DestinationKey(seq[i])
<1>1. \A j \in DOMAIN seq : DestinationKey(seq[j]) = key => j = i
  <2> SUFFICES ASSUME NEW j \in DOMAIN seq, DestinationKey(seq[j]) = key
               PROVE  j = i
    OBVIOUS
  <2>1. seq[i].type \in {"local", "s3"} /\ seq[j].type \in {"local", "s3"}
    BY DEF TypedArchive
  <2>2. SamePlace(seq[i], seq[j])
    BY <2>1 DEF SamePlace, DestinationKey
  <2> QED BY <2>2 DEF OwnPlace
<1>2. key \in DOMAIN DestinationMap(seq)
  BY DEF DestinationMap
<1>3. \E j \in DOMAIN seq :
        DestinationKey(seq[j]) = key /\ DestinationMap(seq)[key] = seq[j]
  BY <1>2, MapHolds DEF TypedArchive
<1> QED BY <1>1, <1>2, <1>3

\* A local replica of an archive with CopiesElsewhere has another root, which
\* no template escapes.
LEMMA LocalElsewhere ==
  ASSUME NEW archive, CopiesElsewhere(archive),
         NEW i \in DOMAIN archive.destinations,
         archive.destinations[i].mode = "async_replica",
         archive.destinations[i].type = "local",
         NEW stream \in Streams, NEW start
  PROVE  /\ ~ RelativePath(archive, stream, start).absolute
         /\ archive.destinations[i].path # archive.root
<1> DEFINE d == archive.destinations[i]
           rel == RelativePath(archive, stream, 0)
<1>1. Join(d.path, rel) # Join(archive.root, rel)
  BY DEF CopiesElsewhere, Target, FinalPath
<1>2. ~ rel.absolute /\ d.path # archive.root
  BY <1>1 DEF Join
<1> QED BY <1>2, AbsoluteByTemplate

\* A copy goes to no path of the archive.
LEMMA CopyElsewhere ==
  ASSUME NEW archive, CopiesElsewhere(archive),
         NEW i \in DOMAIN archive.destinations,
         archive.destinations[i].mode = "async_replica",
         NEW stream \in Streams, NEW start, NEW rel
  PROVE  Target(archive.destinations[i], RelativePath(archive, stream, start))
           # Join(archive.root, rel)
<1> DEFINE d == archive.destinations[i]
           own == RelativePath(archive, stream, start)
<1>1. CASE d.type = "local"
  <2>1. ~ own.absolute /\ d.path # archive.root
    BY <1>1, LocalElsewhere
  <2> HIDE DEF own, d
  <2>2. Join(d.path, own) = <<"file", d.path, own>>
    BY <2>1 DEF Join
  <2>3. Join(archive.root, rel)
          = <<"file", IF rel.absolute THEN "/" ELSE archive.root, rel>>
    BY DEF Join
  <2>4. Join(d.path, own) # Join(archive.root, rel)
    BY <2>1, <2>2, <2>3
  <2> QED BY <1>1, <2>4 DEF Target, d, own
<1>2. CASE d.type # "local"
  <2> HIDE DEF own, d
  <2>1. Target(d, own)
          = <<"object", d.endpoint, d.bucket, ObjectKey(d.prefix, own)>>
    BY <1>2 DEF Target
  <2>2. Target(d, own) # Join(archive.root, rel)
    BY <2>1 DEF Join
  <2> QED BY <2>2 DEF d, own
<1> QED BY <1>1, <1>2

\* What one destination holds of two segments is at two places.
LEMMA TargetIsOwn ==
  ASSUME NEW d, NEW rel, NEW other, Target(d, rel) = Target(d, other)
  PROVE  rel = other
<1>1. CASE d.type = "local"
  BY <1>1 DEF Target, Join
<1>2. CASE d.type # "local"
  <2>1. ObjectKey(d.prefix, rel) = ObjectKey(d.prefix, other)
    BY <1>2 DEF Target
  <2> QED BY <2>1 DEF ObjectKey
<1> QED BY <1>1, <1>2

\* A destination alone at its place shares no target with another.
LEMMA TargetsApart ==
  ASSUME NEW archive, TypedArchive(archive), CopiesElsewhere(archive),
         NEW i \in DOMAIN archive.destinations, OwnPlace(archive, i),
         NEW j \in DOMAIN archive.destinations, j # i,
         archive.destinations[j].mode = "async_replica",
         NEW stream \in Streams, NEW start,
         NEW other \in Streams, NEW begin
  PROVE  Target(archive.destinations[i], RelativePath(archive, stream, start))
           # Target(archive.destinations[j], RelativePath(archive, other, begin))
<1> DEFINE d == archive.destinations[i]
           e == archive.destinations[j]
           p == RelativePath(archive, stream, start)
           q == RelativePath(archive, other, begin)
<1>1. ~ SamePlace(d, e) /\ d.mode = "async_replica"
  BY DEF OwnPlace
<1>2. d.type \in {"local", "s3"} /\ e.type \in {"local", "s3"}
  BY DEF TypedArchive
<1>3. d.type = "local" => ~ p.absolute
  BY <1>1, LocalElsewhere
<1>4. e.type = "local" => ~ q.absolute
  BY LocalElsewhere
<1> HIDE DEF d, e, p, q
<1>5. CASE d.type = "local" /\ e.type = "local"
  BY <1>1, <1>3, <1>4, <1>5 DEF Target, Join, SamePlace, d, e, p, q
<1>6. CASE d.type = "s3" /\ e.type = "s3"
  BY <1>1, <1>6 DEF Target, SamePlace, d, e, p, q
<1>7. CASE d.type = "local" /\ e.type = "s3"
  BY <1>7 DEF Target, Join, d, e, p, q
<1>8. CASE d.type = "s3" /\ e.type = "local"
  BY <1>8 DEF Target, Join, d, e, p, q
<1> QED BY <1>2, <1>5, <1>6, <1>7, <1>8

-----------------------------------------------------------------------------
(* What publishing and copying write.                                      *)

LEMMA OverrideFirst ==
  ASSUME NEW f, NEW g, NEW x \in DOMAIN f
  PROVE  x \in DOMAIN Override(f, g) /\ Override(f, g)[x] = f[x]
BY DEF Override

LEMMA OverrideSecond ==
  ASSUME NEW f, NEW g, NEW x \in DOMAIN g, x \notin DOMAIN f
  PROVE  x \in DOMAIN Override(f, g) /\ Override(f, g)[x] = g[x]
BY DEF Override

LEMMA StoredIs ==
  ASSUME NEW segments, segments = {} \/ \E s : segments = {s}
  PROVE  /\ DOMAIN Stored(segments)
              = {Join(cfg.archive.root, s.relative) : s \in segments}
         /\ \A s \in segments :
              Stored(segments)[Join(cfg.archive.root, s.relative)] = s
<1>1. DOMAIN Stored(segments)
        = {Join(cfg.archive.root, s.relative) : s \in segments}
  BY DEF Stored
<1>2. ASSUME NEW s \in segments
      PROVE  Stored(segments)[Join(cfg.archive.root, s.relative)] = s
  <2>1. segments = {s}
    BY <1>2
  <2>2. (CHOOSE t \in {s} : Join(cfg.archive.root, t.relative)
                              = Join(cfg.archive.root, s.relative)) = s
    OBVIOUS
  <2> QED BY <2>1, <2>2 DEF Stored
<1> QED BY <1>1, <1>2

\* The path of a segment in the archive names the segment.
LEMMA FinalPathIsOwn ==
  ASSUME NEW archive, TypedArchive(archive), IntervalsValid(archive),
         OneSegmentPerPath(archive),
         NEW s, SegmentOf(archive, s), NEW t, SegmentOf(archive, t),
         s.relative = t.relative
  PROVE  s = t
<1>1. s.relative = RelativePath(archive, s.stream, s.start)
  BY DEF SegmentOf
<1>2. t.relative = RelativePath(archive, t.stream, t.start)
  BY DEF SegmentOf
<1>3. s.stream = t.stream /\ s.start = t.start
  BY <1>1, <1>2, PathIsOwn DEF SegmentOf
<1> QED BY <1>3 DEF SegmentOf

-----------------------------------------------------------------------------
(* Each action preserves ConfigInv.                                        *)

LEMMA ValidIntervals ==
  ASSUME NEW c, Valid(c), c.archive.enabled
  PROVE  IntervalsValid(c.archive)
BY DEF Valid, ArchiveValid

\* Of what the archive needs of a template, validate leaves out the file name.
LEMMA ValidTemplates ==
  ASSUME NEW c, Valid(c), c.archive.enabled, NEW stream \in Streams,
         CustomPathFails(c.archive, stream)
  PROVE  /\ c.archive.layout_profile = "custom"
         /\ c.archive.custom_templates[stream].up
BY DEF Valid, ArchiveValid, TemplatesValid, CustomPathFails

LEMMA ConfigInit == Init => ConfigInv
BY InstantsAssumption
   DEF Init, ConfigInv, LoadedIsValid, AtWork, PublishedBegin, JobsPublished,
       Archiving, AcceptedStarts

LEMMA LoadConfig == ConfigInv /\ Load => ConfigInv'
<1> SUFFICES ASSUME ConfigInv, Load PROVE ConfigInv'
  OBVIOUS
<1> USE DEF ConfigInv
<1>1. published = {} /\ jobs = {} /\ cfg \in Files
  BY DEF Load, AtWork, LoadedIsValid
<1>2. TypedArchive(Parsed(cfg).archive)
  BY <1>1, FilesAssumption DEF TypedArchive
<1>3. LoadedIsValid'
  BY <1>2 DEF Load, LoadedIsValid
<1>4. AtWork'
  BY <1>1 DEF Load, AtWork, Archiving, AcceptedStarts, archiveVars
<1>5. PublishedBegin' /\ JobsPublished'
  BY <1>1 DEF Load, archiveVars, PublishedBegin, JobsPublished
<1> QED BY <1>3, <1>4, <1>5

\* A step of main after Load that leaves segments and jobs alone.
LEMMA MainConfig ==
  ASSUME ConfigInv, phase' \notin {"reading", "loaded"},
         phase' = "refused" => published = {},
         phase \notin {"reading", "refused"} \/ phase' = "refused",
         UNCHANGED <<cfg, clock, published, jobs>>,
         jobs # {} => destinations' = destinations,
         AcceptedStarts',
         Archiving' => /\ open' \in Nat /\ Begins(cfg.archive, "updates", open')
                       /\ destinations' = DestinationMap(cfg.archive.destinations)
  PROVE  ConfigInv'
<1> USE DEF ConfigInv
<1>1. LoadedIsValid'
  BY DEF LoadedIsValid
<1>2. AtWork'
  BY DEF AtWork
<1>3. PublishedBegin'
  BY DEF PublishedBegin
<1>4. JobsPublished'
  <2>1. CASE jobs = {}
    BY <2>1 DEF JobsPublished
  <2>2. CASE jobs # {}
    BY <2>2 DEF JobsPublished
  <2> QED BY <2>1, <2>2
<1> QED BY <1>1, <1>2, <1>3, <1>4

LEMMA RefuseConfig == ConfigInv /\ Refuse => ConfigInv'
<1> SUFFICES ASSUME ConfigInv, Refuse PROVE ConfigInv'
  OBVIOUS
<1>1. published = {}
  BY DEF ConfigInv, AtWork, Refuse
<1> QED BY <1>1, MainConfig DEF Refuse, archiveVars, Archiving, AcceptedStarts

LEMMA StartArchiveConfig == ConfigInv /\ StartArchive => ConfigInv'
<1> SUFFICES ASSUME ConfigInv, StartArchive PROVE ConfigInv'
  OBVIOUS
<1>1. jobs = {} /\ clock \in Nat /\ TypedArchive(cfg.archive) /\ Valid(cfg)
  BY DEF ConfigInv, AtWork, LoadedIsValid, StartArchive
<1>2. ASSUME cfg.archive.enabled
      PROVE  /\ open' \in Nat /\ Begins(cfg.archive, "updates", open')
             /\ destinations' = DestinationMap(cfg.archive.destinations)
  <2>1. IntervalsValid(cfg.archive)
    BY <1>1, <1>2, ValidIntervals
  <2>2. /\ cfg.archive.updates_interval_secs \in Nat
        /\ cfg.archive.updates_interval_secs # 0
    BY <1>1, <2>1 DEF TypedArchive, IntervalsValid
  <2>3. /\ open' = AlignedEpoch(clock, cfg.archive.updates_interval_secs)
        /\ destinations' = DestinationMap(cfg.archive.destinations)
    BY <1>2 DEF StartArchive
  <2>4. open' \in Nat /\ Begins(cfg.archive, "updates", open')
    BY <1>1, <2>2, <2>3, AlignedBegins DEF Begins, IntervalSecs
  <2> QED BY <2>3, <2>4
<1>3. /\ phase = "loaded" /\ phase' = "archiving"
      /\ UNCHANGED <<cfg, clock, published, jobs>>
  BY DEF StartArchive
<1> QED BY <1>1, <1>2, <1>3, MainConfig DEF Archiving, AcceptedStarts

LEMMA StartArchiveFailsConfig == ConfigInv /\ StartArchiveFails => ConfigInv'
<1> SUFFICES ASSUME ConfigInv, StartArchiveFails PROVE ConfigInv'
  OBVIOUS
<1>1. Valid(cfg)
  BY DEF ConfigInv, LoadedIsValid, StartArchiveFails
<1>2. cfg.global.router_id = "ok"
  BY <1>1 DEF Valid
<1>3. ASSUME cfg.archive.enabled, CustomPathFails(cfg.archive, "updates")
      PROVE  /\ cfg.archive.layout_profile = "custom"
             /\ cfg.archive.custom_templates.updates.up
  BY <1>1, <1>3, ValidTemplates DEF Streams
<1>4. /\ phase = "loaded"
      /\ \/ Fails("io")
         \/ /\ Fails("template")
            /\ cfg.archive.layout_profile = "custom"
            /\ cfg.archive.custom_templates.updates.up
  BY <1>2, <1>3 DEF StartArchiveFails
<1>5. /\ phase' = "failed"
      /\ UNCHANGED <<cfg, clock, destinations, published, jobs>>
  BY <1>4 DEF Fails, archiveVars
<1>6. AcceptedStarts'
  BY <1>4, <1>5 DEF Fails, AcceptedStarts
<1> QED BY <1>4, <1>5, <1>6, MainConfig DEF Archiving

LEMMA StartBgpConfig == ConfigInv /\ StartBgp => ConfigInv'
<1> SUFFICES ASSUME ConfigInv, StartBgp PROVE ConfigInv'
  OBVIOUS
<1>1. /\ phase = "archiving" /\ phase' = "running"
      /\ UNCHANGED <<cfg, clock, published, jobs, open, destinations>>
  BY DEF StartBgp, archiveVars
<1>2. cfg.archive.enabled =>
        /\ open \in Nat /\ Begins(cfg.archive, "updates", open)
        /\ destinations = DestinationMap(cfg.archive.destinations)
  BY <1>1 DEF ConfigInv, AtWork, Archiving
<1> QED BY <1>1, <1>2, MainConfig DEF Archiving, AcceptedStarts

LEMMA StartBgpFailsConfig == ConfigInv /\ StartBgpFails => ConfigInv'
<1> SUFFICES ASSUME ConfigInv, StartBgpFails PROVE ConfigInv'
  OBVIOUS
<1>1. phase = "archiving" /\ Valid(cfg)
  BY DEF ConfigInv, LoadedIsValid, StartBgpFails
<1>2. \A prefix \in cfg.prefixes : prefix.network = "ok"
  BY <1>1 DEF Valid
<1>3. \/ Fails("io")
      \/ /\ Fails("next_hop")
         /\ \E prefix \in cfg.prefixes : prefix.next_hop \notin {None, "ok"}
  BY <1>2 DEF StartBgpFails
<1>4. /\ phase' = "failed"
      /\ UNCHANGED <<cfg, clock, destinations, published, jobs>>
  BY <1>3 DEF Fails, archiveVars
<1>5. AcceptedStarts'
  BY <1>3, <1>4 DEF Fails, AcceptedStarts
<1> QED BY <1>1, <1>4, <1>5, MainConfig DEF Archiving

\* The segments tick publishes.
LEMMA TickSegments ==
  ASSUME ConfigInv, Tick
  PROVE  \E updates, ribs :
           /\ updates = {} \/ \E s : updates = {s}
           /\ ribs = {} \/ \E s : ribs = {s}
           /\ \A s \in updates \cup ribs : SegmentOf(cfg.archive, s)
           /\ PublishAll(updates, ribs)
<1> DEFINE u == cfg.archive.updates_interval_secs
           r == cfg.archive.ribs_interval_secs
           bucket == AlignedEpoch(clock, u)
           ribBucket == AlignedEpoch(clock, r)
           updates == IF open = bucket THEN {} ELSE {Segment("updates", open)}
           snapshot == /\ lastRib # ribBucket
                       /\ ~ CustomPathFails(cfg.archive, "ribs")
           ribs == IF snapshot THEN {Segment("ribs", ribBucket)} ELSE {}
<1>1. /\ clock \in Nat /\ TypedArchive(cfg.archive) /\ Valid(cfg)
      /\ cfg.archive.enabled
      /\ open \in Nat /\ Begins(cfg.archive, "updates", open)
  BY DEF ConfigInv, AtWork, LoadedIsValid, Tick, Archiving
<1>2. r \in Nat /\ r # 0
  BY <1>1, ValidIntervals DEF TypedArchive, IntervalsValid
<1>3. ribBucket \in Nat /\ Begins(cfg.archive, "ribs", ribBucket)
  BY <1>1, <1>2, AlignedBegins DEF Begins, IntervalSecs
<1>4. PublishAll(updates, ribs)
  BY DEF Tick
<1> HIDE DEF bucket, ribBucket, snapshot
<1>5. SegmentOf(cfg.archive, Segment("updates", open))
  BY <1>1 DEF SegmentOf, Segment, Streams
<1>6. SegmentOf(cfg.archive, Segment("ribs", ribBucket))
  BY <1>3 DEF SegmentOf, Segment, Streams
<1>7. \A s \in updates \cup ribs : SegmentOf(cfg.archive, s)
  BY <1>5, <1>6
<1>8. /\ updates = {} \/ \E s : updates = {s}
      /\ ribs = {} \/ \E s : ribs = {s}
  OBVIOUS
<1> HIDE DEF updates, ribs
<1> QED BY <1>4, <1>7, <1>8

LEMMA TickConfig == ConfigInv /\ Tick => ConfigInv'
<1> SUFFICES ASSUME ConfigInv, Tick PROVE ConfigInv'
  OBVIOUS
<1>1. PICK updates, ribs :
        /\ \A s \in updates \cup ribs : SegmentOf(cfg.archive, s)
        /\ PublishAll(updates, ribs)
  BY TickSegments
<1>2. /\ UNCHANGED <<cfg, phase, reason, clock, destinations>> /\ Archiving
      /\ open' = AlignedEpoch(clock, cfg.archive.updates_interval_secs)
  BY DEF Tick
<1> USE DEF ConfigInv
<1>3. LoadedIsValid'
  BY <1>2 DEF LoadedIsValid
<1>4. /\ clock \in Nat
      /\ cfg.archive.updates_interval_secs \in Nat \ {0}
  <2>1. clock \in Nat /\ TypedArchive(cfg.archive) /\ Valid(cfg)
    BY <1>2 DEF AtWork, LoadedIsValid, Archiving
  <2> QED BY <2>1, <1>2, ValidIntervals
          DEF TypedArchive, IntervalsValid, Archiving
<1>5. open' \in Nat /\ Begins(cfg.archive, "updates", open')
  BY <1>2, <1>4, AlignedBegins DEF Begins, IntervalSecs
<1>6. jobs' # {} => published' # {}
  BY <1>1 DEF PublishAll, JobsFor, AtWork
<1>7. AtWork'
  BY <1>2, <1>4, <1>5, <1>6 DEF AtWork, Archiving, AcceptedStarts
<1>8. PublishedBegin'
  BY <1>1, <1>2 DEF PublishAll, PublishedBegin
<1>9. JobsPublished'
  <2> SUFFICES ASSUME NEW job \in jobs'
               PROVE  \E s \in published', key \in DOMAIN destinations :
                        /\ destinations[key].mode = "async_replica"
                        /\ job = [relative |-> s.relative, key |-> key]
    BY <1>2 DEF JobsPublished
  <2>1. CASE job \in jobs
    BY <2>1, <1>1 DEF JobsPublished, PublishAll
  <2>2. CASE job \in JobsFor(updates \cup ribs)
    BY <2>2, <1>1 DEF JobsFor, PublishAll
  <2> QED BY <2>1, <2>2, <1>1 DEF PublishAll
<1> QED BY <1>3, <1>7, <1>8, <1>9

LEMMA ProcessJobConfig == ConfigInv /\ ProcessJob => ConfigInv'
<1> SUFFICES ASSUME ConfigInv, ProcessJob PROVE ConfigInv'
  OBVIOUS
<1>1. /\ UNCHANGED <<cfg, phase, reason, clock, destinations, open, published>>
      /\ jobs' \subseteq jobs /\ jobs # {}
  BY DEF ProcessJob
<1> USE DEF ConfigInv
<1>2. LoadedIsValid'
  BY <1>1 DEF LoadedIsValid
<1>3. AtWork'
  BY <1>1 DEF AtWork, Archiving, AcceptedStarts
<1>4. PublishedBegin' /\ JobsPublished'
  BY <1>1 DEF PublishedBegin, JobsPublished
<1> QED BY <1>2, <1>3, <1>4

LEMMA ClockConfig == ConfigInv /\ ClockAdvances => ConfigInv'
<1> SUFFICES ASSUME ConfigInv, ClockAdvances PROVE ConfigInv'
  OBVIOUS
<1>1. /\ UNCHANGED <<cfg, phase, reason, destinations, open, published, jobs>>
      /\ clock' \in Nat
  BY InstantsAssumption DEF ClockAdvances, archiveVars
<1> USE DEF ConfigInv
<1>2. LoadedIsValid'
  BY <1>1 DEF LoadedIsValid
<1>3. AtWork'
  BY <1>1 DEF AtWork, Archiving, AcceptedStarts
<1>4. PublishedBegin' /\ JobsPublished'
  BY <1>1 DEF PublishedBegin, JobsPublished
<1> QED BY <1>2, <1>3, <1>4

LEMMA ConfigStutter == ConfigInv /\ UNCHANGED vars => ConfigInv'
BY DEF ConfigInv, vars, LoadedIsValid, AtWork, PublishedBegin, JobsPublished,
       Archiving, AcceptedStarts

LEMMA ConfigStep == ConfigInv /\ [Next]_vars => ConfigInv'
BY LoadConfig, RefuseConfig, StartArchiveConfig, StartArchiveFailsConfig,
   StartBgpConfig, StartBgpFailsConfig, TickConfig, ProcessJobConfig,
   ClockConfig, ConfigStutter DEF Next

\* From Load on main works with a configuration validate has accepted, and
\* segments begin intervals of their streams (config/mod.rs:20-29).
THEOREM ConfigInvariant == Spec => []ConfigInv
BY ConfigInit, ConfigStep, PTL DEF Spec

\* main ends, after a configuration was accepted, only for a next_hop that does
\* not parse, a template of the updates stream that renders to no file name or
\* an error of the file system (focld.rs:30-49, layout.rs:140).
THEOREM AcceptedCanStart == Spec => []AcceptedStarts
<1>1. ConfigInv => AcceptedStarts
  BY DEF ConfigInv, AtWork
<1> QED BY <1>1, ConfigInvariant, PTL

\* Every snapshot starts on a boundary of the updates interval, for every
\* pair of intervals validate accepts (config/mod.rs:239-247).
THEOREM SnapshotsBeginUpdates == Spec => []SnapshotsOnBoundary
<1>1. ConfigInv => SnapshotsOnBoundary
  <2> SUFFICES ASSUME ConfigInv, NEW s \in published
               PROVE  AlignedEpoch(s.start, cfg.archive.updates_interval_secs)
                        = s.start
    BY DEF SnapshotsOnBoundary
  <2>1. TypedArchive(cfg.archive) /\ Valid(cfg) /\ cfg.archive.enabled
    BY DEF ConfigInv, AtWork, LoadedIsValid
  <2>2. IntervalsValid(cfg.archive)
    BY <2>1, ValidIntervals
  <2>3. SegmentOf(cfg.archive, s)
    BY DEF ConfigInv, PublishedBegin
  <2> QED BY <2>1, <2>2, <2>3, OnBoundary DEF SegmentOf
<1> QED BY <1>1, ConfigInvariant, PTL

-----------------------------------------------------------------------------
(* Each action preserves PlacesInv.                                        *)

\* What the proofs below know of a daemon whose archive is at work.
LEMMA WorkingArchive ==
  ASSUME ConfigInv, phase \in {"archiving", "running"}, cfg.archive.enabled
  PROVE  /\ TypedArchive(cfg.archive) /\ IntervalsValid(cfg.archive)
         /\ destinations = DestinationMap(cfg.archive.destinations)
<1>1. TypedArchive(cfg.archive) /\ Valid(cfg)
  BY DEF ConfigInv, LoadedIsValid
<1>2. IntervalsValid(cfg.archive)
  BY <1>1, ValidIntervals
<1> QED BY <1>1, <1>2 DEF ConfigInv, AtWork, Archiving

\* A step in which nothing has been published yet, or nothing is touched.
LEMMA PlacesFrame ==
  ASSUME PlacesInv, ConfigInv',
         \/ published' = {}
         \/ /\ UNCHANGED <<cfg, published, jobs, store>>
            /\ phase' \in {"archiving", "running"} =>
                 phase \in {"archiving", "running"}
  PROVE  PlacesInv'
<1>1. CASE published' = {}
  BY <1>1 DEF PlacesInv, InStore, ReplicasServed
<1>2. CASE /\ UNCHANGED <<cfg, published, jobs, store>>
           /\ phase' \in {"archiving", "running"} =>
                phase \in {"archiving", "running"}
  <2>1. InStore'
    BY <1>2 DEF PlacesInv, InStore
  <2>2. ReplicasServed'
    BY <1>2 DEF PlacesInv, ReplicasServed
  <2> QED BY <2>1, <2>2 DEF PlacesInv
<1> QED BY <1>1, <1>2

LEMMA TickPlaces == PlacesInv /\ Tick => PlacesInv'
<1> SUFFICES ASSUME PlacesInv, Tick PROVE PlacesInv'
  OBVIOUS
<1> SUFFICES ASSUME phase \in {"archiving", "running"},
                    OneSegmentPerPath(cfg.archive)
             PROVE  InStore' /\ ReplicasServed'
  <2>1. ConfigInv'
    BY TickConfig DEF PlacesInv
  <2>2. UNCHANGED <<cfg, phase>>
    BY DEF Tick
  <2> QED BY <2>1, <2>2 DEF PlacesInv, InStore, ReplicasServed
<1> DEFINE archive == cfg.archive
           Path(s) == Join(archive.root, s.relative)
<1>1. PICK updates, ribs :
        /\ updates = {} \/ \E s : updates = {s}
        /\ ribs = {} \/ \E s : ribs = {s}
        /\ \A s \in updates \cup ribs : SegmentOf(archive, s)
        /\ PublishAll(updates, ribs)
  BY TickSegments DEF PlacesInv
<1>2. /\ published' = published \cup updates \cup ribs
      /\ store' = Override(Stored(ribs), Override(Stored(updates), store))
      /\ jobs' = jobs \cup JobsFor(updates \cup ribs)
  BY <1>1 DEF PublishAll
<1>3. UNCHANGED <<cfg, phase, destinations>> /\ archive.enabled
  BY DEF Tick, Archiving
<1>4. /\ TypedArchive(archive) /\ IntervalsValid(archive)
      /\ destinations = DestinationMap(archive.destinations)
  BY <1>3, WorkingArchive DEF PlacesInv
<1>5. \A s \in published' : SegmentOf(archive, s)
  BY <1>1, <1>2 DEF PlacesInv, ConfigInv, PublishedBegin
<1>6. /\ DOMAIN Stored(updates) = {Path(s) : s \in updates}
      /\ \A s \in updates : Stored(updates)[Path(s)] = s
  BY <1>1, StoredIs
<1>7. /\ DOMAIN Stored(ribs) = {Path(s) : s \in ribs}
      /\ \A s \in ribs : Stored(ribs)[Path(s)] = s
  BY <1>1, StoredIs
<1> HIDE DEF archive
<1>8. ASSUME NEW t \in published'
      PROVE  Path(t) \in DOMAIN store' /\ store'[Path(t)] = t
  <2>1. \A s \in published' : Path(s) = Path(t) => s = t
    <3> SUFFICES ASSUME NEW s \in published', Path(s) = Path(t) PROVE s = t
      OBVIOUS
    <3>1. s.relative = t.relative
      BY DEF Join
    <3> QED BY <3>1, <1>4, <1>5, FinalPathIsOwn DEF archive
  <2> HIDE DEF Path
  <2>2. CASE Path(t) \in DOMAIN Stored(ribs)
    <3>1. t \in ribs
      BY <2>1, <2>2, <1>2, <1>7
    <3> QED BY <3>1, <2>2, <1>2, <1>7, OverrideFirst, OverrideSecond
  <2>3. CASE Path(t) \notin DOMAIN Stored(ribs)
               /\ Path(t) \in DOMAIN Stored(updates)
    <3>1. t \in updates
      BY <2>1, <2>3, <1>2, <1>6
    <3>2. /\ Path(t) \in DOMAIN Override(Stored(updates), store)
          /\ Override(Stored(updates), store)[Path(t)] = t
      BY <3>1, <2>3, <1>6, OverrideFirst, OverrideSecond
    <3> QED BY <3>2, <2>3, <1>2, OverrideFirst, OverrideSecond
  <2>4. CASE Path(t) \notin DOMAIN Stored(ribs)
               /\ Path(t) \notin DOMAIN Stored(updates)
    <3>1. t \in published
      BY <2>4, <1>2, <1>6, <1>7
    <3>2. Path(t) \in DOMAIN store /\ store[Path(t)] = t
      BY <3>1 DEF PlacesInv, InStore, Path, archive
    <3>3. /\ Path(t) \in DOMAIN Override(Stored(updates), store)
          /\ Override(Stored(updates), store)[Path(t)] = t
      BY <3>2, <2>4, OverrideFirst, OverrideSecond
    <3> QED BY <3>3, <2>4, <1>2, OverrideFirst, OverrideSecond
  <2> QED BY <2>2, <2>3, <2>4
<1>9. ASSUME NEW t \in published', NEW i \in DOMAIN archive.destinations,
             OwnPlace(archive, i)
      PROVE  LET d == archive.destinations[i]
                 target == Target(d, t.relative)
             IN  \/ [relative |-> t.relative, key |-> DestinationKey(d)]
                      \in jobs'
                 \/ target \in DOMAIN store' /\ store'[target] = t
  <2> DEFINE d == archive.destinations[i]
             target == Target(d, t.relative)
             job == [relative |-> t.relative, key |-> DestinationKey(d)]
  <2>1. CASE t \in updates \cup ribs
    <3>1. /\ DestinationKey(d) \in DOMAIN destinations
          /\ destinations[DestinationKey(d)] = d
      BY <1>4, <1>9, OwnPlaceMapped
    <3>2. d.mode = "async_replica"
      BY <1>9 DEF OwnPlace
    <3>3. job \in JobsFor(updates \cup ribs)
      BY <2>1, <3>1, <3>2 DEF JobsFor
    <3> QED BY <3>3, <1>2
  <2>2. CASE t \in published
    <3>1. job \in jobs \/ (target \in DOMAIN store /\ store[target] = t)
      BY <2>2, <1>9 DEF PlacesInv, ReplicasServed, archive
    <3>2. CASE job \in jobs
      BY <3>2, <1>2
    <3>3. CASE target \in DOMAIN store /\ store[target] = t
      <4>1. d.mode = "async_replica" /\ CopiesElsewhere(archive)
        BY <1>9 DEF OwnPlace, OneSegmentPerPath, archive
      <4>2. /\ t.relative = RelativePath(archive, t.stream, t.start)
            /\ t.stream \in Streams
        BY <1>5 DEF SegmentOf
      <4>3. \A s : target # Path(s)
        BY <4>1, <4>2, CopyElsewhere
      <4> HIDE DEF target, Path
      <4>4. target \notin DOMAIN Stored(ribs)
              /\ target \notin DOMAIN Stored(updates)
        BY <4>3, <1>6, <1>7
      <4>5. /\ target \in DOMAIN Override(Stored(updates), store)
            /\ Override(Stored(updates), store)[target] = t
        BY <4>4, <3>3, OverrideFirst, OverrideSecond
      <4>6. target \in DOMAIN store' /\ store'[target] = t
        BY <4>4, <4>5, <1>2, OverrideFirst, OverrideSecond
      <4> QED BY <4>6 DEF target
    <3> QED BY <3>1, <3>2, <3>3
  <2> QED BY <2>1, <2>2, <1>2
<1>10. InStore'
  BY <1>3, <1>8 DEF InStore, archive
<1>11. ReplicasServed'
  BY <1>3, <1>9 DEF ReplicasServed, archive
<1> QED BY <1>10, <1>11

LEMMA ProcessJobPlaces == PlacesInv /\ ProcessJob => PlacesInv'
<1> SUFFICES ASSUME PlacesInv, ProcessJob PROVE PlacesInv'
  OBVIOUS
<1> SUFFICES ASSUME phase \in {"archiving", "running"},
                    OneSegmentPerPath(cfg.archive)
             PROVE  InStore' /\ ReplicasServed'
  <2>1. ConfigInv'
    BY ProcessJobConfig DEF PlacesInv
  <2>2. UNCHANGED <<cfg, phase>>
    BY DEF ProcessJob
  <2> QED BY <2>1, <2>2 DEF PlacesInv, InStore, ReplicasServed
<1> DEFINE archive == cfg.archive
           Path(s) == Join(archive.root, s.relative)
<1>1. PICK job \in jobs :
        LET source == Join(cfg.archive.root, job.relative)
            target == Target(destinations[job.key], job.relative)
        IN  /\ jobs' = jobs \ {job}
            /\ store' = Override([location \in {target} |->
                                   IF target = source THEN Truncated
                                   ELSE store[source]], store)
  BY DEF ProcessJob
<1>2. /\ UNCHANGED <<cfg, phase, destinations, published>>
      /\ archive.enabled
  BY DEF ProcessJob, Archiving
<1>3. /\ TypedArchive(archive) /\ IntervalsValid(archive)
      /\ CopiesElsewhere(archive)
      /\ destinations = DestinationMap(archive.destinations)
  BY <1>2, WorkingArchive DEF PlacesInv, OneSegmentPerPath
<1>4. PICK s \in published, key \in DOMAIN destinations :
        /\ destinations[key].mode = "async_replica"
        /\ job = [relative |-> s.relative, key |-> key]
  BY DEF PlacesInv, ConfigInv, JobsPublished
<1>5. \A t \in published : SegmentOf(archive, t)
  BY DEF PlacesInv, ConfigInv, PublishedBegin
<1>6. PICK j \in DOMAIN archive.destinations :
        /\ DestinationKey(archive.destinations[j]) = key
        /\ destinations[key] = archive.destinations[j]
  BY <1>3, <1>4, MapHolds DEF TypedArchive
<1> DEFINE e == archive.destinations[j]
           target == Target(e, s.relative)
<1> HIDE DEF archive
<1>7. /\ s.relative = RelativePath(archive, s.stream, s.start)
      /\ s.stream \in Streams
  BY <1>5 DEF SegmentOf
<1>8. \A rel : target # Join(archive.root, rel)
  BY <1>3, <1>4, <1>6, <1>7, CopyElsewhere
<1>9. Path(s) \in DOMAIN store /\ store[Path(s)] = s
  BY DEF PlacesInv, InStore, archive
<1>10. /\ jobs' = jobs \ {job}
       /\ store' = Override([location \in {target} |-> s], store)
  <2>1. job.relative = s.relative /\ job.key = key
    BY <1>4
  <2>2. target # Join(archive.root, s.relative)
    BY <1>8
  <2> QED BY <2>1, <2>2, <1>1, <1>6, <1>9 DEF archive
<1> HIDE DEF target
<1>11. DOMAIN [location \in {target} |-> s] = {target}
         /\ [location \in {target} |-> s][target] = s
  OBVIOUS
<1>12. target \in DOMAIN store' /\ store'[target] = s
  BY <1>10, <1>11, OverrideFirst, OverrideSecond
<1>13. \A x \in DOMAIN store :
         x # target => x \in DOMAIN store' /\ store'[x] = store[x]
  BY <1>10, <1>11, OverrideFirst, OverrideSecond
<1>14. ASSUME NEW t \in published
       PROVE  Path(t) \in DOMAIN store' /\ store'[Path(t)] = t
  <2>1. Path(t) \in DOMAIN store /\ store[Path(t)] = t
    BY DEF PlacesInv, InStore, archive
  <2>2. Path(t) # target
    BY <1>8
  <2> HIDE DEF Path
  <2> QED BY <2>1, <2>2, <1>13
<1>15. ASSUME NEW t \in published, NEW i \in DOMAIN archive.destinations,
              OwnPlace(archive, i)
       PROVE  LET d == archive.destinations[i]
                  goal == Target(d, t.relative)
              IN  \/ [relative |-> t.relative, key |-> DestinationKey(d)]
                       \in jobs'
                  \/ goal \in DOMAIN store' /\ store'[goal] = t
  <2> DEFINE d == archive.destinations[i]
             goal == Target(d, t.relative)
             own == [relative |-> t.relative, key |-> DestinationKey(d)]
  <2>1. own \in jobs \/ (goal \in DOMAIN store /\ store[goal] = t)
    BY <1>15 DEF PlacesInv, ReplicasServed, archive
  <2>2. CASE i = j /\ t.relative = s.relative
    <3>1. t = s
      BY <2>2, <1>3, <1>5, FinalPathIsOwn DEF archive
    <3>2. goal = target
      BY <2>2 DEF target
    <3> QED BY <3>1, <3>2, <1>12
  <2>3. CASE ~ (i = j /\ t.relative = s.relative)
    <3>1. goal # target
      <4>1. CASE i = j
        BY <4>1, <2>3, TargetIsOwn DEF target
      <4>2. CASE i # j
        <5>1. /\ t.relative = RelativePath(archive, t.stream, t.start)
              /\ t.stream \in Streams
          BY <1>5 DEF SegmentOf
        <5>2. e.mode = "async_replica"
          BY <1>4, <1>6
        <5> QED BY <4>2, <5>1, <5>2, <1>3, <1>7, <1>15, TargetsApart DEF target
      <4> QED BY <4>1, <4>2
    <3>2. own # job
      <4>1. CASE i = j
        BY <4>1, <2>3, <1>4
      <4>2. CASE i # j
        <5>1. DestinationKey(d) # key
          BY <4>2, <1>3, <1>6, <1>15, OwnPlaceMapped
        <5> QED BY <5>1, <1>4
      <4> QED BY <4>1, <4>2
    <3> HIDE DEF goal, own
    <3>3. own \in jobs' \/ (goal \in DOMAIN store' /\ store'[goal] = t)
      BY <2>1, <3>1, <3>2, <1>10, <1>13
    <3> QED BY <3>3 DEF goal, own
  <2> QED BY <2>2, <2>3
<1>16. InStore'
  BY <1>2, <1>14 DEF InStore, archive
<1>17. ReplicasServed'
  BY <1>2, <1>15 DEF ReplicasServed, archive
<1> QED BY <1>16, <1>17

LEMMA PlacesInit == Init => PlacesInv
BY ConfigInit DEF Init, PlacesInv, InStore, ReplicasServed

LEMMA PlacesStep == PlacesInv /\ [Next]_vars => PlacesInv'
<1> SUFFICES ASSUME PlacesInv, [Next]_vars PROVE PlacesInv'
  OBVIOUS
<1>1. ConfigInv'
  BY ConfigStep DEF PlacesInv
<1>2. CASE Load \/ Refuse \/ StartArchive
  <2>1. published' = published
    BY <1>2 DEF Load, Refuse, StartArchive, archiveVars
  <2>2. published = {}
    BY <1>2 DEF PlacesInv, ConfigInv, AtWork, Load, Refuse, StartArchive
  <2> QED BY <1>1, <2>1, <2>2, PlacesFrame
<1>3. CASE StartArchiveFails \/ StartBgpFails
  <2>1. UNCHANGED <<cfg, published, jobs, store>> /\ phase' = "failed"
    BY <1>3 DEF StartArchiveFails, StartBgpFails, Fails, archiveVars
  <2> QED BY <1>1, <2>1, PlacesFrame
<1>4. CASE StartBgp \/ ClockAdvances \/ UNCHANGED vars
  <2>1. /\ UNCHANGED <<cfg, published, jobs, store>>
        /\ phase' \in {"archiving", "running"} =>
             phase \in {"archiving", "running"}
    BY <1>4 DEF StartBgp, ClockAdvances, vars, archiveVars
  <2> QED BY <1>1, <2>1, PlacesFrame
<1>5. CASE Tick
  BY <1>5, TickPlaces
<1>6. CASE ProcessJob
  BY <1>6, ProcessJobPlaces
<1> QED BY <1>2, <1>3, <1>4, <1>5, <1>6 DEF Next

LEMMA PlacesInvariant == Spec => []PlacesInv
BY PlacesInit, PlacesStep, PTL DEF Spec

\* In every accepted configuration in which a path belongs to one segment, no
\* other interval, no snapshot and no replication writes over a finalized
\* segment, and the temporary files of the two streams differ (layout.rs:31
\* and 78, replicator.rs:162).
THEOREM SegmentsStay == Spec => []ArchiveIntact
<1>1. PlacesInv => ArchiveIntact
  <2> SUFFICES ASSUME PlacesInv, phase \in {"archiving", "running"},
                      OneSegmentPerPath(cfg.archive)
               PROVE  /\ \A s \in published :
                           store[FinalPath(cfg.archive, s.stream, s.start)] = s
                      /\ TmpPath(cfg.archive, "ribs", clock)
                           # TmpPath(cfg.archive, "updates", open)
    BY DEF ArchiveIntact
  <2>1. ASSUME NEW s \in published
        PROVE  store[FinalPath(cfg.archive, s.stream, s.start)] = s
    <3>1. s.relative = RelativePath(cfg.archive, s.stream, s.start)
      BY DEF PlacesInv, ConfigInv, PublishedBegin, SegmentOf
    <3>2. store[Join(cfg.archive.root, s.relative)] = s
      BY DEF PlacesInv, InStore
    <3> QED BY <3>1, <3>2 DEF FinalPath
  <2>2. TmpPath(cfg.archive, "ribs", clock)
          # TmpPath(cfg.archive, "updates", open)
    <3> DEFINE p == RelativePath(cfg.archive, "updates", open)
               q == RelativePath(cfg.archive, "ribs", clock)
    <3>1. p.name # q.name \/ p.absolute # q.absolute
      BY StreamsApart
         DEF PlacesInv, ConfigInv, LoadedIsValid, OneSegmentPerPath
    <3>2. [p EXCEPT !.hidden = TRUE] # [q EXCEPT !.hidden = TRUE]
      BY <3>1 DEF RelativePath, BuildCustomRelativePath, BuiltinRelativePath
    <3> QED BY <3>2 DEF TmpPath, Join
  <2> QED BY <2>1, <2>2
<1> QED BY <1>1, PlacesInvariant, PTL

\* In every accepted configuration in which a path belongs to one segment, a
\* finalized segment is at, or queued for, every async replica that shares its
\* place with no other destination (config/mod.rs:432, replicator.rs:32).
THEOREM ReplicasAreServed == Spec => []ReplicasServed
<1>1. PlacesInv => ReplicasServed
  BY DEF PlacesInv
<1> QED BY <1>1, PlacesInvariant, PTL
=============================================================================
