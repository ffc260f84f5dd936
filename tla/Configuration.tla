--------------------------- MODULE Configuration ---------------------------
(***************************************************************************)
(* From a configuration file to an archive and its replicas: what          *)
(* FoclConfig::load accepts (config/mod.rs), what main and the services    *)
(* then make of it (bin/focld.rs, archive/mod.rs, bgp/mod.rs), and where   *)
(* the segments of the daemon that results end up (archive/layout.rs,      *)
(* archive/replicator.rs).  Segments are whole and steps atomic here:      *)
(* UpdatesArchive, RibSnapshot and Replicator have the interleavings.      *)
(***************************************************************************)
EXTENDS Layout, Sequences

CONSTANTS
  Files,     \* the configuration files considered, as records of sections
  Instants,  \* the values of the clock, in seconds
  None       \* an absent optional field

ASSUME InstantsAssumption == Instants \subseteq Nat /\ Instants # {}

VARIABLES
  cfg,           \* the file, then the FoclConfig read from it
  phase,         \* how far main has come
  reason,        \* why it ended with an error
  clock,         \* Utc::now()
  destinations,  \* Replicator.destinations: key -> destination
  open,          \* start_ts of updates_writer, or None
  lastRib,       \* last_rib_bucket, or None
  published,     \* history: the segments finalized so far
  jobs,          \* replication_queue: relative path and destination key
  store          \* location -> content, in the archive and at the replicas

vars == <<cfg, phase, reason, clock, destinations, open, lastRib, published,
          jobs, store>>

\* Function g with the values of f where f has one.
Override(f, g) ==
  [x \in DOMAIN f \cup DOMAIN g |-> IF x \in DOMAIN f THEN f[x] ELSE g[x]]

(***************************************************************************)
(* Parsing.  A section of the file holds the fields it sets; the others    *)
(* get the default of their field.  A file without [archive] gets          *)
(* ArchiveConfig::default(), which has a destination where the default of  *)
(* the field has none.                                                     *)
(***************************************************************************)
ArchiveFieldDefaults ==
  [enabled |-> FALSE, collector_id |-> "focl01",
   layout_profile |-> "routeviews", updates_interval_secs |-> 900,
   ribs_interval_secs |-> 7200, compression |-> "gz",
   root |-> "/var/lib/focld/archive",
   tmp_root |-> "/var/lib/focld/archive/.tmp",
   custom_templates |-> None, destinations |-> <<>>]

DestinationFieldDefaults ==
  [path |-> None, endpoint |-> None, bucket |-> None, prefix |-> None]

ArchiveDefault ==
  [ArchiveFieldDefaults EXCEPT !.destinations =
     <<Override([type |-> "local", mode |-> "primary",
                 path |-> "/var/lib/focld/archive"],
                DestinationFieldDefaults)>>]

PeerFieldDefaults ==
  [hold_time_secs |-> 90, remote_port |-> 179, local_address |-> None]

ParsedArchive(section) ==
  LET archive == Override(section, ArchiveFieldDefaults)
  IN  [archive EXCEPT !.destinations =
         [i \in DOMAIN archive.destinations |->
            Override(archive.destinations[i], DestinationFieldDefaults)]]

Parsed(file) ==
  [global |-> file.global,
   peers |-> {Override(peer, PeerFieldDefaults) : peer \in file.peers},
   prefixes |-> {Override(prefix, [next_hop |-> None]) :
                 prefix \in file.prefixes},
   archive |-> IF "archive" \in DOMAIN file
               THEN ParsedArchive(file.archive)
               ELSE ArchiveDefault]

\* What a file that parses has whatever it says: intervals are u64, profile
\* and destination type are enums and the destinations are a Vec.
ASSUME FilesAssumption ==
  \A file \in Files :
    LET archive == Parsed(file).archive
        dests   == archive.destinations
    IN  /\ archive.updates_interval_secs \in Nat
        /\ archive.ribs_interval_secs \in Nat
        /\ archive.layout_profile \in {"routeviews", "ris", "custom"}
        /\ dests \in Seq({dests[i] : i \in DOMAIN dests})
        /\ \A i \in DOMAIN dests : dests[i].type \in {"local", "s3"}

(***************************************************************************)
(* Validation.  Whether a text parses as an address is "ok" or "bad".      *)
(***************************************************************************)
PeerValid(peer) ==
  /\ peer.remote_as # 0
  /\ peer.remote_port # 0
  /\ peer.hold_time_secs # 0 => peer.hold_time_secs >= 3
  /\ peer.local_address \in {None, "ok"}

TemplatesValid(templates) ==
  \A stream \in Streams : RequiredTokens \subseteq templates[stream].tokens

DestinationValid(d) ==
  IF d.type = "local"
  THEN d.path # None
  ELSE d.endpoint # None /\ d.bucket # None

\* Seeded fault: the two intervals are checked the other way round.
IntervalsValidSwapped(archive) ==
  /\ archive.updates_interval_secs # 0
  /\ 3600 % archive.updates_interval_secs = 0
  /\ archive.ribs_interval_secs # 0
  /\ archive.updates_interval_secs % archive.ribs_interval_secs = 0

IntervalsValid(archive) ==
  /\ archive.updates_interval_secs # 0
  /\ 3600 % archive.updates_interval_secs = 0
  /\ archive.ribs_interval_secs # 0
  /\ archive.ribs_interval_secs % archive.updates_interval_secs = 0

ArchiveValid(archive) ==
  archive.enabled =>
    /\ archive.collector_id # ""
    /\ IntervalsValid(archive)
    /\ \E i \in DOMAIN archive.destinations :
         archive.destinations[i].mode = "primary"
    /\ archive.layout_profile = "custom" =>
         /\ archive.custom_templates # None
         /\ TemplatesValid(archive.custom_templates)
    /\ \A i \in DOMAIN archive.destinations :
         DestinationValid(archive.destinations[i])

\* Seeded fault: the router id is left to main to check.
ValidWithoutRouterId(c) ==
  /\ c.global.asn # 0
  /\ \A peer \in c.peers : PeerValid(peer)
  /\ \A prefix \in c.prefixes : prefix.network = "ok"
  /\ ArchiveValid(c.archive)

Valid(c) ==
  /\ c.global.asn # 0
  /\ c.global.router_id = "ok"
  /\ \A peer \in c.peers : PeerValid(peer)
  /\ \A prefix \in c.prefixes : prefix.network = "ok"
  /\ ArchiveValid(c.archive)

(***************************************************************************)
(* Destinations.                                                           *)
(***************************************************************************)
\* Seeded fault: the key of an S3 destination is its endpoint alone.
DestinationKeyOfEndpoint(d) ==
  IF d.type = "local" THEN <<"local", d.path>> ELSE <<"s3", d.endpoint>>

\* The prefix of an S3 destination is not part of its key.
DestinationKey(d) ==
  IF d.type = "local"
  THEN <<"local", d.path>>
  ELSE <<"s3", d.endpoint, d.bucket>>

\* Replicator::new collects a map: the last destination of a key stays.
DestinationMap(seq) ==
  [key \in {DestinationKey(seq[i]) : i \in DOMAIN seq} |->
     seq[CHOOSE i \in DOMAIN seq :
           /\ DestinationKey(seq[i]) = key
           /\ \A j \in DOMAIN seq : DestinationKey(seq[j]) = key => j <= i]]

\* trim_matches('/') on the prefixes of the model.
Trimmed(prefix) ==
  CASE prefix = "/"    -> ""
    [] prefix = "/a/"  -> "a"
    [] OTHER           -> prefix

ObjectKey(prefix, relative) ==
  IF prefix \in {None, ""}
  THEN <<relative>>
  ELSE <<Trimmed(prefix), relative>>

\* Where copy_to_local and copy_to_s3 put the segment at relative.
Target(d, relative) ==
  IF d.type = "local"
  THEN Join(d.path, relative)
  ELSE <<"object", d.endpoint, d.bucket, ObjectKey(d.prefix, relative)>>

(***************************************************************************)
(* main.                                                                   *)
(***************************************************************************)
Init ==
  /\ cfg \in Files
  /\ phase = "reading" /\ reason = None
  /\ clock \in Instants
  /\ destinations = <<>>
  /\ open = None /\ lastRib = None
  /\ published = {} /\ jobs = {} /\ store = <<>>

archiveVars == <<destinations, open, lastRib, published, jobs, store>>

Load ==
  /\ phase = "reading"
  /\ Valid(Parsed(cfg))
  /\ cfg' = Parsed(cfg)
  /\ phase' = "loaded"
  /\ UNCHANGED <<reason, clock, archiveVars>>

Refuse ==
  /\ phase = "reading"
  /\ ~Valid(Parsed(cfg))
  /\ phase' = "refused"
  /\ UNCHANGED <<cfg, reason, clock, archiveVars>>

Fails(why) ==
  /\ phase' = "failed"
  /\ reason' = why
  /\ UNCHANGED <<cfg, clock, archiveVars>>

\* ArchiveService::new; from here on the scheduler runs.
StartArchive ==
  /\ phase = "loaded"
  /\ cfg.global.router_id = "ok"
  /\ phase' = "archiving"
  /\ IF cfg.archive.enabled
     THEN /\ ~CustomPathFails(cfg.archive, "updates")
          /\ destinations' = DestinationMap(cfg.archive.destinations)
          /\ open' = AlignedEpoch(clock, cfg.archive.updates_interval_secs)
     ELSE UNCHANGED <<destinations, open>>
  /\ UNCHANGED <<cfg, reason, clock, lastRib, published, jobs, store>>

StartArchiveFails ==
  /\ phase = "loaded"
  /\ \/ cfg.global.router_id # "ok" /\ Fails("router_id")
     \/ /\ cfg.archive.enabled
        /\ CustomPathFails(cfg.archive, "updates")
        /\ Fails("template")
     \/ cfg.archive.enabled /\ Fails("io")

\* BgpService::new and the control socket.
StartBgp ==
  /\ phase = "archiving"
  /\ \A prefix \in cfg.prefixes :
       prefix.network = "ok" /\ prefix.next_hop \in {None, "ok"}
  /\ phase' = "running"
  /\ UNCHANGED <<cfg, reason, clock, archiveVars>>

StartBgpFails ==
  /\ phase = "archiving"
  /\ \/ \E prefix \in cfg.prefixes : prefix.network # "ok" /\ Fails("network")
     \/ \E prefix \in cfg.prefixes :
          prefix.next_hop \notin {None, "ok"} /\ Fails("next_hop")
     \/ Fails("io")

(***************************************************************************)
(* The archive at work.                                                    *)
(***************************************************************************)
Archiving == phase \in {"archiving", "running"} /\ cfg.archive.enabled

Segment(stream, start) ==
  [stream |-> stream, start |-> start,
   relative |-> RelativePath(cfg.archive, stream, start)]

\* enqueue_segment for every segment of a set.
JobsFor(segments) ==
  {[relative |-> s.relative, key |-> key] : s \in segments,
     key \in {k \in DOMAIN destinations :
                destinations[k].mode = "async_replica"}}

\* finalize renames over what is at the final path.
Stored(segments) ==
  [location \in {Join(cfg.archive.root, s.relative) : s \in segments} |->
     CHOOSE s \in segments : Join(cfg.archive.root, s.relative) = location]

\* Publishing an updates segment, then a snapshot: the later one wins.
PublishAll(updates, ribs) ==
  /\ published' = published \cup updates \cup ribs
  /\ store' = Override(Stored(ribs), Override(Stored(updates), store))
  /\ jobs' = jobs \cup JobsFor(updates \cup ribs)

\* tick: rotate the updates segment and take the snapshot of the interval.  A
\* snapshot that has no path is an error that is logged, in every tick again.
Tick ==
  /\ Archiving
  /\ LET bucket    == AlignedEpoch(clock, cfg.archive.updates_interval_secs)
         ribBucket == AlignedEpoch(clock, cfg.archive.ribs_interval_secs)
         updates   == IF open = bucket THEN {} ELSE {Segment("updates", open)}
         snapshot  == /\ lastRib # ribBucket
                      /\ ~CustomPathFails(cfg.archive, "ribs")
         ribs      == IF snapshot THEN {Segment("ribs", ribBucket)} ELSE {}
     IN  /\ open # bucket \/ snapshot
         /\ PublishAll(updates, ribs)
         /\ open' = bucket
         /\ lastRib' = IF snapshot THEN ribBucket ELSE lastRib
  /\ UNCHANGED <<cfg, phase, reason, clock, destinations>>

\* The content of a file that was opened for writing and got nothing.
Truncated == "truncated"

\* process_job.  fs::copy truncates its target before it reads its source.
ProcessJob ==
  /\ Archiving
  /\ \E job \in jobs :
       LET source == Join(cfg.archive.root, job.relative)
           target == Target(destinations[job.key], job.relative)
       IN  /\ jobs' = jobs \ {job}
           /\ store' = Override([location \in {target} |->
                                  IF target = source THEN Truncated
                                  ELSE store[source]], store)
  /\ UNCHANGED <<cfg, phase, reason, clock, destinations, open, lastRib,
                 published>>

ClockAdvances ==
  /\ phase \notin {"refused", "failed"}
  /\ \E now \in Instants : now > clock /\ clock' = now
  /\ UNCHANGED <<cfg, phase, reason, archiveVars>>

Next ==
  \/ Load \/ Refuse
  \/ StartArchive \/ StartArchiveFails \/ StartBgp \/ StartBgpFails
  \/ Tick \/ ProcessJob \/ ClockAdvances

Spec == Init /\ [][Next]_vars

-----------------------------------------------------------------------------
\* What validate accepts, main and the services can start from: apart from
\* errors of the file system main ends only for what validate does not look
\* at, a next_hop that does not parse and a template of the updates stream
\* that renders to no file name (focld.rs:30-49, bgp/mod.rs:77-99,
\* layout.rs:140).
AcceptedStarts ==
  phase = "failed" =>
    \/ reason = "io"
    \/ /\ reason = "next_hop"
       /\ \E prefix \in cfg.prefixes : prefix.next_hop \notin {None, "ok"}
    \/ /\ reason = "template"
       /\ cfg.archive.layout_profile = "custom"
       /\ cfg.archive.custom_templates.updates.up

\* The two templates differ in more than a leading dot.
TemplatesApart(archive) ==
  archive.layout_profile = "custom" =>
    LET updates == archive.custom_templates.updates
        ribs    == archive.custom_templates.ribs
    IN  updates.name # ribs.name \/ updates.absolute # ribs.absolute

\* No local replica is the archive itself.
CopiesElsewhere(archive) ==
  \A i \in DOMAIN archive.destinations :
    LET d == archive.destinations[i] IN
    d.type = "local" /\ d.mode = "async_replica" =>
      \A stream \in Streams :
        Target(d, RelativePath(archive, stream, 0))
          # FinalPath(archive, stream, 0)

\* The configurations in which a path belongs to one segment.
OneSegmentPerPath(archive) ==
  /\ archive.updates_interval_secs >= 60
  /\ TemplatesApart(archive)
  /\ CopiesElsewhere(archive)

\* A finalized segment stays in the archive, whole, under its path: no other
\* interval, no snapshot and no replication writes there; and a snapshot has
\* not the temporary file of the updates segment that is open beside it.  It
\* holds for every accepted configuration except the ones validate should have
\* refused: intervals below a minute, templates that coincide, and a replica
\* that is the archive (layout.rs:31 and 78, config/mod.rs:317,
\* replicator.rs:162); see Layout for the templates left out.
ArchiveIntact ==
  phase \in {"archiving", "running"} /\ OneSegmentPerPath(cfg.archive) =>
    /\ \A s \in published :
         store[FinalPath(cfg.archive, s.stream, s.start)] = s
    /\ open # None =>
         TmpPath(cfg.archive, "ribs", clock)
           # TmpPath(cfg.archive, "updates", open)

\* Every snapshot starts where an updates segment starts, so that replaying
\* whole updates segments brings it forward (config/mod.rs:239-247).
SnapshotsOnBoundary ==
  \A s \in published :
    s.stream = "ribs" =>
      AlignedEpoch(s.start, cfg.archive.updates_interval_secs) = s.start

\* The same directory, or the same bucket at the same endpoint.
SamePlace(d, e) ==
  /\ d.type = e.type
  /\ IF d.type = "local"
     THEN d.path = e.path
     ELSE d.endpoint = e.endpoint /\ d.bucket = e.bucket

\* An async replica that no other destination shares its place with.
OwnPlace(archive, i) ==
  /\ archive.destinations[i].mode = "async_replica"
  /\ \A j \in DOMAIN archive.destinations \ {i} :
       ~SamePlace(archive.destinations[i], archive.destinations[j])

\* A finalized segment reaches every async replica, or is queued for it: only
\* S3 destinations that differ in nothing but the prefix, and destinations
\* given twice, are served once (config/mod.rs:432, replicator.rs:32).
ReplicasServed ==
  phase \in {"archiving", "running"} /\ OneSegmentPerPath(cfg.archive) =>
    \A s \in published, i \in DOMAIN cfg.archive.destinations :
      OwnPlace(cfg.archive, i) =>
        LET d == cfg.archive.destinations[i]
            target == Target(d, s.relative)
        IN  \/ [relative |-> s.relative, key |-> DestinationKey(d)] \in jobs
            \/ target \in DOMAIN store /\ store[target] = s
=============================================================================
