------------------------------- MODULE Layout -------------------------------
(***************************************************************************)
(* Where the archive puts a segment: archive/layout.rs.  A path is a       *)
(* record of the parts its text is built from; the calendar date is the    *)
(* number of the day and {yyyy}, {mm} and {dd}, which it determines, are   *)
(* left out.  So are ".." components before the last one, which the file   *)
(* system resolves, and a slash at the end of a name that has a dot in it, *)
(* which makes the rename of finalize fail.                                *)
(***************************************************************************)
EXTENDS Integers

Streams == {"updates", "ribs"}

\* rem_euclid of a positive interval is TLA+'s %.
AlignedEpoch(timestamp, interval) == timestamp - (timestamp % interval)

IntervalSecs(archive, stream) ==
  IF stream = "updates"
  THEN archive.updates_interval_secs
  ELSE archive.ribs_interval_secs

Yyyymmdd(epoch) == epoch \div 86400

\* Seeded fault: the file name carries the hour without the minute.
HhmmWithoutMinute(epoch) == (epoch % 86400) \div 3600

\* Hour and minute, without the seconds.
Hhmm(epoch) == (epoch % 86400) \div 60

\* The tokens both validate and build_custom_relative_path insist on.
RequiredTokens == {"collector", "yyyymmdd", "hhmm"}

\* Directory and prefix of the file name in the two built-in profiles.
ProfileName(profile, stream) ==
  CASE profile = "routeviews" /\ stream = "updates" -> "UPDATES/updates"
    [] profile = "routeviews" /\ stream = "ribs"    -> "RIBS/rib"
    [] profile = "ris" /\ stream = "updates"        -> "updates"
    [] profile = "ris" /\ stream = "ribs"           -> "bview"

\* A built-in profile: fixed text, collector, date, time and extension.
BuiltinRelativePath(archive, stream, epoch) ==
  [name |-> ProfileName(archive.layout_profile, stream),
   hidden |-> FALSE, absolute |-> FALSE,
   collector |-> archive.collector_id,
   yyyymmdd |-> Yyyymmdd(epoch), hhmm |-> Hhmm(epoch),
   ext |-> archive.compression]

\* A custom template: its fixed text (name), whether the file name begins
\* with a dot (hidden) and the path with a slash (absolute), whether the path
\* it renders to ends in ".." (up), and its tokens.  The extension is appended
\* when the rendered name has none; a name with a dot in it counts as having
\* one.
BuildCustomRelativePath(archive, template, epoch) ==
  [name |-> template.name,
   hidden |-> template.hidden, absolute |-> template.absolute,
   collector |-> archive.collector_id,
   yyyymmdd |-> Yyyymmdd(epoch), hhmm |-> Hhmm(epoch),
   ext |-> IF "ext" \in template.tokens \/ ~template.dotted
           THEN archive.compression
           ELSE ""]

\* build_custom_relative_path refuses a template without the tokens, and a
\* path that ends in "..", which has no file name to put an extension to.  The
\* other errors of segment_paths do not occur: validate asks for the templates
\* of a custom profile, and what passes here has a file name, so a temporary
\* one can be derived from it.
CustomPathFails(archive, stream) ==
  /\ archive.layout_profile = "custom"
  /\ LET template == archive.custom_templates[stream]
     IN  ~(RequiredTokens \subseteq template.tokens) \/ template.up

\* segment_paths: the path below the root of the segment that holds timestamp.
RelativePath(archive, stream, timestamp) ==
  LET epoch == AlignedEpoch(timestamp, IntervalSecs(archive, stream))
  IN  IF archive.layout_profile = "custom"
      THEN BuildCustomRelativePath(archive,
                                   archive.custom_templates[stream], epoch)
      ELSE BuiltinRelativePath(archive, stream, epoch)

\* PathBuf::join: an absolute path replaces what it is joined to.
Join(base, relative) ==
  <<"file", IF relative.absolute THEN "/" ELSE base, relative>>

FinalPath(archive, stream, timestamp) ==
  Join(archive.root, RelativePath(archive, stream, timestamp))

\* The temporary name is ".<file name>.tmp", leading dots of the name removed.
TmpPath(archive, stream, timestamp) ==
  Join(archive.tmp_root,
       [RelativePath(archive, stream, timestamp) EXCEPT !.hidden = TRUE])
=============================================================================
