-------------------------- MODULE MCConfiguration --------------------------
(***************************************************************************)
(* Configuration files that vary one or two sections of a plain one.       *)
(***************************************************************************)
EXTENDS Configuration, TLC

Peer == [remote_as |-> 65000]

Primary == [type |-> "local", mode |-> "primary", path |-> "/archive"]
Local(path) == [type |-> "local", mode |-> "async_replica", path |-> path]
S3(bucket, prefix) ==
  [type |-> "s3", mode |-> "async_replica", endpoint |-> "https://s3",
   bucket |-> bucket, prefix |-> prefix]

Plain ==
  [global |-> [asn |-> 65001, router_id |-> "ok"],
   peers |-> {Peer},
   prefixes |-> {[network |-> "ok", next_hop |-> "ok"]},
   archive |-> [enabled |-> TRUE, root |-> "/archive", tmp_root |-> "/tmp",
                destinations |-> <<Primary, Local("/a")>>]]

WithArchive(fields) == [Plain EXCEPT !.archive = fields @@ @]

Template(name, hidden, absolute, tokens) ==
  [name |-> name, hidden |-> hidden, absolute |-> absolute,
   up |-> FALSE, dotted |-> TRUE, tokens |-> tokens]

\* A template such as {collector}/{yyyymmdd}/{hhmm}/..
Parent(name) ==
  [Template(name, FALSE, FALSE, RequiredTokens) EXCEPT !.up = TRUE]

Custom(updates, ribs) ==
  [layout_profile |-> "custom",
   custom_templates |-> [updates |-> updates, ribs |-> ribs]]

Layouts ==
  {[layout_profile |-> "routeviews"],
   [layout_profile |-> "ris", compression |-> "bz2"]}
  \cup
  {Custom(Template("u", FALSE, FALSE, RequiredTokens), ribs) :
     ribs \in {Template("r", FALSE, FALSE, RequiredTokens),
               Template("u", FALSE, FALSE, RequiredTokens),
               Template("u", TRUE, FALSE, RequiredTokens \cup {"ext"}),
               Template("r", FALSE, TRUE, RequiredTokens),
               Parent("r"),
               Template("r", FALSE, FALSE, {"collector", "hhmm"})}}
  \cup
  {Custom(Parent("u"), Template("r", FALSE, FALSE, RequiredTokens))}

Intervals ==
  {[updates_interval_secs |-> u, ribs_interval_secs |-> r] :
     u \in {0, 30, 60, 100, 900, 1000, 7200}, r \in {0, 60, 900, 7200}}

DestinationLists ==
  {<<>>, <<Local("/a")>>, <<Primary, Local(None)>>,
   <<Primary, Local("/archive")>>, <<Local("/archive"), Primary>>,
   <<Primary, Local("/a"), S3("b", "a")>>,
   <<Primary, S3("b", "a"), S3("c", "/a/")>>,
   <<Primary, S3("b", "a"), S3("b", "/")>>,
   <<Primary, S3(None, None)>>}

MCFiles ==
  {[Plain EXCEPT !.global = [asn |-> 0, router_id |-> "ok"]],
   [Plain EXCEPT !.global = [asn |-> 65001, router_id |-> "bad"]]}
  \cup
  {[Plain EXCEPT !.peers = {fields @@ Peer}] :
     fields \in {[remote_as |-> 0], [remote_port |-> 0],
                 [hold_time_secs |-> 0], [hold_time_secs |-> 2],
                 [local_address |-> "bad"]}}
  \cup
  {[Plain EXCEPT !.prefixes = {prefix}] :
     prefix \in {[network |-> "bad"], [network |-> "ok"],
                 [network |-> "ok", next_hop |-> "bad"]}}
  \cup
  {[section \in DOMAIN Plain \ {"archive"} |-> Plain[section]]}
  \cup
  {WithArchive([enabled |-> FALSE, updates_interval_secs |-> 0]),
   WithArchive([collector_id |-> ""]),
   WithArchive([layout_profile |-> "custom"])}
  \cup
  {WithArchive(fields @@ layout) :
     fields \in Intervals, layout \in Layouts}
  \cup
  {WithArchive([destinations |-> list, updates_interval_secs |-> 60]
                 @@ layout) :
     list \in DestinationLists, layout \in Layouts}

\* Neighbouring minutes, a half minute, and the same time of two days.
MCInstants == {60, 90, 120, 86460}
=============================================================================
