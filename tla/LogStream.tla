------------------------------ MODULE LogStream ------------------------------
(***************************************************************************)
(* The live audit log: the hook that keeps an EventSource                  *)
(* (panel/hooks/use-log-stream.ts), the table that pauses it on scroll     *)
(* (panel/components/logs/live-log-table.tsx) and the route that streams   *)
(* the gateway's feed (panel/app/api/stream/logs/route.ts).  Entries are   *)
(* numbered as the feed sends them.  The gateway of this commit has no     *)
(* such feed and answers 404; the feed here is the one the route is        *)
(* written for.                                                            *)
(*                                                                         *)
(* What the browser does for an EventSource, the user's scrolling and      *)
(* React's rendering are steps of their own: an entry may come between a   *)
(* scroll and the rendering that pauses.                                   *)
(***************************************************************************)
EXTENDS Naturals, Sequences, FiniteSets

CONSTANTS
  Buffer,     \* entries kept
  Visible,    \* entries rendered
  MaxEntries  \* bound: entries the feed sends

ASSUME LogStreamAssumption ==
  /\ Buffer \in Nat \ {0} /\ Visible \in Nat \ {0}
  /\ MaxEntries \in Nat

VARIABLES
  es,        \* the EventSource: none, connecting, open, or closed for good
  state,     \* the hook's connection state
  scrolled,  \* the table is scrolled below its first row
  paused,    \* as last rendered
  wire,      \* entries on their way, the next one first
  entries,   \* entries kept, as the table shows them
  sent,      \* how many entries the feed has sent
  heard      \* the well-formed entries that arrived while the table was not paused

streamVars == <<es, state, scrolled, paused, wire, entries, sent, heard>>

\* No table is mounted.
StreamInit ==
  /\ es = "none" /\ state = "connecting"
  /\ scrolled = FALSE /\ paused = FALSE
  /\ wire = <<>> /\ entries = <<>> /\ sent = 0 /\ heard = {}

\* The table is mounted with an EventSource, or unmounted with it.
Mount(source) ==
  /\ es' = source /\ state' = "connecting"
  /\ scrolled' = FALSE /\ paused' = FALSE
  /\ wire' = <<>> /\ entries' = <<>> /\ sent' = 0 /\ heard' = {}

\* The route: a request without a token, or without a feed behind it, is
\* answered with a status an EventSource does not come back from.
Connect(token) ==
  /\ es = "connecting"
  /\ \/ token /\ es' = "open" /\ state' = "connected"
     \/ es' = "closed" /\ state' = "reconnecting"
     \/ state' = "reconnecting" /\ UNCHANGED es
  /\ UNCHANGED <<scrolled, paused, wire, entries, sent, heard>>

\* Faulty Drop: nothing listens to onerror.
DropUnseen ==
  /\ es = "open"
  /\ es' = "connecting"
  /\ wire' = <<>>
  /\ UNCHANGED <<state, scrolled, paused, entries, sent, heard>>

\* The connection breaks with what is on its way; the browser connects again.
Drop ==
  /\ es = "open"
  /\ es' = "connecting"
  /\ state' = "reconnecting"
  /\ wire' = <<>>
  /\ UNCHANGED <<scrolled, paused, entries, sent, heard>>

\* Entries sent while nobody is connected are not sent again.
Feed ==
  /\ es # "none"
  /\ sent < MaxEntries
  /\ sent' = sent + 1
  /\ wire' = IF es = "open" THEN Append(wire, sent + 1) ELSE wire
  /\ UNCHANGED <<es, state, scrolled, paused, entries, heard>>

\* The newest entry goes on top; the cap takes the oldest.
Kept(e) == SubSeq(<<e>> \o entries, 1, IF Len(entries) < Buffer THEN Len(entries) + 1
                                       ELSE Buffer)

\* Faulty Taken: the pause is read off the connection's state.
TakenConnected(e, valid) == IF valid /\ state = "connected" THEN Kept(e) ELSE entries

\* onmessage: dropped while paused; a malformed entry is, too.
Taken(e, valid) == IF valid /\ ~paused THEN Kept(e) ELSE entries

\* An entry arrives.  That it did is noted whatever the handler makes of it.
Message ==
  /\ es = "open" /\ wire # <<>>
  /\ wire' = Tail(wire)
  /\ \E valid \in BOOLEAN :
       /\ entries' = Taken(Head(wire), valid)
       /\ heard' = IF valid /\ ~paused THEN heard \cup {Head(wire)} ELSE heard
  /\ UNCHANGED <<es, state, scrolled, paused, sent>>

Scroll ==
  /\ es # "none"
  /\ scrolled' = ~scrolled
  /\ UNCHANGED <<es, state, paused, wire, entries, sent, heard>>

\* A rendering: the ref takes the new value, and the effect notes a pause, but
\* not its end.
Render ==
  /\ es # "none"
  /\ paused # scrolled
  /\ paused' = scrolled
  /\ state' = IF scrolled THEN "paused" ELSE state
  /\ UNCHANGED <<es, scrolled, wire, entries, sent, heard>>

StreamNext(token) == Connect(token) \/ Drop \/ Feed \/ Message \/ Scroll \/ Render

\* What LiveLogTable shows.
Indicator == IF paused THEN "paused" ELSE state

Rows == SubSeq(entries, 1, IF Len(entries) < Visible THEN Len(entries) ELSE Visible)

-----------------------------------------------------------------------------
\* Properties.

StreamTypeOK ==
  /\ es \in {"none", "connecting", "open", "closed"}
  /\ state \in {"connecting", "connected", "paused", "reconnecting"}
  /\ scrolled \in BOOLEAN /\ paused \in BOOLEAN
  /\ wire \in Seq(1 .. MaxEntries) /\ entries \in Seq(1 .. MaxEntries)
  /\ sent \in 0 .. MaxEntries /\ heard \subseteq 1 .. MaxEntries

\* The table shows the newest of the entries that arrived while it was not
\* paused, each once, the newest on top, and misses none of them but for the
\* buffer's cap, through breaks of the connection and pauses.
RowsAreTheNewest ==
  /\ \A i, j \in DOMAIN Rows : i < j => Rows[i] > Rows[j]
  /\ \A e \in heard : (\E i \in DOMAIN Rows : Rows[i] = e)
                      \/ (Rows # <<>> /\ e < Rows[Len(Rows)] /\ Len(Rows) \in {Buffer, Visible})

\* "Live" is shown of an open connection only.
LiveIsLive == Indicator = "connected" => es = "open"

\* "Auto-pause kicks in as soon as the user scrolls below the first row and
\* resumes when they scroll back to the top"; "reflect external pause state in
\* the indicator".
PausedIsPaused == Indicator = "paused" => paused
=============================================================================
