----------------------------- MODULE FeedPollers -----------------------------
(***************************************************************************)
(* The pollers of src/internal/notify that turn the items of a feed into    *)
(* notifications: pollSteamUpdates, pollFreeGames, pollCrackWatch and       *)
(* pollTechNews.  Each runs in a goroutine of its own, with a table of its  *)
(* own that says which items are settled; one behaviour is about one of     *)
(* them.  A notification is a POST per thread, to the bridge's own handler: *)
(* that queues it, drops what it has had for the thread before, or leaves   *)
(* it out where the thread mutes it.  Whether what it has taken reaches a   *)
(* chat is a matter of PendingNotifications.                                *)
(***************************************************************************)
EXTENDS Integers, Sequences, FiniteSets

CONSTANTS
  Articles,    \* records [guid, title, stale, fits]; guid gives the order of the feed
  Channels,    \* the configured threads, a sequence
  Pollers,     \* "steam", "free", "crack", "tech"
  MaxPerDay,   \* tech_news.max_per_day
  MaxDays,     \* bound
  MaxSlips     \* bound: failed requests and statements, restarts

VARIABLES
  poller,
  published,   \* articles that the feed shows
  settled,     \* guids in the poller's table
  deliveries,  \* rows of tech_deliveries of today: thread -> number
  stage,       \* where the pass is
  todo,        \* articles of the pass, the one at work first
  known,       \* guids that the table had when the pass asked (dbr.seen)
  titles,      \* titleSeen
  channel,     \* index of the thread that is next
  got,         \* thread -> articles that the bridge has taken for it
  gotToday,
  history,     \* what the feed had when nothing of it was settled yet
  day,
  slips

fpvars == <<poller, published, settled, deliveries, stage, todo, known, titles, channel,
            got, gotToday, history, day, slips>>

Targets == {Channels[k] : k \in 1..Len(Channels)}
Article == todo[1]
ByTitle == poller \in {"free", "crack"}

\* titleSeen is nil: the titles could not be read.
NoTitles == {"-"}

\* The order in which a pass looks at a set of articles.
InOrder(S) == {q \in [1..Cardinality(S) -> S] :
                 /\ \A a \in S : \E k \in 1..Cardinality(S) : q[k] = a
                 /\ \A k, l \in 1..Cardinality(S) : k < l => q[k].guid < q[l].guid}

Init ==
  /\ poller \in Pollers
  /\ published = {} /\ settled = {} /\ history = {}
  /\ deliveries = [t \in Targets |-> 0]
  /\ stage = "idle" /\ todo = <<>> /\ known = {} /\ titles = {}
  /\ channel = 1
  /\ got = [t \in Targets |-> {}]
  /\ gotToday = [t \in Targets |-> 0]
  /\ day = 1 /\ slips = 0

Slip(n) == slips + n <= MaxSlips /\ slips' = slips + n

feedvars == <<poller, published, history, day>>
passvars == <<todo, known, titles, channel>>
worldvars == <<deliveries, got, gotToday>>

----------------------------------------------------------------------------
(* The feed, and time                                                      *)

Publish(a) ==
  /\ a \notin published
  /\ published' = published \cup {a}
  /\ UNCHANGED <<poller, history, settled, stage, day, slips, passvars, worldvars>>

NextDay ==
  /\ day < MaxDays /\ poller = "tech"
  /\ day' = day + 1
  /\ deliveries' = [t \in Targets |-> 0] /\ gotToday' = [t \in Targets |-> 0]
  /\ UNCHANGED <<poller, published, history, settled, stage, slips, got, passvars>>

\* The process is replaced in the middle of a pass.
Restart ==
  /\ stage # "idle" /\ Slip(1)
  /\ stage' = "idle" /\ todo' = <<>> /\ known' = {} /\ titles' = {}
  /\ channel' = 1
  /\ UNCHANGED <<feedvars, settled, worldvars>>

----------------------------------------------------------------------------
(* A pass                                                                  *)

\* What a poller is after: releases, free games outside of the blocked shops,
\* recent announcements of the games.  The news take what is there.
Fits(a) ==
  /\ poller \in {"steam", "free", "crack"} => a.fits
  /\ poller = "steam" => ~a.stale

\* A tick: the feed is read.  Where several are asked, some may fail; what
\* could not be read is left for the next tick.
Fetch ==
  /\ stage = "idle"
  /\ \E S \in (SUBSET {a \in published : Fits(a)}) \ {{}} :
       /\ S # {a \in published : Fits(a)} => poller \in {"steam", "free"} /\ Slip(1)
       /\ S = {a \in published : Fits(a)} => UNCHANGED slips
       /\ todo' \in InOrder(S)
       /\ history' = IF settled = {} THEN S ELSE history
  /\ stage' = IF poller = "tech" THEN "baseline" ELSE "ask"
  /\ UNCHANGED <<poller, published, day, settled, known, titles, channel, worldvars>>

\* Technology news: does the table know this feed?  A question that fails
\* counts as a yes.
Baseline ==
  /\ stage = "baseline"
  /\ \/ stage' = (IF settled = {} THEN "seed" ELSE "ask") /\ UNCHANGED slips
     \/ stage' = "ask" /\ Slip(1)
  /\ UNCHANGED <<feedvars, settled, passvars, worldvars>>

\* A new feed: all it has is settled, article by article.
Seed ==
  /\ stage = "seed"
  /\ \/ settled' = settled \cup {Article.guid} /\ UNCHANGED slips
     \/ Slip(1) /\ UNCHANGED settled
  /\ todo' = Tail(todo)
  /\ stage' = IF todo' = <<>> THEN "idle" ELSE "seed"
  /\ UNCHANGED <<feedvars, known, titles, channel, worldvars>>

\* Which of them are settled, by their ids and by their titles.  Without the
\* ids there is no pass, and none without the titles for the crack watch.
Ask ==
  /\ stage = "ask"
  /\ \/ /\ known' = settled /\ stage' = "article"
        /\ \/ /\ titles' = {a.title : a \in {b \in Articles : ByTitle /\ b.guid \in settled}}
              /\ UNCHANGED slips
           \/ poller = "free" /\ titles' = NoTitles /\ Slip(1)
        /\ UNCHANGED todo
     \/ Slip(1) /\ stage' = "idle" /\ todo' = <<>> /\ UNCHANGED <<known, titles>>
  /\ UNCHANGED <<feedvars, settled, channel, worldvars>>

\* On to the next article, or the end of the pass.
Onward ==
  /\ todo' = Tail(todo)
  /\ stage' = IF todo' = <<>> THEN "idle" ELSE "article"
  /\ channel' = 1

Twin == ByTitle /\ Article.title \in titles

\* An article is passed over when it is settled, or another one with its title
\* is, or it is too old for the news; the latter two are settled thereby.
PassOver ==
  /\ stage = "article"
  /\ Article.guid \in known \/ Twin \/ (poller = "tech" /\ Article.stale)
  /\ Onward
  /\ \/ /\ settled' = settled \cup {Article.guid} /\ UNCHANGED slips
     \/ Article.guid \notin known /\ Slip(1) /\ UNCHANGED settled
  /\ UNCHANGED <<feedvars, known, titles, worldvars>>

Take ==
  /\ stage = "article"
  /\ Article.guid \notin known /\ ~Twin /\ ~(poller = "tech" /\ Article.stale)
  /\ stage' = "post"
  /\ UNCHANGED <<feedvars, settled, passvars, worldvars, slips>>

\* Technology news: a thread that has had its share today gets no more; when
\* the share cannot be counted it does.
Capped ==
  /\ stage = "post" /\ poller = "tech" /\ channel <= Len(Channels)
  /\ deliveries[Channels[channel]] >= MaxPerDay
  /\ channel' = channel + 1
  /\ UNCHANGED <<feedvars, settled, stage, todo, known, titles, worldvars, slips>>

\* The bridge has taken it for the thread (its handler answers "pending",
\* "sent" for one it has delivered before, or "muted").
Received(t) ==
  /\ got' = [got EXCEPT ![t] = @ \cup {Article}]
  /\ gotToday' = [gotToday EXCEPT ![t] = IF Article \in got[t] THEN @ ELSE @ + 1]

\* postWebhook, and the row that counts it.
Post ==
  /\ stage = "post" /\ channel <= Len(Channels)
  /\ LET t == Channels[channel]
         full == poller = "tech" /\ deliveries[t] >= MaxPerDay
     IN  /\ Received(t)
         /\ \/ /\ deliveries' = IF poller = "tech" THEN [deliveries EXCEPT ![t] = @ + 1]
                                                   ELSE deliveries
               /\ IF full THEN Slip(1) ELSE UNCHANGED slips
            \/ poller = "tech" /\ Slip(IF full THEN 2 ELSE 1) /\ UNCHANGED deliveries
  /\ channel' = channel + 1
  /\ UNCHANGED <<feedvars, settled, stage, todo, known, titles>>

\* Variant: an article that failed somewhere is settled all the same.
PostFailsSettled ==
  /\ stage = "post" /\ channel <= Len(Channels)
  /\ Slip(1)
  /\ channel' = channel + 1
  /\ UNCHANGED <<feedvars, settled, stage, todo, known, titles, deliveries, got,
                 gotToday>>

\* It fails, and may have been received.  The news go on with the next thread;
\* elsewhere the article waits for another pass.
PostFails ==
  /\ stage = "post" /\ channel <= Len(Channels)
  /\ LET t == Channels[channel]
     IN  /\ poller = "tech" => deliveries[t] < MaxPerDay
         /\ Received(t) \/ UNCHANGED <<got, gotToday>>
  /\ Slip(1)
  /\ IF poller = "tech"
       THEN channel' = channel + 1 /\ UNCHANGED <<stage, todo>>
       ELSE Onward
  /\ UNCHANGED <<feedvars, settled, known, titles, deliveries>>

\* Every thread has had it (the news: had its turn).
Settle ==
  /\ stage = "post" /\ channel > Len(Channels)
  /\ Onward
  /\ \/ /\ settled' = settled \cup {Article.guid}
        /\ titles' = IF ByTitle /\ titles # NoTitles THEN titles \cup {Article.title} ELSE titles
        /\ UNCHANGED slips
     \/ Slip(1) /\ UNCHANGED <<settled, titles>>
  /\ UNCHANGED <<feedvars, known, worldvars>>

Next ==
  \/ \E a \in Articles : Publish(a)
  \/ NextDay \/ Restart
  \/ Fetch \/ Baseline \/ Seed \/ Ask
  \/ PassOver \/ Take \/ Capped \/ Post \/ PostFails \/ Settle

Spec == Init /\ [][Next]_fpvars

----------------------------------------------------------------------------
(* Properties                                                              *)

\* Every variable keeps its type.
TypeOK ==
  /\ poller \in Pollers
  /\ published \subseteq Articles /\ history \subseteq Articles
  /\ settled \cup known \subseteq {a.guid : a \in Articles}
  /\ titles = NoTitles \/ titles \subseteq {a.title : a \in Articles}
  /\ stage \in {"idle", "baseline", "seed", "ask", "article", "post"}
  /\ todo \in Seq(Articles) /\ (stage = "idle" <=> todo = <<>>)
  /\ channel \in 1..(Len(Channels) + 1)
  /\ got \in [Targets -> SUBSET Articles] /\ gotToday \in [Targets -> Nat]
  /\ deliveries \in [Targets -> 0..(MaxPerDay + MaxSlips)]
  /\ day \in 1..MaxDays /\ slips \in 0..MaxSlips

\* Outside of the technology news, the bridge has taken what is settled for
\* every thread, under its own id or another one with the same title: a thread
\* for which it has not keeps the article open for all.
SettledIsDelivered ==
  poller # "tech" =>
    \A a \in Articles : a.guid \in settled =>
      \E b \in Articles : /\ b = a \/ (ByTitle /\ b.title = a.title)
                          /\ \A t \in Targets : b \in got[t]

\* A thread gets no more news in a day than its share, and one more for every
\* time that counting or recording one failed.
ShareIsKept ==
  \A t \in Targets : poller = "tech" => gotToday[t] <= MaxPerDay + slips

\* As long as nothing fails, no thread gets what was in a new feed when it was
\* first read, and none gets two articles with one title from the free games
\* or the crack watch.
NoFlood ==
  slips = 0 => \A t \in Targets :
    /\ poller = "tech" => got[t] \cap history = {}
    /\ ByTitle => \A a, b \in got[t] : a.title = b.title => a = b
=============================================================================
