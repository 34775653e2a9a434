------------------------------ MODULE AlertStream ------------------------------
(***************************************************************************)
(* The inbox of alerts in the windows of one user: the server's event      *)
(* stream with its cap on subscribers, its reconnection, and the list that *)
(* each event makes a window load again (routes/alerts.ts,                 *)
(* db/monitoringAlertsRepository.ts, db/monitoringAlertsEnrichment.ts;     *)
(* frontend/src/hooks/useAlertsStream.ts, frontend/src/pages/Alerts.tsx).  *)
(*                                                                         *)
(* Events travel in order on their stream; a request for the list is       *)
(* answered at any time with respect to them.  Filters, page and page size *)
(* are a view; whatever it is, its rows are taken as the whole inbox.  The *)
(* badge with the number of unread alerts is left out.                     *)
(***************************************************************************)
EXTENDS Naturals, Sequences, FiniteSets

CONSTANTS
    Windows,
    Alerts,
    Views,       \* filters and pages of the list
    Nobody,      \* has marked the alert
    MaxStreams,  \* MAX_ALERT_SUBSCRIBERS_PER_OWNER
    MaxClicks,   \* bound: changes of a view, alerts marked
    MaxBreaks    \* bound: connections that break, transactions rolled back

ASSUME StreamAssumption ==
    /\ Views # {} /\ Nobody \notin Windows /\ MaxStreams \in Nat \ {0}
    /\ {MaxClicks, MaxBreaks} \subseteq Nat

VARIABLES
    inbox,  \* each alert: 0 not there, 1 inserted, 2 enriched; marked by whom
    link,   \* of each window: its EventSource, as the server knows it
    events, \* of each window: sent to it and not yet handled
    stale,  \* subscriptions of dead connections that the server still keeps
    page,   \* of each window: its view, what it shows, and of which view
    load,   \* of each window: the list() of listAbortRef
    act,    \* of each window: a PATCH (seen, unseen, dismissed) under way
    clicks, breaks

streamVars == <<inbox, link, events, stale, page, load, act, clicks, breaks>>

NoLoad == [phase |-> "none"]
NoAct == [phase |-> "none"]
Empty == [a \in Alerts |-> [version |-> 0, mark |-> Nobody]]

\* A page that has been opened, with no filter: its first load is the effect's.
Unfiltered == CHOOSE v \in Views : TRUE
Fresh == [view |-> Unfiltered, dirty |-> TRUE, error |-> FALSE, rows |-> Empty, of |-> Unfiltered]

StreamInit ==
    /\ inbox = Empty
    /\ link = [w \in Windows |-> "wait"] /\ events = [w \in Windows |-> <<>>]
    /\ stale = 0
    /\ page = [w \in Windows |-> Fresh]
    /\ load = [w \in Windows |-> NoLoad] /\ act = [w \in Windows |-> NoAct]
    /\ clicks = 0 /\ breaks = 0

-----------------------------------------------------------------------------
(* The server. *)

Subscribed == {w \in Windows : link[w] = "up"}
Full == Cardinality(Subscribed) + stale >= MaxStreams

\* A run inserts an alert or fills in its ruling, and one microtask later
\* notifyNewAlert or notifyAlertEnriched writes to each subscriber.  The
\* transaction around them may be rolled back: the subscribers are told anyway.
Raise(a) ==
    /\ inbox[a].version < 2
    /\ \/ inbox' = [inbox EXCEPT ![a].version = @ + 1] /\ UNCHANGED breaks
       \/ breaks < MaxBreaks /\ breaks' = breaks + 1 /\ UNCHANGED inbox
    /\ events' = [w \in Windows |->
                    IF w \in Subscribed THEN Append(events[w], "alert") ELSE events[w]]
    /\ UNCHANGED <<link, stale, page, load, act, clicks>>

\* MUTANT: the stream is announced before it is subscribed.
AcceptUnsubscribed(w) ==
    /\ \/ link[w] = "asked" /\ link' = [link EXCEPT ![w] = "ready"]
          /\ events' = [events EXCEPT ![w] = <<"open">>]
       \/ link[w] = "ready" /\ link' = [link EXCEPT ![w] = IF Full THEN "capped" ELSE "up"]
          /\ events' = [events EXCEPT ![w] = IF Full THEN Append(@, "error") ELSE @]
    /\ UNCHANGED <<inbox, stale, page, load, act, clicks, breaks>>

\* GET /stream subscribes before it answers; one too many gets an error event.
Accept(w) ==
    /\ link[w] = "asked"
    /\ link' = [link EXCEPT ![w] = IF Full THEN "capped" ELSE "up"]
    /\ events' = [events EXCEPT ![w] = IF Full THEN <<"open", "error">> ELSE <<"open">>]
    /\ UNCHANGED <<inbox, stale, page, load, act, clicks, breaks>>

\* onAbort, when the server learns that a connection is dead.
CleanUp ==
    /\ stale > 0 /\ stale' = stale - 1
    /\ UNCHANGED <<inbox, link, events, page, load, act, clicks, breaks>>

-----------------------------------------------------------------------------
(* useAlertsStream *)

\* The first connection, or the timer of scheduleReconnect, with a session
\* minted if need be (WebSession); without one the timer is armed again.
Connect(w) ==
    /\ link[w] = "wait"
    /\ link' = [link EXCEPT ![w] = "asked"]
    /\ UNCHANGED <<inbox, events, stale, page, load, act, clicks, breaks>>

\* onerror: the handshake was refused, or the break has come to be known.
Disconnected(w) ==
    /\ link[w] \in {"asked", "broken"}
    /\ link' = [link EXCEPT ![w] = "wait"] /\ events' = [events EXCEPT ![w] = <<>>]
    /\ UNCHANGED <<inbox, stale, page, load, act, clicks, breaks>>

\* The listeners: open, alert and alert_enriched raise streamVersion; error
\* is taken for a break.
Hear(w) ==
    /\ events[w] # <<>>
    /\ IF Head(events[w]) = "error"
       THEN /\ link' = [link EXCEPT ![w] = "wait"] /\ events' = [events EXCEPT ![w] = <<>>]
            /\ UNCHANGED page
       ELSE /\ events' = [events EXCEPT ![w] = Tail(@)]
            /\ page' = [page EXCEPT ![w].dirty = TRUE]
            /\ UNCHANGED link
    /\ UNCHANGED <<inbox, stale, load, act, clicks, breaks>>

\* What is on the wire is lost from some event on.  Neither end need know.
Break(w) ==
    /\ link[w] = "up" /\ breaks < MaxBreaks
    /\ link' = [link EXCEPT ![w] = "broken"] /\ breaks' = breaks + 1
    /\ \E n \in 0..Len(events[w]) : events' = [events EXCEPT ![w] = SubSeq(@, 1, n)]
    /\ stale' \in {stale, stale + 1}
    /\ UNCHANGED <<inbox, page, load, act, clicks>>

\* The page is loaded again; the server learns later that the stream is dead.
Reopen(w) ==
    /\ breaks < MaxBreaks /\ breaks' = breaks + 1
    /\ link' = [link EXCEPT ![w] = "wait"] /\ events' = [events EXCEPT ![w] = <<>>]
    /\ stale' = IF link[w] = "up" THEN stale + 1 ELSE stale
    /\ page' = [page EXCEPT ![w] = Fresh]
    /\ load' = [load EXCEPT ![w] = NoLoad] /\ act' = [act EXCEPT ![w] = NoAct]
    /\ UNCHANGED <<inbox, clicks>>

-----------------------------------------------------------------------------
(* The page of alerts. *)

\* load(): what was in flight is aborted.
Load(w, v) ==
    /\ load' = [load EXCEPT ![w] = [phase |-> "sent", view |-> v]]
    /\ page' = [page EXCEPT ![w].dirty = FALSE, ![w].error = FALSE]

\* The effect of a new view or a new streamVersion.
Render(w) ==
    /\ page[w].dirty
    /\ Load(w, page[w].view)
    /\ UNCHANGED <<inbox, link, events, stale, act, clicks, breaks>>

\* GET /alerts is answered; the answer lands, or anything fails.
Listed(w) ==
    /\ load[w].phase = "sent"
    /\ load' = [load EXCEPT ![w] = [phase |-> "answered", view |-> load[w].view, rows |-> inbox]]
    /\ UNCHANGED <<inbox, link, events, stale, page, act, clicks, breaks>>
Shown(w) ==
    /\ load[w].phase = "answered"
    /\ page' = [page EXCEPT ![w].rows = load[w].rows, ![w].of = load[w].view]
    /\ load' = [load EXCEPT ![w] = NoLoad]
    /\ UNCHANGED <<inbox, link, events, stale, act, clicks, breaks>>
ListFails(w) ==
    /\ load[w] # NoLoad
    /\ page' = [page EXCEPT ![w].error = TRUE]
    /\ load' = [load EXCEPT ![w] = NoLoad]
    /\ UNCHANGED <<inbox, link, events, stale, act, clicks, breaks>>

\* Another filter or page; the same one is the button that reloads.
ChangeView(w, v) ==
    /\ clicks < MaxClicks /\ clicks' = clicks + 1
    /\ page' = [page EXCEPT ![w].view = v, ![w].dirty = TRUE]
    /\ UNCHANGED <<inbox, link, events, stale, load, act, breaks>>

\* markSeen, markUnseen, dismiss: a PATCH, and then the load of the render in
\* which the user clicked.
Mark(w, a) ==
    /\ act[w] = NoAct /\ page[w].rows[a].version > 0
    /\ clicks < MaxClicks /\ clicks' = clicks + 1
    /\ act' = [act EXCEPT ![w] = [phase |-> "sent", alert |-> a, view |-> page[w].view]]
    /\ page' = [page EXCEPT ![w].error = FALSE]
    /\ UNCHANGED <<inbox, link, events, stale, load, breaks>>
Patched(w) ==
    /\ act[w].phase = "sent"
    /\ inbox' = [inbox EXCEPT ![act[w].alert].mark = w]
    /\ act' = [act EXCEPT ![w].phase = "answered"]
    /\ UNCHANGED <<link, events, stale, page, load, clicks, breaks>>
Marked(w) ==
    /\ act[w].phase = "answered"
    /\ load' = [load EXCEPT ![w] = [phase |-> "sent", view |-> act[w].view]]
    /\ page' = [page EXCEPT ![w].error = FALSE]
    /\ act' = [act EXCEPT ![w] = NoAct]
    /\ UNCHANGED <<inbox, link, events, stale, clicks, breaks>>
MarkFails(w) ==
    /\ act[w] # NoAct
    /\ page' = [page EXCEPT ![w].error = TRUE]
    /\ act' = [act EXCEPT ![w] = NoAct]
    /\ UNCHANGED <<inbox, link, events, stale, load, clicks, breaks>>

StreamNext ==
    \/ \E a \in Alerts : Raise(a)
    \/ CleanUp
    \/ \E w \in Windows :
         \/ Accept(w) \/ Connect(w) \/ Disconnected(w) \/ Hear(w) \/ Break(w) \/ Reopen(w)
         \/ Render(w) \/ Listed(w) \/ Shown(w) \/ ListFails(w)
         \/ \E v \in Views : ChangeView(w, v)
         \/ \E a \in Alerts : Mark(w, a)
         \/ Patched(w) \/ Marked(w) \/ MarkFails(w)

StreamSpec == StreamInit /\ [][StreamNext]_streamVars

-----------------------------------------------------------------------------
(* Properties. *)

StreamTypeOK ==
    /\ \A a \in Alerts : inbox[a].version \in 0..2 /\ inbox[a].mark \in Windows \cup {Nobody}
    /\ link \in [Windows -> {"wait", "asked", "up", "capped", "broken"}]
    /\ \A w \in Windows : /\ events[w] \in Seq({"open", "alert", "error"})
                          /\ {page[w].view, page[w].of} \subseteq Views
    /\ stale \in Nat

\* Nothing is under way in a window that is connected.
Settled(w) ==
    /\ link[w] = "up" /\ events[w] = <<>>
    /\ ~page[w].dirty /\ ~page[w].error /\ load[w] = NoLoad /\ act[w] = NoAct

\* A connected window in which nothing is under way shows every alert there
\* is, with its ruling, and what it has marked itself as marked; whatever
\* arrived while it was disconnected, connecting or loading
\* (routes/alerts.ts:687-689, useAlertsStream.ts:190-192, Alerts.tsx:154-157).
ListCatchesUp ==
    \A w \in Windows : Settled(w) =>
      \A a \in Alerts : /\ page[w].rows[a].version = inbox[a].version
                        /\ inbox[a].mark = w => page[w].rows[a].mark = w

\* The list shown is of the filters and the page chosen: Alerts.tsx:154-157
\* aborts what is in flight, lest "an out-of-order resolution overwrites fresh
\* state with stale rows".
ListIsOfView == \A w \in Windows : Settled(w) => page[w].of = page[w].view
=============================================================================
