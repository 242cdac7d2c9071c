------------------------------- MODULE Channel -------------------------------
(***************************************************************************)
(* A Channel and its entry in the loop's poller (matelib/Channel.h,        *)
(* EpollPoller.cc), as a record and the operations on it:                  *)
(*   events  what the channel asks for (events_)                           *)
(*   state   the poller's note in the channel (state_)                     *)
(*   watched what epoll reports for its descriptor, or Unwatched           *)
(* A channel is in the poller's channels_ exactly when state # kNew.       *)
(***************************************************************************)

kNew     == "kNew"
kAdded   == "kAdded"
kDeleted == "kDeleted"

Unwatched == {"unwatched"}

Events == {"read", "write"}

ChannelType == [events : SUBSET Events, state : {kNew, kAdded, kDeleted},
                watched : (SUBSET Events) \cup {Unwatched}]

NewChannel == [events |-> {}, state |-> kNew, watched |-> Unwatched]

\* EpollPoller::update, epoll_ctl with EPOLL_CTL_ADD or MOD and with DEL.
Watch(ch)   == [ch EXCEPT !.watched = ch.events]
Unwatch(ch) == [ch EXCEPT !.watched = Unwatched]

\* EpollPoller::updateChannel, reached from every change of events_.
UpdateChannel(ch) ==
  IF ch.state = kAdded /\ ch.events = {}
    THEN [Unwatch(ch) EXCEPT !.state = kDeleted]
    ELSE [Watch(ch) EXCEPT !.state = kAdded]

\* Faulty variants: the poller is not told; the events stay asked for.
EnableReadingUnseen(ch) == [ch EXCEPT !.events = @ \cup {"read"}]
DisableNothing(ch) == UpdateChannel(ch)

EnableReading(ch)  == UpdateChannel([ch EXCEPT !.events = @ \cup {"read"}])
EnableWriting(ch)  == UpdateChannel([ch EXCEPT !.events = @ \cup {"write"}])
DisableWriting(ch) == UpdateChannel([ch EXCEPT !.events = @ \ {"write"}])
DisableAll(ch)     == UpdateChannel([ch EXCEPT !.events = {}])

IsWriting(ch) == "write" \in ch.events

\* The asserts of Channel::remove and EpollPoller::removeChannel: nothing asked
\* for, and the channel in channels_.
MayRemove(ch) == ch.events = {} /\ ch.state # kNew

RemoveChannel(ch) == [Unwatch(ch) EXCEPT !.state = kNew]

\* What epoll_wait reports of a watched descriptor: errors and hangups are never
\* masked.
Reported(ch, possible) ==
  IF ch.watched = Unwatched THEN {} ELSE (ch.watched \cup {"err", "hup"}) \cap possible

\* The callbacks handleEvent makes, always in the order close, error, read, write.
\* A hangup counts only when there is nothing to read.
Handled(revents) ==
  {e \in {"err", "read", "write"} : e \in revents} \cup
  (IF "hup" \in revents /\ "read" \notin revents THEN {"close"} ELSE {})

\* e's turn has come: the callbacks before it have returned.
TurnOf(e, revents) ==
  /\ e \in revents
  /\ \A f \in revents : \/ f = e
                        \/ e = "close"
                        \/ e = "err" /\ f # "close"
                        \/ e = "read" /\ f = "write"
=============================================================================
