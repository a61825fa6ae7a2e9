------------------------------ MODULE MCOutbox ------------------------------
(* Small instances of Outbox: an event with one handler, and a notification *)
(* that shares the event's topic.                                           *)
EXTENDS Outbox, TLC

CONSTANTS event, handler, notice, c1, c2, tEvent, tHandler

mcKeys == {event, handler, notice}
mcTopics == {tEvent, tHandler}
mcTopicOf == (event :> tEvent) @@ (handler :> tHandler) @@ (notice :> tEvent)
mcEffects == c1 :> <<event, notice>>
mcChildren == (event :> {handler}) @@ (handler :> {}) @@ (notice :> {})

\* Two commands that stage the same notification.
raceKeys == {notice}
raceTopics == {tEvent}
raceTopicOf == notice :> tEvent
raceEffects == (c1 :> <<notice>>) @@ (c2 :> <<notice>>)
raceChildren == notice :> {}
=============================================================================
