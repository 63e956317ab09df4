-------------------------- MODULE MCConsoleShutdown --------------------------
EXTENDS ConsoleShutdown, TLC

CONSTANTS plain, stream, launch, addStep, probe

\* One request of every kind.
MCRequests == {plain, stream, launch, addStep, probe}
MCKindOf ==
    plain :> "plain" @@ stream :> "stream" @@ launch :> "launch"
    @@ addStep :> "addStep" @@ probe :> "probe"
=============================================================================
