CONSTANTS
    game = game  relay = relay  base = base
    player = player  console = console  admin = admin
    NoProc = NoProc
    Procs <- MCProcs
    Callers = {player, console, admin}
    Home <- MCHome
    Remote <- MCChain
    Requests <- MCRequests
    MaxBacklog = 4
SPECIFICATION FairSpec
INVARIANTS AnswersMatch
PROPERTIES AnsweredEventually
