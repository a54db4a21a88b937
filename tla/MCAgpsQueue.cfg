SPECIFICATION AgpsQueueSpec
CONSTANTS
  atl1 = atl1
  atl2 = atl2
  bit = bit
  quipc = quipc
  Subscriber <- AllClients
  WaitForClose <- WifiDaemons
  ModemClient <- AtlClients
  FreedReads <- AllClients
  MaxAnswers = 4
  MaxRestarts = 1
  jni = jni
  modem = modem
  hal = hal
  NoMsg = NoMsg
  Self = hal
  Sender <- Senders
  MaxSends = 2
INVARIANTS ClientBelief NifConsistent NoLostWakeup MessagesKept
PROPERTIES OnlyRestartStrands Answered Drains MailboxSpec
CHECK_DEADLOCK FALSE
