CONSTANTS
  server = server  c1 = c1  c2 = c2
  hello = hello  reply = reply  offer = offer  accept = accept
  ask = ask  answer = answer  hail = hail
  None = None
  Server = server
  Clients <- TwoClients
  Messages <- Seven
  From <- Sender
  To <- Receiver
  Kind <- Kinds
  Chunked <- Six
  Cause <- Causes
SPECIFICATION FairSpec
PROPERTIES SendsReturn CrossedForever AnswersReturn
CHECK_DEADLOCK FALSE
