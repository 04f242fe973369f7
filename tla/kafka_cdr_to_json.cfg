SPECIFICATION Spec
CONSTANTS
  in = in
  out = out
  away = away
  back = back
  Inputs = {in}
  Topics = {in, out}
  Routings = {away, back}
  Default = away
  Route <- McRoute
  NoTopic = NoTopic
  LogLimit = 2
  MessageLimit = 2
INVARIANTS TypeOK CountersAddUp HandledOnce NoEcho
