SPECIFICATION CSpec
CONSTANTS
  Graphs = {Out, h}
  Out = Out
  Props = {0, 1, 2, 3, 4, 5, 6, 7, 8}
  Unset = Unset
  News <- SmallNews
  Jobs <- SmallGrids
  Clients <- SmallClients
INVARIANTS TypeOK EdgesNamed VisitsEveryEdge ConnectsCellsThatTouch
PROPERTIES ImplementsMultigraph
