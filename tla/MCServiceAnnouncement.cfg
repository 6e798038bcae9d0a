CONSTANTS
  ServiceID = {1, 258}
  InstanceID = {515, 65534}
  Address <- MCAddress
  BasePort = 300
  m_portCount = 2
  PortCountOption = 2
  SessionIDs = 4
  MaxServices = 4
  MaxDatagrams = 7
SPECIFICATION Spec
INVARIANTS
  OffersAreCurrent
  EndpointIsUnambiguous
  SessionTellsReboot
CHECK_DEADLOCK FALSE
