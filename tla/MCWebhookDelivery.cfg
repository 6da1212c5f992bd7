SPECIFICATION WebhookSpec
CONSTANTS
  Null = Null
  Clients = {x, y, z}
  Keys = {k, l}
  Requests = {r, s}
  Codes <- MCCodes
  DeliveryIds <- MCDeliveryIds
SYMMETRY Symmetry
INVARIANTS
  WebhookTypeOK
PROPERTIES
  ImplementsDelivery
