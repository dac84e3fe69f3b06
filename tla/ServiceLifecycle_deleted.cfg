SPECIFICATION Spec
CONSTANTS
  ip1 = ip1 ip2 = ip2
  IPs = {ip1, ip2}
  Occurrences = 2
  Climates <- NoFault
PROPERTIES DeletedMeansGone
